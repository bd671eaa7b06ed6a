----------------------------- MODULE PartsProofs -----------------------------
(***************************************************************************)
(* What the small parts promise: the statistics of the orchestrator, the   *)
(* notification manager, the registries, the metrics of the exporter and   *)
(* the terminal's list.                                                    *)
(***************************************************************************)
EXTENDS MCParts, SubsequenceProofs, FiniteSetTheorems, SequenceTheorems, TLAPS

USE StatsAssumption

-----------------------------------------------------------------------------
(***************************************************************************)
(* The counting is right for any number of callers and of collections.     *)
(***************************************************************************)
\* Readings are ordered like the moments they were taken at: the published one
\* before the one being published before the counters now.
InOrder ==
  /\ \A r \in {health} \cup {checking} : r # NoRead =>
       /\ r \in past
       /\ r.total <= stats.total
       /\ r.failed <= stats.failed
  /\ checking # NoRead =>
       /\ health.total <= checking.total
       /\ health.failed <= checking.failed
  /\ Errors(stats) \in past

StatsInv == TypeOK /\ Accounted /\ InOrder

LEMMA ExecutingCounted ==
  ASSUME TypeOK
  PROVE  /\ Cardinality(executing) \in Nat
         /\ \A p \in executing : Cardinality(executing \ {p}) = Cardinality(executing) - 1
         /\ \A p \in Callers \ executing :
              Cardinality(executing \cup {p}) = Cardinality(executing) + 1
<1>1. IsFiniteSet(executing)
  BY FS_Subset DEF TypeOK
<1> QED
  BY <1>1, FS_CardinalityType, FS_RemoveElement, FS_AddElement

\* A step of the counters keeps them ahead of the readings.
LEMMA ReadingsStay ==
  ASSUME StatsInv, stats' \in Counters,
         stats'.total >= stats.total, stats'.failed >= stats.failed,
         Remember, UNCHANGED <<health, checking>>
  PROVE  /\ InOrder'
         /\ past' \subseteq Reading
<1> USE DEF StatsInv, TypeOK, Counters, Reading
<1>1. Errors(stats') \in Reading
  BY DEF Errors
<1>2. /\ past \subseteq past' /\ Errors(stats') \in past' /\ past' \subseteq Reading
  BY <1>1 DEF Remember
<1>3. \A r \in {health} \cup {checking} : r # NoRead => r \in Reading
  OBVIOUS
<1>4. \A r \in {health} \cup {checking} : r # NoRead =>
        r \in past' /\ r.total <= stats'.total /\ r.failed <= stats'.failed
  BY <1>2, <1>3 DEF InOrder
<1> QED
  BY <1>2, <1>4 DEF InOrder

LEMMA OutcomeCounted ==
  ASSUME TypeOK, NEW ok \in BOOLEAN
  PROVE  /\ Outcome(ok) \in Counters
         /\ Outcome(ok).total = stats.total
         /\ Outcome(ok).failed >= stats.failed
         /\ Outcome(ok).successful + Outcome(ok).failed = stats.successful + stats.failed + 1
<1>1. CASE ok = TRUE
  BY <1>1 DEF Outcome, TypeOK, Counters
<1>2. CASE ok = FALSE
  BY <1>2 DEF Outcome, TypeOK, Counters
<1> QED
  BY <1>1, <1>2

LEMMA StatsInit == Init => StatsInv
<1> SUFFICES ASSUME Init PROVE StatsInv
  OBVIOUS
<1>1. TypeOK
  BY DEF Init, TypeOK, Counters, Reading
<1>2. Accounted
  BY FS_EmptySet DEF Init, Accounted
<1>3. InOrder
  BY DEF Init, InOrder, Errors, NoRead
<1> QED
  BY <1>1, <1>2, <1>3 DEF StatsInv

LEMMA StatsStep == StatsInv /\ [Next]_vars => StatsInv'
<1> SUFFICES ASSUME StatsInv, [Next]_vars PROVE StatsInv'
  OBVIOUS
<1> USE DEF StatsInv
<1>1. ASSUME NEW p \in Callers, CollectBegin(p) PROVE StatsInv'
  <2>1. /\ stats' \in Counters /\ stats'.total = stats.total + 1
        /\ stats'.failed = stats.failed /\ stats'.successful = stats.successful
    BY <1>1 DEF CollectBegin, TypeOK, Counters
  <2>2. InOrder' /\ past' \subseteq Reading
    BY <1>1, <2>1, ReadingsStay DEF CollectBegin, TypeOK, Counters
  <2>3. TypeOK'
    BY <1>1, <2>1, <2>2 DEF CollectBegin, TypeOK
  <2>4. Accounted'
    BY <1>1, <2>1, ExecutingCounted DEF CollectBegin, Accounted, TypeOK, Counters
  <2> QED
    BY <2>2, <2>3, <2>4
<1>2. ASSUME NEW p \in Callers, NEW ok \in BOOLEAN, CollectEnd(p, ok) PROVE StatsInv'
  <2>1. stats' = Outcome(ok)
    BY <1>2 DEF CollectEnd
  <2>2. InOrder' /\ past' \subseteq Reading
    BY <1>2, <2>1, OutcomeCounted, ReadingsStay DEF CollectEnd, TypeOK, Counters
  <2>3. TypeOK'
    BY <1>2, <2>1, <2>2, OutcomeCounted DEF CollectEnd, TypeOK
  <2>4. Accounted'
    BY <1>2, <2>1, OutcomeCounted, ExecutingCounted DEF CollectEnd, Accounted, TypeOK, Counters
  <2> QED
    BY <2>2, <2>3, <2>4
<1>3. ASSUME NEW ok \in BOOLEAN, Cycle(ok) PROVE StatsInv'
  <2>1. stats' = Outcome(ok)
    BY <1>3 DEF Cycle
  <2>2. InOrder' /\ past' \subseteq Reading
    BY <1>3, <2>1, OutcomeCounted, ReadingsStay DEF Cycle, TypeOK, Counters
  <2>3. TypeOK'
    BY <1>3, <2>1, <2>2, OutcomeCounted DEF Cycle, TypeOK
  <2>4. Accounted'
    BY <1>3, <2>1, OutcomeCounted, ExecutingCounted DEF Cycle, Accounted, TypeOK, Counters
  <2> QED
    BY <2>2, <2>3, <2>4
<1>4. CASE HealthRead
  <2>1. checking' = Errors(stats) /\ UNCHANGED <<stats, executing, health, cycles, past>>
    BY <1>4 DEF HealthRead
  <2>2. TypeOK' /\ Accounted'
    BY <2>1 DEF TypeOK, Accounted, Errors, Reading, Counters
  <2>3. InOrder'
    BY <2>1 DEF InOrder, Errors, NoRead, TypeOK, Counters, Reading
  <2> QED
    BY <2>2, <2>3
<1>5. CASE HealthPublish
  <2>1. /\ health' = checking /\ checking' = NoRead /\ checking # NoRead
        /\ UNCHANGED <<stats, executing, cycles, past>>
    BY <1>5 DEF HealthPublish
  <2>2. TypeOK' /\ Accounted'
    BY <2>1 DEF TypeOK, Accounted
  <2>3. InOrder'
    BY <2>1 DEF InOrder, NoRead
  <2> QED
    BY <2>2, <2>3
<1>6. CASE UNCHANGED vars
  BY <1>6 DEF vars, TypeOK, Accounted, InOrder
<1> QED
  BY <1>1, <1>2, <1>3, <1>4, <1>5, <1>6 DEF Next

LEMMA StatsInvariance == Spec => []StatsInv
BY StatsInit, StatsStep, PTL DEF Spec

\* Every collection begun and every cycle has one outcome or is executing, for
\* any number of callers of CollectMetrics (orchestrator.go:318).
THEOREM AlwaysAccounted == Spec => []Accounted
<1>1. StatsInv => Accounted
  BY DEF StatsInv
<1> QED
  BY <1>1, StatsInvariance, PTL

\* The health reported is a reading of one moment (orchestrator.go:651).
THEOREM HealthAlwaysWasTrue == Spec => []HealthWasTrue
<1>1. StatsInv => HealthWasTrue
  BY DEF StatsInv, TypeOK, Reading, InOrder, HealthWasTrue, NoRead
<1> QED
  BY <1>1, StatsInvariance, PTL

\* Health is never overwritten by an older reading (orchestrator.go:676).
THEOREM HealthAlwaysMovesOn == Spec => HealthMovesOn
<1>1. StatsInv /\ [Next]_vars => [health'.total >= health.total /\ health'.failed >= health.failed]_vars
  <2> SUFFICES ASSUME StatsInv, Next
               PROVE  health'.total >= health.total /\ health'.failed >= health.failed
    OBVIOUS
  <2>1. CASE health' = health
    BY <2>1 DEF StatsInv, TypeOK, Reading
  <2>2. CASE HealthPublish
    BY <2>2 DEF HealthPublish, StatsInv, InOrder, TypeOK, Reading
  <2> QED
    BY <2>1, <2>2 DEF Next, CollectBegin, CollectEnd, Cycle, HealthRead
<1> QED
  BY <1>1, StatsInvariance, PTL DEF Spec, HealthMovesOn

-----------------------------------------------------------------------------
(***************************************************************************)
(* The notification manager.                                               *)
(***************************************************************************)
Answers ==
  [name : Channels, channel : {Absent} \cup N!Made, error : {Absent, N!NotFound, N!GaveUp},
   delivered : Nat]

Calls ==
  [at : {"idle", "lookup", "attempt", "returned", "panicked"}, names : Seq(Channels),
   channel : {Absent} \cup N!Made, attempt : Nat, delivered : Nat, results : Seq(Answers)]

\* An answer is true of its channel.
IsTrue(r) ==
  /\ r.error = Absent => r.channel # Absent /\ (r.channel.enabled => r.delivered >= 1)
  /\ r.error = N!NotFound <=> r.channel = Absent
  /\ r.delivered <= RetryAttempts
  /\ r.channel # Absent /\ r.channel.kind = "console" /\ RetryAttempts > 0 => r.error = Absent

\* Nobody is named twice by what is left to do, nor answered for before his turn.
EachOnce(s) ==
  /\ \A i, j \in 1..Len(s.names) : i # j => s.names[i] # s.names[j]
  /\ \A i, j \in 1..Len(s.results) : i # j => s.results[i].name # s.results[j].name
  /\ \A i \in 1..Len(s.names), j \in 1..Len(s.results) : s.names[i] # s.results[j].name

CallInv(s) ==
  /\ s \in Calls
  /\ EachOnce(s)
  /\ \A i \in 1..Len(s.results) : IsTrue(s.results[i])
  /\ s.at = "lookup" => s.attempt = 0 /\ s.delivered = 0
  /\ s.at = "attempt" =>
       /\ s.names # << >> /\ s.channel \in N!Made /\ s.channel.enabled
       /\ s.attempt < RetryAttempts /\ s.delivered <= s.attempt

NotificationsInv ==
  /\ channels \in [Channels -> {Absent} \cup N!Made]
  /\ DOMAIN send = Senders
  /\ \A c \in Senders : CallInv(send[c])

LEMMA IdleCall == CallInv(N!Idle) /\ CallInv([N!Idle EXCEPT !.at = "panicked"])
<1>1. << >> \in Seq(Channels) /\ << >> \in Seq(Answers) /\ Len(<< >>) = 0
  OBVIOUS
<1> DEFINE idle == N!Idle
           panicked == [N!Idle EXCEPT !.at = "panicked"]
<1>2. /\ idle \in Calls /\ idle.at = "idle" /\ idle.names = << >> /\ idle.results = << >>
      /\ panicked \in Calls /\ panicked.at = "panicked" /\ panicked.names = << >> /\ panicked.results = << >>
  BY <1>1 DEF N!Idle, Calls
<1> HIDE DEF idle, panicked
<1>3. CallInv(idle) /\ CallInv(panicked)
  BY <1>1, <1>2 DEF CallInv, EachOnce
<1> QED
  BY <1>3 DEF idle, panicked

\* A call for the names in some order, each once.
LEMMA CallFor ==
  ASSUME NEW names \in Seq(Channels), \A i, j \in 1..Len(names) : i # j => names[i] # names[j]
  PROVE  CallInv([N!Idle EXCEPT !.at = "lookup", !.names = names])
<1>1. << >> \in Seq(Answers) /\ Len(<< >>) = 0
  OBVIOUS
<1> DEFINE s == [N!Idle EXCEPT !.at = "lookup", !.names = names]
<1>2. /\ s \in Calls /\ s.at = "lookup" /\ s.names = names /\ s.results = << >>
      /\ s.attempt = 0 /\ s.delivered = 0
  BY <1>1 DEF N!Idle, Calls
<1> HIDE DEF s
<1>3. CallInv(s)
  BY <1>1, <1>2 DEF CallInv, EachOnce
<1> QED
  BY <1>3 DEF s

\* The call after an answer.
After(s, r) == [N!Idle EXCEPT !.at = "lookup", !.names = Tail(s.names), !.results = Append(s.results, r)]

\* An answer for the channel in turn, true of it, leaves the rest as it was.
LEMMA AnsweredCall ==
  ASSUME NEW s, CallInv(s), s.names # << >>,
         NEW r \in Answers, IsTrue(r), r.name = Head(s.names)
  PROVE  CallInv(After(s, r))
<1>1. /\ s.names \in Seq(Channels) /\ s.results \in Seq(Answers) /\ EachOnce(s)
      /\ \A i \in 1..Len(s.results) : IsTrue(s.results[i])
  BY DEF CallInv, Calls
<1> DEFINE names == Tail(s.names)
           results == Append(s.results, r)
           next == After(s, r)
<1>2. /\ names \in Seq(Channels) /\ Len(names) = Len(s.names) - 1 /\ Len(s.names) \in Nat \ {0}
      /\ \A i \in 1..Len(names) : names[i] = s.names[i + 1]
      /\ Head(s.names) = s.names[1]
  BY <1>1
<1>3. /\ results \in Seq(Answers) /\ Len(results) = Len(s.results) + 1 /\ Len(s.results) \in Nat
      /\ \A i \in 1..Len(s.results) : results[i] = s.results[i]
      /\ results[Len(s.results) + 1] = r
  BY <1>1
<1> HIDE DEF names, results
<1>4. /\ next \in Calls /\ next.at = "lookup" /\ next.names = names /\ next.results = results
      /\ next.attempt = 0 /\ next.delivered = 0
  <2>1. next = [N!Idle EXCEPT !.at = "lookup", !.names = names, !.results = results]
    BY DEF names, results, After
  <2>2. next = [at |-> "lookup", names |-> names, channel |-> Absent, attempt |-> 0, delivered |-> 0, results |-> results]
    <3> HIDE DEF next
    <3> QED
      BY <2>1 DEF N!Idle
  <2> HIDE DEF next
  <2>3. next \in Calls
    BY <2>2, <1>2, <1>3 DEF Calls
  <2> QED
    BY <2>2, <2>3
<1> HIDE DEF next
<1>5. \A i, j \in 1..Len(names) : i # j => names[i] # names[j]
  <2> SUFFICES ASSUME NEW i \in 1..Len(names), NEW j \in 1..Len(names), i # j
               PROVE  names[i] # names[j]
    OBVIOUS
  <2>1. /\ i + 1 \in 1..Len(s.names) /\ j + 1 \in 1..Len(s.names)
        /\ i + 1 # j + 1
    BY <1>2
  <2>2. names[i] = s.names[i + 1] /\ names[j] = s.names[j + 1]
    BY <1>2
  <2>3. s.names[i + 1] # s.names[j + 1]
    BY <1>1, <2>1 DEF EachOnce
  <2> QED
    BY <2>2, <2>3
<1>6. \A i \in 1..Len(s.results) : s.results[i].name # r.name
  BY <1>1, <1>2 DEF EachOnce
<1>7. \A i, j \in 1..Len(results) : i # j => results[i].name # results[j].name
  <2> SUFFICES ASSUME NEW i \in 1..Len(results), NEW j \in 1..Len(results), i # j
               PROVE  results[i].name # results[j].name
    OBVIOUS
  <2>1. CASE i \in 1..Len(s.results) /\ j \in 1..Len(s.results)
    BY <2>1, <1>1, <1>3 DEF EachOnce
  <2>2. CASE i = Len(s.results) + 1
    <3>1. j \in 1..Len(s.results) /\ results[i] = r
      BY <2>2, <1>3
    <3> QED
      BY <3>1, <1>3, <1>6
  <2>3. CASE j = Len(s.results) + 1
    <3>1. i \in 1..Len(s.results) /\ results[j] = r
      BY <2>3, <1>3
    <3> QED
      BY <3>1, <1>3, <1>6
  <2> QED
    BY <2>1, <2>2, <2>3, <1>3
<1>8. \A i \in 1..Len(names), j \in 1..Len(results) : names[i] # results[j].name
  <2> SUFFICES ASSUME NEW i \in 1..Len(names), NEW j \in 1..Len(results)
               PROVE  names[i] # results[j].name
    OBVIOUS
  <2>1. i + 1 \in 1..Len(s.names) /\ 1 \in 1..Len(s.names) /\ i + 1 # 1
    BY <1>2
  <2>2. CASE j \in 1..Len(s.results)
    <3>1. results[j] = s.results[j] /\ names[i] = s.names[i + 1]
      BY <2>2, <1>2, <1>3
    <3>2. s.names[i + 1] # s.results[j].name
      BY <2>1, <2>2, <1>1 DEF EachOnce
    <3> QED
      BY <3>1, <3>2
  <2>3. CASE j = Len(s.results) + 1
    <3>1. results[j] = r /\ r.name = s.names[1] /\ names[i] = s.names[i + 1]
      BY <2>3, <1>2, <1>3
    <3>2. s.names[i + 1] # s.names[1]
      BY <2>1, <1>1 DEF EachOnce
    <3> QED
      BY <3>1, <3>2
  <2> QED
    BY <2>2, <2>3, <1>3
<1>9. \A i \in 1..Len(results) : IsTrue(results[i])
  <2> SUFFICES ASSUME NEW i \in 1..Len(results) PROVE IsTrue(results[i])
    OBVIOUS
  <2>1. CASE i \in 1..Len(s.results)
    <3>1. results[i] = s.results[i] /\ IsTrue(s.results[i])
      BY <2>1, <1>1, <1>3
    <3> QED
      BY <3>1
  <2>2. CASE i = Len(s.results) + 1
    <3>1. results[i] = r
      BY <2>2, <1>3
    <3> QED
      BY <3>1
  <2> QED
    BY <2>1, <2>2, <1>3
<1>10. EachOnce(next)
  BY <1>4, <1>5, <1>7, <1>8 DEF EachOnce
<1>11. CallInv(next)
  BY <1>4, <1>9, <1>10 DEF CallInv
<1> QED
  BY <1>11 DEF next

LEMMA NotificationsInit == N!Init => NotificationsInv
BY IdleCall DEF N!Init, NotificationsInv

\* A step that changes one call.
LEMMA OneCall ==
  ASSUME NotificationsInv, NEW c \in Senders, NEW s, CallInv(s),
         send' = [send EXCEPT ![c] = s], UNCHANGED channels
  PROVE  NotificationsInv'
<1>1. \A d \in Senders : send'[d] = IF d = c THEN s ELSE send[d]
  BY DEF NotificationsInv
<1>2. \A d \in Senders : CallInv(send'[d])
  BY <1>1 DEF NotificationsInv
<1> QED
  BY <1>2 DEF NotificationsInv, CallInv, IsTrue, EachOnce, Calls, Answers

\* The channel in turn has been answered for, truly.
LEMMA OneAnswer ==
  ASSUME PartsAssumption, NotificationsInv, NEW c \in Senders, send[c].names # << >>,
         NEW of \in {Absent} \cup N!Made, NEW error \in {Absent, N!NotFound, N!GaveUp}, NEW delivered \in Nat,
         IsTrue(N!Result(Head(send[c].names), of, error, delivered)),
         N!Answered(c, of, error, delivered), UNCHANGED channels
  PROVE  NotificationsInv'
<1> DEFINE s == send[c]
           r == N!Result(Head(s.names), of, error, delivered)
<1>1. CallInv(s)
  BY DEF NotificationsInv
<1>2. Head(s.names) \in Channels
  BY <1>1 DEF CallInv, Calls
<1>3. r \in Answers /\ r.name = Head(s.names)
  BY <1>2 DEF N!Result, Answers
<1>4. CallInv(After(s, r))
  BY <1>1, <1>3, AnsweredCall
<1>5. send' = [send EXCEPT ![c] = After(s, r)]
  BY DEF N!Answered, After
<1> QED
  BY <1>4, <1>5, OneCall

LEMMA NotificationsStep == PartsAssumption /\ NotificationsInv /\ [N!Next]_notifications => NotificationsInv'
<1> SUFFICES ASSUME PartsAssumption, NotificationsInv, [N!Next]_notifications PROVE NotificationsInv'
  OBVIOUS
<1>0. \A c \in Senders : CallInv(send[c])
  BY DEF NotificationsInv
<1>1. ASSUME NEW n \in Channels, NEW d \in BOOLEAN, NEW m \in N!Made, N!AddChannelFromConfig(n, d, m)
      PROVE  NotificationsInv'
  <2>1. N!Built(m.kind, d, m) \in {Absent} \cup N!Made
    BY DEF N!Built, N!Made, N!Kinds
  <2>2. channels' \in [Channels -> {Absent} \cup N!Made] /\ send' = send
    BY <1>1, <2>1 DEF N!AddChannelFromConfig, NotificationsInv
  <2> QED
    BY <2>2 DEF NotificationsInv
<1>2. ASSUME NEW n \in Channels, N!RemoveChannel(n) PROVE NotificationsInv'
  <2>1. channels' \in [Channels -> {Absent} \cup N!Made] /\ send' = send
    BY <1>2 DEF N!RemoveChannel, NotificationsInv
  <2> QED
    BY <2>1 DEF NotificationsInv
<1>3. ASSUME NEW c \in Senders, NEW n \in Channels, N!Send(c, n) PROVE NotificationsInv'
  <2>1. <<n>> \in Seq(Channels) /\ Len(<<n>>) = 1
    OBVIOUS
  <2> DEFINE names == <<n>>
  <2>2. \A i, j \in 1..Len(names) : i # j => names[i] # names[j]
    BY <2>1
  <2>3. send' = [send EXCEPT ![c] = [N!Idle EXCEPT !.at = "lookup", !.names = names]] /\ UNCHANGED channels
    BY <1>3 DEF N!Send
  <2> HIDE DEF names
  <2>4. CallInv([N!Idle EXCEPT !.at = "lookup", !.names = names])
    BY <2>1, <2>2, CallFor DEF names
  <2> QED
    BY <2>3, <2>4, OneCall
<1>4. ASSUME NEW c \in Senders, N!SendToAll(c) PROVE NotificationsInv'
  <2>1. PICK order \in N!SetToSeqs({n \in Channels : channels[n] # Absent}) :
          send' = [send EXCEPT ![c] = [N!Idle EXCEPT !.at = "lookup", !.names = order]]
    BY <1>4 DEF N!SendToAll
  <2> DEFINE there == {n \in Channels : channels[n] # Absent}
  <2>2. Cardinality(there) \in Nat
    BY FS_Subset, FS_CardinalityType DEF PartsAssumption
  <2>3. /\ order \in [1..Cardinality(there) -> there]
        /\ \A i, j \in 1..Cardinality(there) : i # j => order[i] # order[j]
    <3>1. N!Cardinality(there) = Cardinality(there)
      BY DEF N!Cardinality, Cardinality
    <3> HIDE DEF there
    <3> QED
      BY <2>1, <3>1 DEF N!SetToSeqs, there
  <2>4. order \in Seq(Channels) /\ Len(order) = Cardinality(there)
    BY <2>2, <2>3
  <2>5. CallInv([N!Idle EXCEPT !.at = "lookup", !.names = order])
    BY <2>3, <2>4, CallFor
  <2> QED
    BY <1>4, <2>1, <2>5, OneCall DEF N!SendToAll
<1>5. ASSUME NEW c \in Senders, N!Lookup(c) PROVE NotificationsInv'
  <2> DEFINE s == send[c]
             found == channels[Head(s.names)]
  <2>1. s.names # << >> /\ s.at = "lookup" /\ CallInv(s) /\ UNCHANGED channels
    BY <1>0, <1>5 DEF N!Lookup
  <2>2. found \in {Absent} \cup N!Made
    BY <2>1 DEF CallInv, Calls, NotificationsInv
  <2>3. /\ Absent # N!NotFound /\ Absent # N!GaveUp /\ N!GaveUp # N!NotFound /\ Absent \notin N!Made
        /\ RetryAttempts \in Nat
    BY DEF PartsAssumption, N!NotFound, N!GaveUp
  <2>4. CASE found = Absent
    <3>1. N!Answered(c, Absent, N!NotFound, 0)
      BY <1>5, <2>4 DEF N!Lookup
    <3>2. IsTrue(N!Result(Head(s.names), Absent, N!NotFound, 0))
      BY <2>3 DEF IsTrue, N!Result
    <3> QED
      BY <2>1, <3>1, <3>2, OneAnswer
  <2>5. CASE found # Absent /\ ~found.enabled
    <3>1. N!Answered(c, found, Absent, 0)
      BY <1>5, <2>5 DEF N!Lookup
    <3>2. IsTrue(N!Result(Head(s.names), found, Absent, 0))
      BY <2>3, <2>5 DEF IsTrue, N!Result
    <3> QED
      BY <2>1, <2>2, <3>1, <3>2, OneAnswer
  <2>6. CASE found # Absent /\ found.enabled /\ RetryAttempts = 0
    <3>1. N!Answered(c, found, N!GaveUp, 0)
      BY <1>5, <2>6 DEF N!Lookup
    <3>2. IsTrue(N!Result(Head(s.names), found, N!GaveUp, 0))
      BY <2>3, <2>6 DEF IsTrue, N!Result
    <3> QED
      BY <2>1, <2>2, <3>1, <3>2, OneAnswer
  <2>7. CASE found # Absent /\ found.enabled /\ RetryAttempts # 0
    <3> DEFINE next == [s EXCEPT !.at = "attempt", !.channel = found]
    <3>1. send' = [send EXCEPT ![c] = next]
      BY <1>5, <2>7 DEF N!Lookup
    <3>2. /\ next \in Calls /\ next.names = s.names /\ next.results = s.results /\ next.at = "attempt"
          /\ next.channel = found /\ next.attempt = s.attempt /\ next.delivered = s.delivered
      BY <2>1, <2>2 DEF CallInv, Calls
    <3> HIDE DEF next
    <3>3. CallInv(next)
      BY <3>2, <2>1, <2>2, <2>3, <2>7 DEF CallInv, EachOnce
    <3> QED
      BY <2>1, <3>1, <3>3, OneCall
  <2> QED
    BY <2>4, <2>5, <2>6, <2>7
<1>6. ASSUME NEW c \in Senders, N!Attempt(c) PROVE NotificationsInv'
  <2> DEFINE s == send[c]
  <2>1. /\ s.at = "attempt" /\ CallInv(s) /\ UNCHANGED channels /\ s.names # << >>
        /\ s.channel \in N!Made /\ s.channel.enabled /\ s.attempt < RetryAttempts /\ s.delivered <= s.attempt
        /\ s.attempt \in Nat /\ s.delivered \in Nat /\ s \in Calls
    BY <1>0, <1>6 DEF N!Attempt, CallInv, Calls
  <2>2. /\ Absent # N!NotFound /\ Absent # N!GaveUp /\ N!GaveUp # N!NotFound /\ Absent \notin N!Made
        /\ RetryAttempts \in Nat
    BY DEF PartsAssumption, N!NotFound, N!GaveUp
  <2>3. PICK e \in N!Endings(s.channel) :
          LET delivered == s.delivered + (IF e.arrived THEN 1 ELSE 0)
          IN  IF ~e.failed THEN N!Answered(c, s.channel, Absent, delivered)
              ELSE IF s.attempt + 1 = RetryAttempts THEN N!Answered(c, s.channel, N!GaveUp, delivered)
              ELSE send' = [send EXCEPT ![c].attempt = @ + 1, ![c].delivered = delivered]
    BY <1>6 DEF N!Attempt
  <2>4. /\ e.failed \in BOOLEAN /\ e.arrived \in BOOLEAN /\ (~e.failed => e.arrived)
        /\ s.channel.kind = "console" => ~e.failed
    <3>1. e \in N!Endings(s.channel)
      BY <2>3
    <3> HIDE DEF s
    <3>2. \/ e = [failed |-> FALSE, arrived |-> TRUE]
          \/ s.channel.kind # "console" /\ e \in [failed : {TRUE}, arrived : BOOLEAN]
      BY <3>1 DEF N!Endings
    <3>3. CASE e = [failed |-> FALSE, arrived |-> TRUE]
      <4>1. e.failed = FALSE /\ e.arrived = TRUE
        BY <3>3
      <4> QED
        BY <4>1
    <3>4. CASE s.channel.kind # "console" /\ e \in [failed : {TRUE}, arrived : BOOLEAN]
      <4>1. e.failed \in {TRUE} /\ e.arrived \in BOOLEAN
        BY <3>4
      <4>2. e.failed = TRUE
        BY <4>1
      <4> QED
        BY <3>4, <4>1, <4>2
    <3> QED
      BY <3>2, <3>3, <3>4
  <2> DEFINE delivered == s.delivered + (IF e.arrived THEN 1 ELSE 0)
  <2>5. delivered \in Nat /\ delivered <= s.attempt + 1 /\ (~e.failed => delivered >= 1)
    BY <2>1, <2>4
  <2>6. CASE ~e.failed
    <3>1. N!Answered(c, s.channel, Absent, delivered)
      BY <2>3, <2>6
    <3> HIDE DEF delivered
    <3>2. IsTrue(N!Result(Head(s.names), s.channel, Absent, delivered))
      BY <2>1, <2>2, <2>5, <2>6 DEF IsTrue, N!Result
    <3> QED
      BY <2>1, <2>5, <3>1, <3>2, OneAnswer
  <2>7. CASE e.failed /\ s.attempt + 1 = RetryAttempts
    <3>1. N!Answered(c, s.channel, N!GaveUp, delivered)
      BY <2>3, <2>7
    <3> HIDE DEF delivered
    <3>2. IsTrue(N!Result(Head(s.names), s.channel, N!GaveUp, delivered))
      BY <2>1, <2>2, <2>4, <2>5, <2>7 DEF IsTrue, N!Result
    <3> QED
      BY <2>1, <2>5, <3>1, <3>2, OneAnswer
  <2>8. CASE e.failed /\ s.attempt + 1 # RetryAttempts
    <3> DEFINE next == [s EXCEPT !.attempt = s.attempt + 1, !.delivered = delivered]
    <3>1. send' = [send EXCEPT ![c] = next]
      <4>1. send' = [send EXCEPT ![c].attempt = @ + 1, ![c].delivered = delivered]
        BY <2>3, <2>8
      <4> HIDE DEF delivered
      <4> QED
        BY <4>1
    <3> HIDE DEF delivered
    <3>2. /\ next \in Calls /\ next.names = s.names /\ next.results = s.results /\ next.at = "attempt"
          /\ next.channel = s.channel /\ next.attempt = s.attempt + 1 /\ next.delivered = delivered
      <4> DEFINE attempt == s.attempt + 1
      <4>1. attempt \in Nat /\ delivered \in Nat /\ s \in Calls /\ s.at = "attempt"
        BY <2>1, <2>5
      <4> HIDE DEF attempt, s
      <4>2. /\ next \in Calls /\ next.names = s.names /\ next.results = s.results /\ next.at = "attempt"
            /\ next.channel = s.channel /\ next.attempt = attempt /\ next.delivered = delivered
        BY <4>1 DEF Calls, attempt
      <4> QED
        BY <4>2 DEF attempt
    <3> HIDE DEF next
    <3>3. CallInv(next)
      BY <3>2, <2>1, <2>2, <2>5, <2>8 DEF CallInv, EachOnce
    <3> QED
      BY <2>1, <3>1, <3>3, OneCall
  <2> QED
    BY <2>4, <2>6, <2>7, <2>8
<1>7. ASSUME NEW c \in Senders, N!AttemptPanics(c) PROVE NotificationsInv'
  <2>1. /\ send' = [x \in Senders |-> [N!Idle EXCEPT !.at = "panicked"]]
        /\ UNCHANGED channels
    BY <1>7 DEF N!AttemptPanics
  <2> QED
    BY <2>1, IdleCall DEF NotificationsInv
<1>8. ASSUME NEW c \in Senders, N!Return(c) PROVE NotificationsInv'
  <2> DEFINE s == send[c]
             next == [s EXCEPT !.at = "returned"]
  <2>1. send' = [send EXCEPT ![c] = next] /\ CallInv(s) /\ UNCHANGED channels
    BY <1>0, <1>8 DEF N!Return
  <2>2. /\ next \in Calls /\ next.names = s.names /\ next.results = s.results /\ next.at = "returned"
    BY <2>1 DEF CallInv, Calls
  <2> HIDE DEF next
  <2>3. CallInv(next)
    BY <2>1, <2>2 DEF CallInv, EachOnce
  <2> QED
    BY <2>1, <2>3, OneCall
<1>9. CASE UNCHANGED notifications
  BY <1>9 DEF notifications, NotificationsInv
<1> QED
  BY <1>1, <1>2, <1>3, <1>4, <1>5, <1>6, <1>7, <1>8, <1>9 DEF N!Next

\* What a send answers of each channel is true of it, for any number of
\* senders and of attempts and whatever is removed meanwhile
\* (notifications.go:181, 193, 248): a notification that was not reported as
\* failed has arrived, and nobody is notified twice by one call for all.
THEOREM SendsAlwaysTrue == MCSpec => []SendsAreTrue
<1> DEFINE Inv == part = "notifications" => NotificationsInv
<1>1. MCInit => Inv
  BY NotificationsInit DEF MCInit
<1>2. Inv /\ [MCNext]_MCvars => Inv'
  <2> SUFFICES ASSUME Inv, [MCNext]_MCvars, part' = "notifications" PROVE NotificationsInv'
    OBVIOUS
  <2>1. part = "notifications" /\ [N!Next]_notifications
    BY DEF MCNext, MCvars
  <2> QED
    BY <2>1, NotificationsStep, PartsAssumption
<1>3. Inv => SendsAreTrue
  <2> SUFFICES ASSUME NotificationsInv PROVE N!SendsAreTrue
    BY DEF SendsAreTrue
  <2> SUFFICES ASSUME NEW c \in Senders, NEW i \in DOMAIN send[c].results
               PROVE  /\ IsTrue(send[c].results[i])
                      /\ \A j \in DOMAIN send[c].results :
                           i # j => send[c].results[j].name # send[c].results[i].name
    BY DEF N!SendsAreTrue, IsTrue
  <2>1. CallInv(send[c]) /\ DOMAIN send[c].results = 1..Len(send[c].results)
    BY DEF NotificationsInv, CallInv, Calls
  <2> QED
    BY <2>1 DEF CallInv, EachOnce
<1> QED
  BY <1>1, <1>2, <1>3, PTL DEF MCSpec

-----------------------------------------------------------------------------
(***************************************************************************)
(* The registries of constructors.                                         *)
(***************************************************************************)
Requests ==
  [op : {"idle", "get_or_create", "create", "create_default", "get_default"},
   at : {"idle", "get", "create", "store", "default", "lookup", "returned", "failed"},
   name : {Absent} \cup RepoNames, type : {Absent} \cup Types, got : {Absent} \cup Nat,
   seen : SUBSET ({Absent} \cup Types)]

WellFormed(k) ==
  /\ k \in Requests
  /\ k.at \in {"get", "store"} => k.name \in RepoNames
  /\ k.at \in {"default", "lookup"} => k.op = "get_default"

\* What a call for the default has seen of the default in force.
SawDefault(k, default) ==
  /\ k.at = "default" => default \in k.seen /\ k.type = OS
  /\ k.at = "lookup" => k.type \in k.seen \/ (k.type = OS /\ Absent \in k.seen)

RegistriesOK ==
  /\ registry \subseteq Types /\ defaultType \in {Absent} \cup Types
  /\ DOMAIN instances = RepoNames /\ DOMAIN repos = 1..MaxRepos /\ made \in 0..MaxRepos
  /\ raced \subseteq Callers
  /\ DOMAIN call = Callers
  /\ \A c \in Callers : WellFormed(call[c]) /\ SawDefault(call[c], defaultType)

\* Two calls for a name know of each other.
Met ==
  \A c, d \in Callers :
    c # d /\ call[c].name = call[d].name /\ call[c].name # Absent => c \in raced

\* One that shares its name with nobody found none, and finds none.
Alone ==
  \A c \in Callers \ raced :
    call[c].op = "get_or_create" /\ call[c].at \in {"create", "store"} /\ call[c].name # Absent =>
      instances[call[c].name] = Absent

\* What is named is open, and so is what is about to be, which is nobody else's.
Open ==
  /\ \A n \in RepoNames : instances[n] # Absent => instances[n] \in 1..made /\ repos[instances[n]] = "open"
  /\ \A c \in Callers : call[c].at = "store" =>
       /\ call[c].got \in 1..made /\ repos[call[c].got] = "open"
       /\ \A n \in RepoNames : instances[n] # call[c].got
       /\ \A d \in Callers \ {c} : call[d].at = "store" => call[d].got # call[c].got

FactoriesInv == RegistriesOK /\ Met /\ Alone /\ Open

LEMMA FactoriesInit == PartsAssumption /\ F!Init => FactoriesInv
<1> SUFFICES ASSUME PartsAssumption, F!Init PROVE FactoriesInv
  OBVIOUS
<1>1. F!Idle \in Requests /\ F!Idle.at = "idle" /\ F!Idle.op = "idle" /\ F!Idle.name = Absent
  BY DEF F!Idle, Requests
<1>2. \A c \in Callers : call[c] = F!Idle
  BY DEF F!Init
<1>3. RegistriesOK
  BY <1>1, <1>2 DEF F!Init, RegistriesOK, WellFormed, SawDefault, PartsAssumption, F!Repos
<1>4. Met /\ Alone
  BY <1>1, <1>2 DEF Met, Alone
<1>5. Open
  BY <1>1, <1>2 DEF F!Init, Open
<1> QED
  BY <1>3, <1>4, <1>5 DEF FactoriesInv

\* A default that changes is seen by the calls that answer for it.
LEMMA DefaultChanges ==
  ASSUME FactoriesInv, NEW t \in {Absent} \cup Types,
         registry' \subseteq Types, defaultType' = t, call' = F!Witness(t),
         UNCHANGED <<instances, repos, made, raced>>
  PROVE  FactoriesInv'
<1>1. ASSUME NEW c \in Callers
      PROVE  /\ WellFormed(call'[c]) /\ SawDefault(call'[c], t)
             /\ call'[c].name = call[c].name /\ call'[c].op = call[c].op
             /\ call'[c].at = call[c].at /\ call'[c].got = call[c].got
  <2> DEFINE k == call[c]
             w == [k EXCEPT !.seen = k.seen \cup {t}]
  <2>1. WellFormed(k) /\ SawDefault(k, defaultType)
    BY DEF FactoriesInv, RegistriesOK
  <2>2. call'[c] = IF k.op = "get_default" THEN w ELSE k
    BY DEF F!Witness
  <2>3. CASE k.op = "get_default"
    <3>1. /\ w \in Requests /\ w.at = k.at /\ w.op = k.op /\ w.name = k.name /\ w.got = k.got
          /\ w.type = k.type /\ w.seen = k.seen \cup {t}
      BY <2>1 DEF WellFormed, Requests
    <3> HIDE DEF w
    <3>2. WellFormed(w) /\ SawDefault(w, t)
      BY <2>1, <3>1 DEF WellFormed, SawDefault
    <3> QED
      BY <2>2, <2>3, <3>1, <3>2
  <2>4. CASE k.op # "get_default"
    BY <2>1, <2>2, <2>4 DEF WellFormed, SawDefault
  <2> QED
    BY <2>3, <2>4
<1>2. RegistriesOK'
  <2>1. DOMAIN call' = Callers
    BY DEF F!Witness
  <2>2. \A c \in Callers : WellFormed(call'[c]) /\ SawDefault(call'[c], defaultType')
    BY <1>1
  <2>3. (\A c \in Callers : WellFormed(call[c]) /\ SawDefault(call[c], defaultType))'
    BY <2>2 DEF WellFormed, SawDefault, Requests
  <2> QED
    BY <2>1, <2>3 DEF FactoriesInv, RegistriesOK
<1>3. Met' /\ Alone'
  BY <1>1 DEF FactoriesInv, Met, Alone
<1>4. Open'
  BY <1>1 DEF FactoriesInv, Open
<1> QED
  BY <1>2, <1>3, <1>4 DEF FactoriesInv

\* A call that moves on keeps what it asked for, and the others are where they were.
LEMMA CallMoves ==
  ASSUME RegistriesOK, NEW c \in Callers,
         NEW at \in {"create", "store", "lookup", "returned", "failed"},
         NEW type \in {Absent} \cup Types, NEW got \in {Absent} \cup Nat,
         F!Moved(c, at, type, got)
  PROVE  /\ DOMAIN call' = Callers
         /\ \A d \in Callers \ {c} : call'[d] = call[d]
         /\ call'[c] \in Requests /\ call'[c].op = call[c].op /\ call'[c].at = at
         /\ call'[c].name = call[c].name /\ call'[c].type = type /\ call'[c].got = got
         /\ call'[c].seen = call[c].seen
<1> DEFINE k == call[c]
           w == [k EXCEPT !.at = at, !.type = type, !.got = got]
<1>1. call' = [call EXCEPT ![c] = w]
  BY DEF F!Moved
<1>2. k \in Requests
  BY DEF RegistriesOK, WellFormed
<1>3. /\ w \in Requests /\ w.op = k.op /\ w.at = at /\ w.name = k.name /\ w.type = type
      /\ w.got = got /\ w.seen = k.seen
  <2> HIDE DEF k
  <2> QED
    BY <1>2 DEF Requests
<1> HIDE DEF w
<1>4. call'[c] = w /\ DOMAIN call' = Callers
  BY <1>1 DEF RegistriesOK
<1>5. \A d \in Callers \ {c} : call'[d] = call[d]
  BY <1>1 DEF RegistriesOK
<1> QED
  BY <1>3, <1>4, <1>5

\* A call that moves on with nothing to store, and makes nothing.
LEMMA CallMovesAlone ==
  ASSUME FactoriesInv, NEW c \in Callers,
         NEW at \in {"create", "lookup", "returned", "failed"},
         NEW type \in {Absent} \cup Types, NEW got \in {Absent} \cup Nat,
         F!Moved(c, at, type, got),
         at = "lookup" => call[c].op = "get_default" /\
           (type \in call[c].seen \/ (type = OS /\ Absent \in call[c].seen)),
         at = "create" /\ call[c].name # Absent => instances[call[c].name] = Absent,
         UNCHANGED <<registry, defaultType, instances, repos, made, raced>>
  PROVE  FactoriesInv'
<1>1. /\ DOMAIN call' = Callers
      /\ \A d \in Callers \ {c} : call'[d] = call[d]
      /\ call'[c] \in Requests /\ call'[c].op = call[c].op /\ call'[c].at = at
      /\ call'[c].name = call[c].name /\ call'[c].type = type /\ call'[c].got = got
      /\ call'[c].seen = call[c].seen
  BY CallMoves DEF FactoriesInv
<1>2. WellFormed(call'[c]) /\ SawDefault(call'[c], defaultType')
  BY <1>1 DEF WellFormed, SawDefault
<1>3. RegistriesOK'
  <2>1. \A d \in Callers : WellFormed(call'[d]) /\ SawDefault(call'[d], defaultType')
    BY <1>1, <1>2 DEF FactoriesInv, RegistriesOK
  <2> QED
    BY <1>1, <2>1 DEF FactoriesInv, RegistriesOK, WellFormed, SawDefault, Requests
<1>4. Met'
  BY <1>1 DEF FactoriesInv, Met
<1>5. Alone'
  BY <1>1 DEF FactoriesInv, Alone
<1>6. Open'
  BY <1>1 DEF FactoriesInv, Open
<1> QED
  BY <1>3, <1>4, <1>5, <1>6 DEF FactoriesInv

LEMMA CallBegins ==
  ASSUME PartsAssumption, FactoriesInv, NEW c \in Callers,
         NEW op \in {"get_or_create", "create", "create_default", "get_default"},
         NEW at \in {"get", "create", "default"}, NEW n \in {Absent} \cup RepoNames, NEW t \in {Absent} \cup Types,
         F!Begin(c, op, at, n, t),
         at = "get" => n \in RepoNames,
         at = "default" => op = "get_default" /\ t = OS,
         at = "create" => op # "get_or_create"
  PROVE  FactoriesInv'
<1> DEFINE seen == IF op = "get_default" THEN {defaultType} ELSE {}
           k == [op |-> op, at |-> at, name |-> n, type |-> t, got |-> Absent, seen |-> seen]
           others == {d \in Callers \ {c} : call[d].name = n}
<1>1. /\ call' = [call EXCEPT ![c] = k] /\ call[c] = F!Idle
      /\ raced' = IF n # Absent /\ others # {} THEN raced \cup {c} \cup others ELSE raced \ {c}
      /\ UNCHANGED <<registry, defaultType, instances, repos, made>>
  BY DEF F!Begin, F!Others
<1>2. RegistriesOK /\ Met /\ Alone /\ Open /\ seen \in SUBSET ({Absent} \cup Types)
  BY DEF FactoriesInv, RegistriesOK
<1>3. /\ k \in Requests /\ k.op = op /\ k.at = at /\ k.name = n /\ k.type = t /\ k.seen = seen
  <2> HIDE DEF seen
  <2> QED
    BY <1>2 DEF Requests
<1>4. WellFormed(k) /\ SawDefault(k, defaultType)
  <2>1. at = "default" => defaultType \in seen
    OBVIOUS
  <2> HIDE DEF k, seen
  <2> QED
    BY <1>3, <2>1 DEF WellFormed, SawDefault
<1> HIDE DEF k, seen
<1>5. DOMAIN call' = Callers /\ call'[c] = k /\ \A d \in Callers \ {c} : call'[d] = call[d]
  BY <1>1, <1>2 DEF RegistriesOK
<1>6. RegistriesOK'
  <2>1. \A d \in Callers : WellFormed(call'[d]) /\ SawDefault(call'[d], defaultType')
    BY <1>1, <1>2, <1>4, <1>5 DEF RegistriesOK
  <2>2. raced' \subseteq Callers
    BY <1>1, <1>2 DEF RegistriesOK
  <2> QED
    BY <1>1, <1>2, <1>5, <2>1, <2>2 DEF RegistriesOK, WellFormed, SawDefault, Requests
<1>7. Met'
  <2> SUFFICES ASSUME NEW d \in Callers, NEW e \in Callers, d # e,
                      call'[d].name = call'[e].name, call'[d].name # Absent
               PROVE  d \in raced'
    BY DEF Met
  <2>1. CASE d = c
    <3>1. e \in others /\ n # Absent
      BY <1>3, <1>5, <2>1
    <3> HIDE DEF others
    <3> QED
      BY <1>1, <2>1, <3>1
  <2>2. CASE e = c
    <3>1. d \in others /\ n # Absent
      BY <1>3, <1>5, <2>2
    <3> HIDE DEF others
    <3> QED
      BY <1>1, <2>2, <3>1
  <2>3. CASE d # c /\ e # c
    <3>1. d \in raced
      BY <1>2, <1>5, <2>3 DEF Met
    <3> QED
      BY <1>1, <2>3, <3>1
  <2> QED
    BY <2>1, <2>2, <2>3
<1>8. Alone'
  <2> SUFFICES ASSUME NEW d \in Callers \ raced', call'[d].op = "get_or_create",
                      call'[d].at \in {"create", "store"}, call'[d].name # Absent
               PROVE  instances'[call'[d].name] = Absent
    BY DEF Alone
  <2>1. d # c
    BY <1>3, <1>5
  <2>2. d \notin raced
    BY <1>1, <2>1
  <2> QED
    BY <1>1, <1>2, <1>5, <2>1, <2>2 DEF Alone
<1>9. Open'
  <2>1. call'[c].at # "store"
    BY <1>3, <1>5
  <2> QED
    BY <1>1, <1>2, <1>5, <2>1 DEF Open
<1> QED
  BY <1>6, <1>7, <1>8, <1>9 DEF FactoriesInv

LEMMA FactoriesStep == PartsAssumption /\ FactoriesInv /\ [F!Next]_factories => FactoriesInv'
<1> SUFFICES ASSUME PartsAssumption, FactoriesInv, [F!Next]_factories PROVE FactoriesInv'
  OBVIOUS
<1>0. /\ RegistriesOK /\ Met /\ Alone /\ Open
      /\ \A c \in Callers : WellFormed(call[c]) /\ SawDefault(call[c], defaultType) /\ call[c] \in Requests
      /\ OS \in Types /\ MaxRepos \in Nat /\ Absent \notin Nat \cup RepoNames \cup Types
  BY DEF FactoriesInv, RegistriesOK, WellFormed, PartsAssumption
<1>1. ASSUME NEW t \in Types, NEW works \in BOOLEAN, F!Register(t, works) PROVE FactoriesInv'
  <2>1. registry' \subseteq Types /\ UNCHANGED <<defaultType, instances, repos, made, call, raced>>
    BY <1>0, <1>1 DEF F!Register, RegistriesOK
  <2> QED
    BY <1>0, <2>1 DEF FactoriesInv, RegistriesOK, WellFormed, SawDefault, Requests, Met, Alone, Open
<1>2. ASSUME NEW t \in Types, F!SetDefaultType(t) PROVE FactoriesInv'
  BY <1>0, <1>2, DefaultChanges DEF F!SetDefaultType, RegistriesOK
<1>3. CASE F!Clear
  BY <1>0, <1>3, DefaultChanges DEF F!Clear, RegistriesOK
<1>4. CASE F!CloseAll
  <2>1. PICK failing \in SUBSET {instances[n] : n \in RepoNames} :
          repos' = [r \in F!Repos |-> IF (\E n \in RepoNames : instances[n] = r) /\ r \notin failing
                                      THEN "closed" ELSE repos[r]]
    BY <1>4 DEF F!CloseAll
  <2>2. /\ DOMAIN repos' = 1..MaxRepos
        /\ \A r \in 1..MaxRepos : (\A n \in RepoNames : instances[n] # r) => repos'[r] = repos[r]
    BY <2>1 DEF F!Repos
  <2>3. instances' = [n \in RepoNames |-> Absent] /\ UNCHANGED <<registry, defaultType, made, call, raced>>
    BY <1>4 DEF F!CloseAll
  <2>4. RegistriesOK'
    BY <1>0, <2>2, <2>3 DEF RegistriesOK, WellFormed, SawDefault, Requests
  <2>5. Met' /\ Alone'
    BY <1>0, <2>3 DEF Met, Alone, WellFormed, Requests
  <2>6. Open'
    <3>1. 1..made \subseteq 1..MaxRepos
      BY <1>0 DEF RegistriesOK
    <3> QED
      BY <1>0, <2>2, <2>3, <3>1 DEF Open
  <2> QED
    BY <2>4, <2>5, <2>6 DEF FactoriesInv
<1>5. ASSUME NEW c \in Callers, NEW n \in RepoNames, NEW t \in Types, F!GetOrCreate(c, n, t) PROVE FactoriesInv'
  BY <1>5, CallBegins DEF F!GetOrCreate
<1>6. ASSUME NEW c \in Callers, NEW n \in RepoNames, NEW t \in Types, F!CreateWithName(c, n, t) PROVE FactoriesInv'
  BY <1>6, CallBegins DEF F!CreateWithName
<1>7. ASSUME NEW c \in Callers, F!CreateDefault(c) PROVE FactoriesInv'
  <2>1. defaultType \in {Absent} \cup Types
    BY <1>0 DEF RegistriesOK
  <2> QED
    BY <1>7, <2>1, CallBegins DEF F!CreateDefault
<1>8. ASSUME NEW c \in Callers, F!GetDefault(c) PROVE FactoriesInv'
  BY <1>0, <1>8, CallBegins DEF F!GetDefault
<1>9. ASSUME NEW c \in Callers, F!Get(c) PROVE FactoriesInv'
  <2> DEFINE found == instances[call[c].name]
  <2>1. /\ call[c].name \in RepoNames /\ call[c].type \in {Absent} \cup Types
        /\ found \in {Absent} \cup Nat
    BY <1>0, <1>9 DEF F!Get, WellFormed, Requests, Open, RegistriesOK
  <2>2. CASE found = Absent
    BY <1>9, <2>1, <2>2, CallMovesAlone DEF F!Get
  <2>3. CASE found # Absent
    BY <1>9, <2>1, <2>3, CallMovesAlone DEF F!Get
  <2> QED
    BY <2>2, <2>3
<1>10. ASSUME NEW c \in Callers, F!Create(c) PROVE FactoriesInv'
  <2> DEFINE k == call[c]
  <2>1. k \in Requests /\ k.at = "create" /\ made \in Nat
    BY <1>0, <1>10 DEF F!Create, RegistriesOK
  <2>2. k.type \in {Absent} \cup Types /\ k.name \in {Absent} \cup RepoNames
    BY <2>1 DEF Requests
  <2>3. CASE k.type \notin registry
    BY <1>10, <2>2, <2>3, CallMovesAlone DEF F!Create
  <2>4. CASE k.type \in registry
    <3> DEFINE at == IF k.name = Absent THEN "returned" ELSE "store"
               new == made + 1
    <3>1. /\ made < MaxRepos /\ made' = new /\ repos' = [repos EXCEPT ![new] = "open"]
          /\ F!Moved(c, at, k.type, new)
          /\ UNCHANGED <<registry, defaultType, instances, raced>>
      BY <1>10, <2>4 DEF F!Create
    <3>2. new \in 1..MaxRepos /\ new \in Nat /\ new \notin 1..made /\ 1..made \subseteq 1..new
      BY <1>0, <2>1, <3>1
    <3>3. at \in {"store", "returned"} /\ (at = "store" => k.name # Absent)
      OBVIOUS
    <3> HIDE DEF at
    <3>4. /\ DOMAIN call' = Callers
          /\ \A d \in Callers \ {c} : call'[d] = call[d]
          /\ call'[c] \in Requests /\ call'[c].op = k.op /\ call'[c].at = at
          /\ call'[c].name = k.name /\ call'[c].type = k.type /\ call'[c].got = new
          /\ call'[c].seen = k.seen
      BY <1>0, <2>2, <3>1, <3>2, <3>3, CallMoves
    <3> HIDE DEF new
    <3>5. RegistriesOK'
      <4>1. WellFormed(call'[c]) /\ SawDefault(call'[c], defaultType')
        BY <2>2, <3>3, <3>4 DEF WellFormed, SawDefault
      <4>2. \A d \in Callers : WellFormed(call'[d]) /\ SawDefault(call'[d], defaultType')
        BY <1>0, <3>1, <3>4, <4>1
      <4>3. made' \in 0..MaxRepos /\ DOMAIN repos' = 1..MaxRepos
        BY <1>0, <3>1, <3>2 DEF RegistriesOK
      <4> QED
        BY <1>0, <3>1, <3>4, <4>2, <4>3 DEF RegistriesOK, WellFormed, SawDefault, Requests
    <3>6. Met'
      BY <1>0, <3>1, <3>4 DEF Met
    <3>7. Alone'
      <4> SUFFICES ASSUME NEW d \in Callers \ raced', call'[d].op = "get_or_create",
                          call'[d].at \in {"create", "store"}, call'[d].name # Absent
                   PROVE  instances'[call'[d].name] = Absent
        BY DEF Alone
      <4>1. CASE d = c
        BY <1>0, <2>1, <3>1, <3>4, <4>1 DEF Alone
      <4>2. CASE d # c
        BY <1>0, <3>1, <3>4, <4>2 DEF Alone
      <4> QED
        BY <4>1, <4>2
    <3>8. Open'
      <4>1. /\ repos'[new] = "open"
            /\ \A r \in 1..made : r \in 1..made' /\ repos'[r] = repos[r] /\ r # new
            /\ new \in 1..made'
        <5>1. new \in DOMAIN repos /\ \A r \in 1..made : r \in DOMAIN repos
          BY <1>0, <3>2, <3>1 DEF RegistriesOK
        <5> QED
          BY <3>1, <3>2, <5>1
      <4>2. \A n \in RepoNames : instances'[n] = instances[n] /\ instances[n] # new
                                 /\ (instances[n] # Absent =>
                                       instances[n] \in 1..made /\ repos[instances[n]] = "open")
        BY <1>0, <3>1, <3>2 DEF Open
      <4>3. \A n \in RepoNames : instances'[n] # Absent =>
              instances'[n] \in 1..made' /\ repos'[instances'[n]] = "open"
        BY <4>1, <4>2
      <4>4. \A d \in Callers \ {c} : call'[d].at = "store" =>
              /\ call'[d].got \in 1..made /\ call'[d].got # new /\ repos[call'[d].got] = "open"
              /\ \A n \in RepoNames : instances[n] # call'[d].got
              /\ \A e \in Callers \ {c, d} : call'[e].at = "store" => call'[e].got # call'[d].got
        BY <1>0, <3>2, <3>4 DEF Open
      <4>5. \A d \in Callers : call'[d].at = "store" =>
              /\ call'[d].got \in 1..made' /\ repos'[call'[d].got] = "open"
              /\ \A n \in RepoNames : instances'[n] # call'[d].got
              /\ \A e \in Callers \ {d} : call'[e].at = "store" => call'[e].got # call'[d].got
        <5> SUFFICES ASSUME NEW d \in Callers, call'[d].at = "store"
                     PROVE  /\ call'[d].got \in 1..made' /\ repos'[call'[d].got] = "open"
                            /\ \A n \in RepoNames : instances'[n] # call'[d].got
                            /\ \A e \in Callers \ {d} : call'[e].at = "store" => call'[e].got # call'[d].got
          OBVIOUS
        <5>1. CASE d = c
          BY <3>4, <4>1, <4>2, <4>4, <5>1
        <5>2. CASE d # c
          BY <3>4, <4>1, <4>2, <4>4, <5>2
        <5> QED
          BY <5>1, <5>2
      <4> QED
        BY <4>3, <4>5 DEF Open
    <3> QED
      BY <3>5, <3>6, <3>7, <3>8 DEF FactoriesInv
  <2> QED
    BY <2>3, <2>4
<1>11. ASSUME NEW c \in Callers, F!Store(c) PROVE FactoriesInv'
  <2> DEFINE k == call[c]
  <2>1. k \in Requests /\ k.at = "store" /\ k.name \in RepoNames
    BY <1>0, <1>11 DEF F!Store, WellFormed
  <2>2. k.type \in {Absent} \cup Types /\ k.got \in {Absent} \cup Nat
    BY <2>1 DEF Requests
  <2>3. /\ instances' = [instances EXCEPT ![k.name] = k.got]
        /\ F!Moved(c, "returned", k.type, k.got)
        /\ UNCHANGED <<registry, defaultType, repos, made, raced>>
    BY <1>11 DEF F!Store
  <2>4. /\ DOMAIN call' = Callers
        /\ \A d \in Callers \ {c} : call'[d] = call[d]
        /\ call'[c] \in Requests /\ call'[c].op = k.op /\ call'[c].at = "returned"
        /\ call'[c].name = k.name /\ call'[c].type = k.type /\ call'[c].got = k.got
        /\ call'[c].seen = k.seen
    BY <1>0, <2>2, <2>3, CallMoves
  <2>5. RegistriesOK'
    <3>1. WellFormed(call'[c]) /\ SawDefault(call'[c], defaultType')
      BY <2>4 DEF WellFormed, SawDefault
    <3>2. \A d \in Callers : WellFormed(call'[d]) /\ SawDefault(call'[d], defaultType')
      BY <1>0, <2>3, <2>4, <3>1
    <3> QED
      BY <1>0, <2>3, <2>4, <3>2 DEF RegistriesOK, WellFormed, SawDefault, Requests
  <2>6. Met'
    BY <1>0, <2>3, <2>4 DEF Met
  <2>7. Alone'
    <3> SUFFICES ASSUME NEW d \in Callers \ raced', call'[d].op = "get_or_create",
                        call'[d].at \in {"create", "store"}, call'[d].name # Absent
                 PROVE  instances'[call'[d].name] = Absent
      BY DEF Alone
    <3>1. d # c /\ d \notin raced /\ call'[d] = call[d]
      BY <2>3, <2>4
    <3>2. call[d].name # k.name /\ instances[call[d].name] = Absent
      BY <1>0, <3>1 DEF Met, Alone
    <3> QED
      BY <2>3, <3>1, <3>2
  <2>8. Open'
    <3>1. /\ k.got \in 1..made /\ repos[k.got] = "open"
          /\ \A d \in Callers \ {c} : call[d].at = "store" => call[d].got # k.got
      BY <1>0, <2>1 DEF Open
    <3>2. \A n \in RepoNames : instances'[n] = IF n = k.name THEN k.got ELSE instances[n]
      BY <1>0, <2>3 DEF RegistriesOK
    <3>3. \A n \in RepoNames : instances'[n] # Absent =>
            instances'[n] \in 1..made' /\ repos'[instances'[n]] = "open"
      BY <1>0, <2>3, <3>1, <3>2 DEF Open
    <3>4. \A d \in Callers : call'[d].at = "store" =>
            /\ call'[d].got \in 1..made' /\ repos'[call'[d].got] = "open"
            /\ \A n \in RepoNames : instances'[n] # call'[d].got
            /\ \A e \in Callers \ {d} : call'[e].at = "store" => call'[e].got # call'[d].got
      <4> SUFFICES ASSUME NEW d \in Callers, call'[d].at = "store"
                   PROVE  /\ call'[d].got \in 1..made' /\ repos'[call'[d].got] = "open"
                          /\ \A n \in RepoNames : instances'[n] # call'[d].got
                          /\ \A e \in Callers \ {d} : call'[e].at = "store" => call'[e].got # call'[d].got
        OBVIOUS
      <4>1. d # c /\ call'[d] = call[d] /\ call[d].at = "store"
        BY <2>4
      <4>2. /\ call[d].got \in 1..made /\ repos[call[d].got] = "open" /\ call[d].got # k.got
            /\ \A n \in RepoNames : instances[n] # call[d].got
            /\ \A e \in Callers \ {d} : call[e].at = "store" => call[e].got # call[d].got
        BY <1>0, <3>1, <4>1 DEF Open
      <4>3. \A n \in RepoNames : instances'[n] # call'[d].got
        BY <3>2, <4>1, <4>2
      <4>4. \A e \in Callers \ {d} : call'[e].at = "store" => call'[e].got # call'[d].got
        BY <2>4, <4>1, <4>2
      <4> QED
        BY <2>3, <4>1, <4>2, <4>3, <4>4
    <3> QED
      BY <3>3, <3>4 DEF Open
  <2> QED
    BY <2>5, <2>6, <2>7, <2>8 DEF FactoriesInv
<1>12. ASSUME NEW c \in Callers, F!ReadDefault(c) PROVE FactoriesInv'
  <2>1. /\ call[c].at = "default" /\ call[c].op = "get_default" /\ call[c].type = OS
        /\ defaultType \in call[c].seen /\ defaultType \in {Absent} \cup Types
    BY <1>0, <1>12 DEF F!ReadDefault, WellFormed, SawDefault, RegistriesOK
  <2>2. CASE defaultType = Absent
    BY <1>0, <1>12, <2>1, <2>2, CallMovesAlone DEF F!ReadDefault
  <2>3. CASE defaultType # Absent
    BY <1>0, <1>12, <2>1, <2>3, CallMovesAlone DEF F!ReadDefault
  <2> QED
    BY <2>2, <2>3
<1>13. ASSUME NEW c \in Callers, F!LookupDefault(c) PROVE FactoriesInv'
  <2>1. call[c].type \in {Absent} \cup Types
    BY <1>0 DEF Requests
  <2>2. CASE call[c].type \in registry
    BY <1>13, <2>1, <2>2, CallMovesAlone DEF F!LookupDefault
  <2>3. CASE call[c].type \notin registry
    BY <1>13, <2>1, <2>3, CallMovesAlone DEF F!LookupDefault
  <2> QED
    BY <2>2, <2>3
<1>14. ASSUME NEW c \in Callers, F!Return(c) PROVE FactoriesInv'
  <2>1. /\ call' = [call EXCEPT ![c] = F!Idle]
        /\ UNCHANGED <<registry, defaultType, instances, repos, made, raced>>
    BY <1>14 DEF F!Return
  <2>2. F!Idle \in Requests /\ F!Idle.at = "idle" /\ F!Idle.op = "idle" /\ F!Idle.name = Absent
    BY DEF F!Idle, Requests
  <2>3. DOMAIN call' = Callers /\ call'[c] = F!Idle /\ \A d \in Callers \ {c} : call'[d] = call[d]
    BY <1>0, <2>1 DEF RegistriesOK
  <2>4. RegistriesOK'
    <3>1. WellFormed(call'[c]) /\ SawDefault(call'[c], defaultType')
      BY <2>2, <2>3 DEF WellFormed, SawDefault
    <3>2. \A d \in Callers : WellFormed(call'[d]) /\ SawDefault(call'[d], defaultType')
      BY <1>0, <2>1, <2>3, <3>1
    <3> QED
      BY <1>0, <2>1, <2>3, <3>2 DEF RegistriesOK, WellFormed, SawDefault, Requests
  <2>5. Met' /\ Alone'
    BY <1>0, <2>1, <2>2, <2>3 DEF Met, Alone
  <2>6. Open'
    BY <1>0, <2>1, <2>2, <2>3 DEF Open
  <2> QED
    BY <2>4, <2>5, <2>6 DEF FactoriesInv
<1>15. CASE UNCHANGED factories
  BY <1>0, <1>15 DEF factories, FactoriesInv, RegistriesOK, WellFormed, SawDefault, Requests, Met, Alone, Open
<1> QED
  BY <1>1, <1>2, <1>3, <1>4, <1>5, <1>6, <1>7, <1>8, <1>9, <1>10, <1>11, <1>12, <1>13, <1>14, <1>15 DEF F!Next

\* The registries keep their word to callers that interleave, for any number of
\* them, of names and of types (factory.go:107, 133; registry.go:95): an
\* instance is shared by the callers of its name unless they raced to make it,
\* no named instance is closed, and the default answered for was the default.
THEOREM WordsAreKept == MCSpec => RegistriesKeepTheirWord
<1> DEFINE Inv == part = "factories" => FactoriesInv
<1>1. MCInit => Inv
  BY FactoriesInit, PartsAssumption DEF MCInit
<1>2. Inv /\ [MCNext]_MCvars => Inv'
  <2> SUFFICES ASSUME Inv, [MCNext]_MCvars, part' = "factories" PROVE FactoriesInv'
    OBVIOUS
  <2>1. part = "factories" /\ [F!Next]_factories
    BY DEF MCNext, MCvars
  <2> QED
    BY <2>1, FactoriesStep, PartsAssumption
<1>3. Inv /\ Inv' /\ [MCNext]_MCvars => [part = "factories" => F!KeepsItsWord]_MCvars
  <2> SUFFICES ASSUME FactoriesInv, Inv', MCNext, part = "factories"
               PROVE  F!KeepsItsWord
    BY DEF MCvars
  <2>1. part' = "factories"
    BY DEF MCNext
  <2>2. F!SharedUnlessRaced
    <3> SUFFICES ASSUME NEW c \in Callers, F!Store(c), call[c].op = "get_or_create",
                        instances[call[c].name] # Absent
                 PROVE  c \in raced
      BY DEF F!SharedUnlessRaced
    <3>1. call[c].at = "store" /\ call[c].name \in RepoNames
      BY DEF F!Store, FactoriesInv, RegistriesOK, WellFormed
    <3>2. call[c].name # Absent
      BY <3>1, PartsAssumption DEF PartsAssumption
    <3> QED
      BY <3>1, <3>2 DEF FactoriesInv, Alone
  <2>3. F!DefaultWasDefault
    BY DEF F!DefaultWasDefault, F!LookupDefault, FactoriesInv, RegistriesOK, SawDefault
  <2>4. F!NamedAreOpen'
    BY <2>1 DEF F!NamedAreOpen, FactoriesInv, Open
  <2> QED
    BY <2>2, <2>3, <2>4 DEF F!KeepsItsWord
<1> QED
  BY <1>1, <1>2, <1>3, PTL DEF MCSpec, RegistriesKeepTheirWord

-----------------------------------------------------------------------------
(***************************************************************************)
(* The metrics of the exporter.                                            *)
(***************************************************************************)
MetricsOK ==
  /\ process \in [Pids -> [name : Names, bytes : Nat]]
  /\ disk \in [Devices -> Nat]
  /\ processRead \in [E!Labels -> Nat] /\ pidRead \in [Pids -> Nat] /\ diskRead \in [Devices -> Nat]
  /\ processIORead \in [E!Labels -> Nat] /\ counted \in [Pids -> Nat] /\ diskReadBytes \in [Devices -> Nat]
  /\ prevProcessIO \in [Pids -> {Absent} \cup Nat] /\ prevDiskIO \in [Devices -> {Absent} \cup Nat]

\* What the next update adds has been read as well: under the pid, and under
\* the label the process has now if it never had another.
PidCounted(p) ==
  /\ counted[p] <= pidRead[p]
  /\ counted[p] + E!Delta(prevProcessIO[p], process[p].bytes) <= pidRead[p]
  /\ \A n \in Names : processIORead[<<p, n>>] <= counted[p]

NameCounted(p) ==
  /\ \A n \in Names : processIORead[<<p, n>>] <= processRead[<<p, n>>]
  /\ processIORead[<<p, process[p].name>>] + E!Delta(prevProcessIO[p], process[p].bytes)
       <= processRead[<<p, process[p].name>>]

DiskCounted(d) ==
  /\ diskReadBytes[d] <= diskRead[d]
  /\ diskReadBytes[d] + E!Delta(prevDiskIO[d], disk[d]) <= diskRead[d]

CountsOK ==
  /\ MetricsOK
  /\ \A p \in Pids : PidCounted(p) /\ (p \notin renamed => NameCounted(p))
  /\ \A d \in Devices : DiskCounted(d)

\* The samples the system gives now, which those of an update are.
ProcessSamples == {[pid |-> p, name |-> process[p].name, bytes |-> process[p].bytes] : p \in Pids}
DiskSamples == {[device |-> d, bytes |-> disk[d]] : d \in Devices}

RowsOf(kind, rest) == {E!RowOf(kind, rest[i]) : i \in 1..Len(rest)}

\* An update begins to set rows when all its gauges are reset.
Underway(u, kind, samples, labels) ==
  /\ u \in [kind : {kind}, due : SUBSET labels, rest : Seq(samples),
            reset : 0..E!GaugesOf[kind], done : 0..E!GaugesOf[kind]]
  /\ u.reset < E!GaugesOf[kind] => u.done = 0 /\ RowsOf(kind, u.rest) = u.due
  /\ u.rest = << >> => u.done = 0

UpdateIsCurrent ==
  \/ exporterUpdate = E!Idle
  \/ Underway(exporterUpdate, "processes", ProcessSamples, E!Labels)
  \/ Underway(exporterUpdate, "disks", DiskSamples, Devices)

\* The rows an update has yet to set in a gauge.
Owed(u, kind, g) == RowsOf(kind, IF g >= E!GaugeAt(kind, u.done) THEN u.rest ELSE Tail(u.rest))

\* A gauge shows the last sample until it is reset, then what is set of the
\* rows due.
GaugeFits(kind, g) ==
  IF exporterUpdate.kind = kind /\ g <= exporterUpdate.reset
  THEN rows[kind][g] \cup Owed(exporterUpdate, kind, g) = exporterUpdate.due
  ELSE rows[kind][g] = sample[kind]

RowsFit ==
  /\ DOMAIN rows = {"processes", "disks"} /\ DOMAIN sample = {"processes", "disks"}
  /\ \A kind \in {"processes", "disks"} :
       /\ DOMAIN rows[kind] = 1..E!GaugesOf[kind]
       /\ \A g \in 1..E!GaugesOf[kind] : GaugeFits(kind, g)

ExporterInv == CountsOK /\ UpdateIsCurrent /\ RowsFit

LEMMA DeltaFacts ==
  ASSUME Absent \notin Nat, NEW prev \in {Absent} \cup Nat, NEW value \in Nat
  PROVE  /\ E!Delta(prev, value) \in Nat /\ E!Delta(prev, value + 1) \in Nat
         /\ E!Delta(value, value) = 0
         /\ E!Delta(prev, 0) = 0 /\ E!Delta(prev, value + 1) <= E!Delta(prev, value) + 1
<1>1. CASE prev = Absent
  BY <1>1 DEF E!Delta
<1>2. CASE prev \in Nat
  BY <1>2 DEF E!Delta
<1> QED
  BY <1>1, <1>2

LEMMA KindFacts ==
  /\ E!GaugesOf["processes"] = 4 /\ E!GaugesOf["disks"] = 2
  /\ E!GaugesOf.processes = 4 /\ E!GaugesOf.disks = 2
  /\ E!CountAt["processes"] = 4 /\ E!CountAt["disks"] = 0
  /\ E!CountAt.processes = 4 /\ E!CountAt.disks = 0
  /\ DOMAIN E!GaugesOf = {"processes", "disks"}
  /\ \A done : E!GaugeAt("processes", done) = done + 1 /\ E!GaugeAt("disks", done) = done
  BY DEF E!GaugesOf, E!CountAt, E!GaugeAt

LEMMA ExporterInit == PartsAssumption /\ E!Init => ExporterInv
<1> SUFFICES ASSUME PartsAssumption, E!Init PROVE ExporterInv
  OBVIOUS
<1>1. Absent \notin Nat
  BY DEF PartsAssumption
<1>2. \A p \in Pids : process[p].name \in Names /\ process[p].bytes = 0 /\ <<p, process[p].name>> \in E!Labels
  BY DEF E!Init, E!Labels
<1>3. MetricsOK
  <2>1. process \in [Pids -> [name : Names, bytes : Nat]]
    BY DEF E!Init
  <2> QED
    BY <2>1 DEF E!Init, MetricsOK
<1>4. CountsOK
  <2>1. \A p \in Pids, n \in Names : <<p, n>> \in E!Labels
    BY DEF E!Labels
  <2>2. \A p \in Pids : PidCounted(p)
    BY <1>2, <2>1 DEF E!Init, PidCounted, E!Delta
  <2>3. \A p \in Pids : NameCounted(p)
    BY <1>2, <2>1 DEF E!Init, NameCounted, E!Delta
  <2>4. \A d \in Devices : DiskCounted(d)
    BY DEF E!Init, DiskCounted, E!Delta
  <2> QED
    BY <1>3, <2>2, <2>3, <2>4 DEF CountsOK
<1>5. UpdateIsCurrent /\ exporterUpdate.kind = "idle"
  BY DEF E!Init, UpdateIsCurrent, E!Idle
<1>6. RowsFit
  <2>1. /\ rows = [kind \in {"processes", "disks"} |-> [g \in 1..E!GaugesOf[kind] |-> {}]]
        /\ sample = [processes |-> {}, disks |-> {}]
    BY KindFacts DEF E!Init, E!NoRows
  <2> QED
    BY <1>5, <2>1 DEF RowsFit, GaugeFits
<1> QED
  BY <1>4, <1>5, <1>6 DEF ExporterInv

\* The first of the rest and the rest of it.
LEMMA RestMoves ==
  ASSUME NEW S, NEW kind, NEW rest \in Seq(S), rest # << >>
  PROVE  /\ Head(rest) \in S /\ Tail(rest) \in Seq(S)
         /\ RowsOf(kind, rest) = {E!RowOf(kind, Head(rest))} \cup RowsOf(kind, Tail(rest))
<1> DEFINE tail == Tail(rest)
           n == Len(rest)
<1>1. /\ tail \in Seq(S) /\ Len(tail) = n - 1 /\ n \in Nat \ {0} /\ Head(rest) = rest[1]
      /\ \A i \in 1..(n - 1) : tail[i] = rest[i + 1]
      /\ rest[1] \in S
  OBVIOUS
<1> HIDE DEF tail, n
<1>2. \A i \in 1..n : i # 1 => i - 1 \in 1..(n - 1) /\ tail[i - 1] = rest[i]
  <2> SUFFICES ASSUME NEW i \in 1..n, i # 1 PROVE i - 1 \in 1..(n - 1) /\ tail[i - 1] = rest[i]
    OBVIOUS
  <2>1. i - 1 \in 1..(n - 1) /\ (i - 1) + 1 = i
    BY <1>1
  <2>2. tail[i - 1] = rest[(i - 1) + 1]
    BY <1>1, <2>1
  <2> QED
    BY <2>1, <2>2
<1>3. RowsOf(kind, rest) = {E!RowOf(kind, rest[1])} \cup RowsOf(kind, tail)
  <2>1. ASSUME NEW x \in RowsOf(kind, rest) PROVE x \in {E!RowOf(kind, rest[1])} \cup RowsOf(kind, tail)
    <3>1. PICK i \in 1..n : x = E!RowOf(kind, rest[i])
      BY <2>1 DEF RowsOf, n
    <3>2. CASE i = 1
      BY <3>1, <3>2
    <3>3. CASE i # 1
      <4>1. i - 1 \in 1..Len(tail) /\ x = E!RowOf(kind, tail[i - 1])
        BY <1>1, <1>2, <3>1, <3>3
      <4> QED
        BY <4>1 DEF RowsOf
    <3> QED
      BY <3>2, <3>3
  <2>2. ASSUME NEW x \in RowsOf(kind, tail) PROVE x \in RowsOf(kind, rest)
    <3>1. PICK i \in 1..(n - 1) : x = E!RowOf(kind, tail[i])
      BY <1>1, <2>2 DEF RowsOf
    <3>2. i + 1 \in 1..Len(rest) /\ x = E!RowOf(kind, rest[i + 1])
      BY <1>1, <3>1 DEF n
    <3> QED
      BY <3>2 DEF RowsOf
  <2>3. E!RowOf(kind, rest[1]) \in RowsOf(kind, rest)
    BY <1>1 DEF RowsOf, n
  <2> QED
    BY <2>1, <2>2, <2>3
<1> QED
  BY <1>1, <1>3 DEF tail

LEMMA OrdersAreSequences ==
  ASSUME NEW S, IsFiniteSet(S), NEW order \in E!Orders(S)
  PROVE  order \in Seq(S)
<1>1. PICK some \in SUBSET S : order \in E!SetToSeqs(some)
  BY DEF E!Orders
<1>2. Cardinality(some) \in Nat
  BY FS_Subset, FS_CardinalityType
<1>3. E!Cardinality(some) = Cardinality(some)
  BY DEF E!Cardinality, Cardinality
<1>4. order \in [1..Cardinality(some) -> some]
  BY <1>1, <1>3 DEF E!SetToSeqs
<1> QED
  BY <1>2, <1>4

LEMMA LimitedIsCut ==
  ASSUME ProcessLimit \in Nat, NEW S, NEW samples \in Seq(S)
  PROVE  E!Limited(samples) \in Seq(S)
<1>1. CASE ProcessLimit > 0 /\ Len(samples) > ProcessLimit
  <2>1. \A i \in 1..ProcessLimit : samples[i] \in S
    BY <1>1
  <2>2. SubSeq(samples, 1, ProcessLimit) \in Seq(S)
    BY <1>1, <2>1, SubSeqProperties
  <2> QED
    BY <1>1, <2>2 DEF E!Limited
<1>2. CASE ~(ProcessLimit > 0 /\ Len(samples) > ProcessLimit)
  BY <1>2 DEF E!Limited
<1> QED
  BY <1>1, <1>2

\* What has been counted stays right while neither the system nor a counter
\* moves, and the samples stay the current ones.
LEMMA CountsStay ==
  ASSUME CountsOK, UNCHANGED E!system,
         UNCHANGED <<prevProcessIO, prevDiskIO, processIORead, diskReadBytes, counted>>
  PROVE  CountsOK'
<1>1. UNCHANGED <<process, disk, processRead, pidRead, diskRead, renamed>>
  BY DEF E!system
<1>2. MetricsOK'
  BY <1>1 DEF CountsOK, MetricsOK
<1>3. \A p \in Pids : PidCounted(p)'
  BY <1>1 DEF CountsOK, PidCounted, E!Delta
<1>4. \A p \in Pids : p \notin renamed => NameCounted(p)'
  BY <1>1 DEF CountsOK, NameCounted, E!Delta
<1>5. \A d \in Devices : DiskCounted(d)'
  BY <1>1 DEF CountsOK, DiskCounted, E!Delta
<1> QED
  BY <1>1, <1>2, <1>3, <1>4, <1>5 DEF CountsOK

\* An update that is under way has one kind; with its constants it is still
\* under way after a step that leaves the system alone.
LEMMA SamplesStay ==
  ASSUME UNCHANGED E!system
  PROVE  ProcessSamples' = ProcessSamples /\ DiskSamples' = DiskSamples
  BY DEF E!system, ProcessSamples, DiskSamples

LEMMA UpdateKind ==
  ASSUME UpdateIsCurrent, exporterUpdate # E!Idle
  PROVE  \/ /\ exporterUpdate.kind = "processes"
            /\ Underway(exporterUpdate, "processes", ProcessSamples, E!Labels)
         \/ /\ exporterUpdate.kind = "disks"
            /\ Underway(exporterUpdate, "disks", DiskSamples, Devices)
  BY DEF UpdateIsCurrent, Underway

\* An update that begins has reset no gauge and has all its rows to set.
LEMMA UpdateBegins ==
  ASSUME ExporterInv, NEW kind, NEW rest,
         \/ kind = "processes" /\ rest \in Seq(ProcessSamples)
         \/ kind = "disks" /\ rest \in Seq(DiskSamples),
         E!Begin(kind, rest)
  PROVE  ExporterInv'
<1> DEFINE due == {E!RowOf(kind, rest[i]) : i \in DOMAIN rest}
<1>1. /\ exporterUpdate = E!Idle
      /\ exporterUpdate' = [kind |-> kind, due |-> due, rest |-> rest, reset |-> 0, done |-> 0]
      /\ UNCHANGED E!system /\ UNCHANGED E!counters /\ UNCHANGED <<rows, sample>>
  BY DEF E!Begin
<1>2. due = RowsOf(kind, rest)
  BY DEF RowsOf
<1> HIDE DEF due
<1>3. CountsOK'
  BY <1>1, CountsStay DEF ExporterInv, E!counters
<1>4. UpdateIsCurrent'
  <2>1. CASE kind = "processes" /\ rest \in Seq(ProcessSamples)
    <3>1. due \subseteq E!Labels
      <4> SUFFICES ASSUME NEW i \in 1..Len(rest) PROVE E!RowOf(kind, rest[i]) \in E!Labels
        BY <1>2 DEF RowsOf
      <4>1. rest[i] \in ProcessSamples
        BY <2>1
      <4> QED
        BY <2>1, <4>1 DEF ProcessSamples, E!RowOf, E!Labels, ExporterInv, CountsOK, MetricsOK
    <3>2. Underway(exporterUpdate, "processes", ProcessSamples, E!Labels)'
      BY <1>1, <1>2, <2>1, <3>1, KindFacts, SamplesStay DEF Underway, RowsOf, E!Labels
    <3> QED
      BY <3>2 DEF UpdateIsCurrent
  <2>2. CASE kind = "disks" /\ rest \in Seq(DiskSamples)
    <3>1. due \subseteq Devices
      <4> SUFFICES ASSUME NEW i \in 1..Len(rest) PROVE E!RowOf(kind, rest[i]) \in Devices
        BY <1>2 DEF RowsOf
      <4>1. rest[i] \in DiskSamples
        BY <2>2
      <4> QED
        BY <2>2, <4>1 DEF DiskSamples, E!RowOf
    <3>2. Underway(exporterUpdate, "disks", DiskSamples, Devices)'
      BY <1>1, <1>2, <2>2, <3>1, KindFacts, SamplesStay DEF Underway, RowsOf
    <3> QED
      BY <3>2 DEF UpdateIsCurrent
  <2> QED
    BY <2>1, <2>2
<1>5. RowsFit'
  <2>1. exporterUpdate.kind = "idle" /\ exporterUpdate'.reset = 0
    BY <1>1 DEF E!Idle
  <2>2. ASSUME NEW k \in {"processes", "disks"}, NEW g \in 1..E!GaugesOf[k] PROVE GaugeFits(k, g)'
    <3>1. rows[k][g] = sample[k]
      BY <2>1 DEF ExporterInv, RowsFit, GaugeFits
    <3>2. ~(g <= exporterUpdate'.reset)
      BY <2>1
    <3> QED
      BY <1>1, <3>1, <3>2 DEF GaugeFits
  <2> QED
    BY <1>1, <2>2 DEF ExporterInv, RowsFit
<1> QED
  BY <1>3, <1>4, <1>5 DEF ExporterInv

\* The system moves between updates: what has been read grows no less than
\* what the next update adds.
LEMMA SystemMoves ==
  ASSUME PartsAssumption, ExporterInv, E!System
  PROVE  ExporterInv'
<1>1. /\ exporterUpdate = E!Idle
      /\ UNCHANGED <<prevProcessIO, prevDiskIO, processIORead, diskReadBytes, counted, rows, exporterUpdate, sample>>
  BY DEF E!System, E!counters
<1>2. /\ Absent \notin Nat /\ CountsOK /\ MetricsOK
      /\ \A p \in Pids : PidCounted(p) /\ (p \notin renamed => NameCounted(p))
      /\ \A d \in Devices : DiskCounted(d)
  BY DEF PartsAssumption, ExporterInv, CountsOK
<1>3. /\ \A p \in Pids, n \in Names : <<p, n>> \in E!Labels
      /\ \A p \in Pids : process[p].name \in Names /\ process[p].bytes \in Nat
                         /\ prevProcessIO[p] \in {Absent} \cup Nat
                         /\ counted[p] \in Nat /\ pidRead[p] \in Nat
                         /\ \A n \in Names : processIORead[<<p, n>>] \in Nat /\ processRead[<<p, n>>] \in Nat
      /\ \A d \in Devices : /\ disk[d] \in Nat /\ diskRead[d] \in Nat /\ diskReadBytes[d] \in Nat
                            /\ prevDiskIO[d] \in {Absent} \cup Nat
  BY <1>2 DEF MetricsOK, E!Labels
<1>4. UpdateIsCurrent' /\ RowsFit'
  BY <1>1 DEF ExporterInv, UpdateIsCurrent, RowsFit, GaugeFits, Owed
<1>5. ASSUME NEW p \in Pids, E!ProcessReads(p) PROVE CountsOK'
  <2> DEFINE name == process[p].name
             bytes == process[p].bytes
             l == <<p, name>>
             new == [process[p] EXCEPT !.bytes = bytes + 1]
  <2>1. /\ process' = [process EXCEPT ![p] = new]
        /\ processRead' = [processRead EXCEPT ![l] = processRead[l] + 1]
        /\ pidRead' = [pidRead EXCEPT ![p] = pidRead[p] + 1]
        /\ UNCHANGED <<disk, diskRead, renamed>>
    BY <1>5 DEF E!ProcessReads
  <2>2. name \in Names /\ bytes \in Nat /\ l \in E!Labels
    BY <1>3
  <2>3. new \in [name : Names, bytes : Nat] /\ new.name = name /\ new.bytes = bytes + 1
    BY <1>2, <2>2 DEF MetricsOK
  <2> HIDE DEF new
  <2>4. /\ process' \in [Pids -> [name : Names, bytes : Nat]]
        /\ process'[p] = new /\ \A q \in Pids \ {p} : process'[q] = process[q]
    BY <1>2, <2>1, <2>3 DEF MetricsOK
  <2>5. /\ processRead' \in [E!Labels -> Nat]
        /\ processRead'[l] = processRead[l] + 1 /\ \A m \in E!Labels \ {l} : processRead'[m] = processRead[m]
    BY <1>2, <2>1, <2>2 DEF MetricsOK
  <2>6. /\ pidRead' \in [Pids -> Nat]
        /\ pidRead'[p] = pidRead[p] + 1 /\ \A q \in Pids \ {p} : pidRead'[q] = pidRead[q]
    BY <1>2, <2>1 DEF MetricsOK
  <2>7. MetricsOK'
    BY <1>1, <1>2, <2>1, <2>4, <2>5, <2>6 DEF MetricsOK
  <2>8. /\ E!Delta(prevProcessIO[p], bytes) \in Nat /\ E!Delta(prevProcessIO[p], bytes + 1) \in Nat
        /\ E!Delta(prevProcessIO[p], bytes + 1) <= E!Delta(prevProcessIO[p], bytes) + 1
    <3> HIDE DEF bytes
    <3>1. prevProcessIO[p] \in {Absent} \cup Nat
      BY <1>3
    <3> QED
      BY <1>2, <2>2, <3>1, DeltaFacts
  <2>9. PidCounted(p)'
    <3>1. /\ counted[p] <= pidRead[p] /\ counted[p] \in Nat /\ pidRead[p] \in Nat
          /\ counted[p] + E!Delta(prevProcessIO[p], bytes) <= pidRead[p]
      BY <1>2, <1>3 DEF PidCounted
    <3>2. counted[p] <= pidRead'[p] /\ counted[p] + E!Delta(prevProcessIO[p], bytes + 1) <= pidRead'[p]
      <4> HIDE DEF bytes
      <4> QED
        BY <2>6, <2>8, <3>1
    <3>3. counted'[p] + E!Delta(prevProcessIO'[p], process'[p].bytes) <= pidRead'[p]
      BY <1>1, <2>3, <2>4, <3>2
    <3>4. \A n \in Names : processIORead[<<p, n>>] <= counted[p]
      BY <1>2 DEF PidCounted
    <3> QED
      BY <1>1, <3>2, <3>3, <3>4 DEF PidCounted, E!Delta
  <2>10. ASSUME p \notin renamed PROVE NameCounted(p)'
    <3>1. ASSUME NEW n \in Names PROVE processIORead[<<p, n>>] <= processRead'[<<p, n>>]
      <4>1. processIORead[<<p, n>>] <= processRead[<<p, n>>]
        BY <1>2, <2>10 DEF NameCounted
      <4>2. processIORead[<<p, n>>] \in Nat /\ processRead[<<p, n>>] \in Nat /\ <<p, n>> \in E!Labels
        BY <1>3
      <4>3. processRead'[<<p, n>>] \in {processRead[<<p, n>>], processRead[<<p, n>>] + 1}
        BY <2>5, <4>2
      <4> QED
        BY <4>1, <4>2, <4>3
    <3>2. processIORead[l] + E!Delta(prevProcessIO[p], bytes) <= processRead[l]
      BY <1>2, <2>10 DEF NameCounted
    <3>3. processIORead[l] \in Nat /\ processRead[l] \in Nat
      BY <1>3, <2>2
    <3>4. processIORead[l] + E!Delta(prevProcessIO[p], bytes + 1) <= processRead'[l]
      <4> HIDE DEF l, bytes
      <4> QED
        BY <2>5, <2>8, <3>2, <3>3
    <3>5. processIORead'[<<p, process'[p].name>>] + E!Delta(prevProcessIO'[p], process'[p].bytes)
            <= processRead'[<<p, process'[p].name>>]
      BY <1>1, <2>3, <2>4, <3>4
    <3> QED
      BY <1>1, <3>1, <3>5 DEF NameCounted, E!Delta
  <2>11. ASSUME NEW q \in Pids, q # p PROVE PidCounted(q)' /\ (q \notin renamed => NameCounted(q)')
    <3>1. process'[q] = process[q] /\ pidRead'[q] = pidRead[q]
      BY <2>4, <2>6, <2>11
    <3>2. \A n \in Names : processRead'[<<q, n>>] = processRead[<<q, n>>]
      <4> SUFFICES ASSUME NEW n \in Names PROVE processRead'[<<q, n>>] = processRead[<<q, n>>]
        OBVIOUS
      <4>1. <<q, n>> \in E!Labels \ {l}
        BY <1>3, <2>11
      <4> QED
        BY <2>5, <4>1
    <3>3. process[q].name \in Names
      BY <1>3
    <3>4. PidCounted(q)'
      BY <1>1, <1>2, <3>1 DEF PidCounted, E!Delta
    <3>5. q \notin renamed => NameCounted(q)'
      BY <1>1, <1>2, <3>1, <3>2, <3>3 DEF NameCounted, E!Delta
    <3> QED
      BY <3>4, <3>5
  <2>12. \A d \in Devices : DiskCounted(d)'
    BY <1>1, <1>2, <2>1 DEF DiskCounted, E!Delta
  <2>13. \A q \in Pids : PidCounted(q)' /\ (q \notin renamed => NameCounted(q)')
    BY <2>9, <2>10, <2>11
  <2> QED
    BY <2>1, <2>7, <2>12, <2>13 DEF CountsOK
<1>6. ASSUME NEW p \in Pids, E!ProcessReplaced(p) PROVE CountsOK'
  <2>1. PICK n \in Names : process' = [process EXCEPT ![p] = [name |-> n, bytes |-> 0]]
    BY <1>6 DEF E!ProcessReplaced
  <2>2. UNCHANGED <<disk, processRead, pidRead, diskRead, renamed>>
    BY <1>6 DEF E!ProcessReplaced
  <2>3. /\ process' \in [Pids -> [name : Names, bytes : Nat]]
        /\ process'[p].name = n /\ process'[p].bytes = 0
        /\ \A q \in Pids \ {p} : process'[q] = process[q]
    BY <1>2, <2>1 DEF MetricsOK
  <2>4. MetricsOK'
    BY <1>1, <1>2, <2>2, <2>3 DEF MetricsOK
  <2>5. E!Delta(prevProcessIO[p], 0) = 0
    BY <1>2, <1>3, DeltaFacts
  <2>6. PidCounted(p)'
    <3>1. /\ counted[p] <= pidRead[p] /\ counted[p] \in Nat /\ pidRead[p] \in Nat
          /\ \A m \in Names : processIORead[<<p, m>>] <= counted[p]
      BY <1>2, <1>3 DEF PidCounted
    <3>2. counted'[p] + E!Delta(prevProcessIO'[p], process'[p].bytes) <= pidRead'[p]
      BY <1>1, <2>2, <2>3, <2>5, <3>1
    <3> QED
      BY <1>1, <2>2, <3>1, <3>2 DEF PidCounted, E!Delta
  <2>7. ASSUME p \notin renamed PROVE NameCounted(p)'
    <3>1. /\ \A m \in Names : processIORead[<<p, m>>] <= processRead[<<p, m>>]
          /\ processIORead[<<p, n>>] \in Nat
      BY <1>2, <1>3, <2>7 DEF NameCounted
    <3>2. processIORead'[<<p, process'[p].name>>] + E!Delta(prevProcessIO'[p], process'[p].bytes)
            <= processRead'[<<p, process'[p].name>>]
      BY <1>1, <2>2, <2>3, <2>5, <3>1
    <3> QED
      BY <1>1, <2>2, <3>1, <3>2 DEF NameCounted, E!Delta
  <2>8. ASSUME NEW q \in Pids, q # p PROVE PidCounted(q)' /\ (q \notin renamed => NameCounted(q)')
    <3>1. process'[q] = process[q]
      BY <2>3, <2>8
    <3>2. PidCounted(q)'
      BY <1>1, <1>2, <2>2, <3>1 DEF PidCounted, E!Delta
    <3>3. q \notin renamed => NameCounted(q)'
      BY <1>1, <1>2, <2>2, <3>1 DEF NameCounted, E!Delta
    <3> QED
      BY <3>2, <3>3
  <2>9. \A d \in Devices : DiskCounted(d)'
    BY <1>1, <1>2, <2>2 DEF DiskCounted, E!Delta
  <2>10. \A q \in Pids : PidCounted(q)' /\ (q \notin renamed => NameCounted(q)')
    BY <2>6, <2>7, <2>8
  <2> QED
    BY <2>2, <2>4, <2>9, <2>10 DEF CountsOK
<1>7. ASSUME NEW p \in Pids, E!ProcessRenamed(p) PROVE CountsOK'
  <2>1. PICK n \in Names : process' = [process EXCEPT ![p].name = n]
    BY <1>7 DEF E!ProcessRenamed
  <2>2. renamed' = renamed \cup {p} /\ UNCHANGED <<disk, processRead, pidRead, diskRead>>
    BY <1>7 DEF E!ProcessRenamed
  <2>3. /\ process' \in [Pids -> [name : Names, bytes : Nat]]
        /\ process'[p].bytes = process[p].bytes
        /\ \A q \in Pids \ {p} : process'[q] = process[q]
    BY <1>2, <2>1 DEF MetricsOK
  <2>4. MetricsOK'
    BY <1>1, <1>2, <2>2, <2>3 DEF MetricsOK
  <2>5. ASSUME NEW q \in Pids PROVE PidCounted(q)'
    <3>1. process'[q].bytes = process[q].bytes
      BY <2>3
    <3> QED
      BY <1>1, <1>2, <2>2, <3>1 DEF PidCounted, E!Delta
  <2>6. ASSUME NEW q \in Pids, q \notin renamed' PROVE NameCounted(q)'
    <3>1. process'[q] = process[q] /\ q \notin renamed
      BY <2>2, <2>3, <2>6
    <3> QED
      BY <1>1, <1>2, <2>2, <3>1 DEF NameCounted, E!Delta
  <2>7. \A d \in Devices : DiskCounted(d)'
    BY <1>1, <1>2, <2>2 DEF DiskCounted, E!Delta
  <2> QED
    BY <2>4, <2>5, <2>6, <2>7 DEF CountsOK
<1>8. ASSUME NEW d \in Devices, E!DiskReads(d) PROVE CountsOK'
  <2>1. /\ disk' = [disk EXCEPT ![d] = disk[d] + 1]
        /\ diskRead' = [diskRead EXCEPT ![d] = diskRead[d] + 1]
        /\ UNCHANGED <<process, processRead, pidRead, renamed>>
    BY <1>8 DEF E!DiskReads
  <2>2. MetricsOK'
    BY <1>1, <1>2, <2>1 DEF MetricsOK
  <2>3. \A p \in Pids : PidCounted(p)' /\ (p \notin renamed => NameCounted(p)')
    BY <1>1, <1>2, <2>1 DEF PidCounted, NameCounted, E!Delta
  <2>4. ASSUME NEW e \in Devices PROVE DiskCounted(e)'
    <3>1. CASE e = d
      <4>1. /\ E!Delta(prevDiskIO[d], disk[d]) \in Nat /\ E!Delta(prevDiskIO[d], disk[d] + 1) \in Nat
            /\ E!Delta(prevDiskIO[d], disk[d] + 1) <= E!Delta(prevDiskIO[d], disk[d]) + 1
        BY <1>2, <1>3, DeltaFacts
      <4>2. disk'[d] = disk[d] + 1 /\ diskRead'[d] = diskRead[d] + 1
        BY <1>2, <2>1 DEF MetricsOK
      <4>3. /\ diskReadBytes[d] + E!Delta(prevDiskIO[d], disk[d]) <= diskRead[d]
            /\ diskReadBytes[d] <= diskRead[d] /\ diskReadBytes[d] \in Nat /\ diskRead[d] \in Nat
        BY <1>2, <1>3 DEF DiskCounted
      <4>4. /\ diskReadBytes[d] <= diskRead'[d]
            /\ diskReadBytes[d] + E!Delta(prevDiskIO[d], disk[d] + 1) <= diskRead'[d]
        BY <4>1, <4>2, <4>3
      <4>5. diskReadBytes'[d] + E!Delta(prevDiskIO'[d], disk'[d]) <= diskRead'[d]
        BY <1>1, <4>2, <4>4
      <4> QED
        BY <1>1, <3>1, <4>4, <4>5 DEF DiskCounted, E!Delta
    <3>2. CASE e # d
      BY <1>1, <1>2, <2>1, <3>2 DEF MetricsOK, DiskCounted, E!Delta
    <3> QED
      BY <3>1, <3>2
  <2> QED
    BY <2>1, <2>2, <2>3, <2>4 DEF CountsOK
<1>9. ASSUME NEW d \in Devices, E!DiskReplaced(d) PROVE CountsOK'
  <2>1. /\ disk' = [disk EXCEPT ![d] = 0]
        /\ UNCHANGED <<process, processRead, pidRead, diskRead, renamed>>
    BY <1>9 DEF E!DiskReplaced
  <2>2. MetricsOK'
    BY <1>1, <1>2, <2>1 DEF MetricsOK
  <2>3. \A p \in Pids : PidCounted(p)' /\ (p \notin renamed => NameCounted(p)')
    BY <1>1, <1>2, <2>1 DEF PidCounted, NameCounted, E!Delta
  <2>4. ASSUME NEW e \in Devices PROVE DiskCounted(e)'
    <3>1. CASE e = d
      <4>1. disk'[d] = 0 /\ E!Delta(prevDiskIO[d], 0) = 0
        BY <1>2, <1>3, <2>1, DeltaFacts DEF MetricsOK
      <4>2. diskReadBytes[d] <= diskRead[d] /\ diskReadBytes[d] \in Nat
        BY <1>2, <1>3 DEF DiskCounted
      <4>3. diskReadBytes'[d] + E!Delta(prevDiskIO'[d], disk'[d]) <= diskRead'[d]
        BY <1>1, <2>1, <4>1, <4>2
      <4> QED
        BY <1>1, <2>1, <3>1, <4>2, <4>3 DEF DiskCounted, E!Delta
    <3>2. CASE e # d
      BY <1>1, <1>2, <2>1, <3>2 DEF MetricsOK, DiskCounted, E!Delta
    <3> QED
      BY <3>1, <3>2
  <2> QED
    BY <2>1, <2>2, <2>3, <2>4 DEF CountsOK
<1>10. CountsOK'
  BY <1>5, <1>6, <1>7, <1>8, <1>9 DEF E!System
<1> QED
  BY <1>4, <1>10 DEF ExporterInv

LEMMA GaugeIsReset ==
  ASSUME ExporterInv, E!ResetGauge
  PROVE  ExporterInv'
<1> DEFINE kind == exporterUpdate.kind
           n == exporterUpdate.reset + 1
<1>1. /\ exporterUpdate # E!Idle /\ exporterUpdate.reset < E!GaugesOf[kind]
      /\ rows' = [rows EXCEPT ![kind] = [rows[kind] EXCEPT ![n] = {}]]
      /\ exporterUpdate' = [exporterUpdate EXCEPT !.reset = n]
      /\ UNCHANGED E!system /\ UNCHANGED E!counters /\ UNCHANGED sample
  BY DEF E!ResetGauge
<1>2. CountsOK'
  BY <1>1, CountsStay DEF ExporterInv, E!counters
<1>3. ASSUME NEW k \in {"processes", "disks"}, NEW S, NEW R, kind = k, Underway(exporterUpdate, k, S, R)
      PROVE  /\ Underway(exporterUpdate', k, S, R)
             /\ n \in 1..E!GaugesOf[k] /\ exporterUpdate.done = 0
             /\ RowsOf(k, exporterUpdate.rest) = exporterUpdate.due
             /\ exporterUpdate'.kind = k /\ exporterUpdate'.due = exporterUpdate.due
             /\ exporterUpdate'.rest = exporterUpdate.rest /\ exporterUpdate'.done = 0 /\ exporterUpdate'.reset = n
  <2>1. E!GaugesOf[k] \in Nat
    BY KindFacts
  <2>2. exporterUpdate.done = 0 /\ RowsOf(k, exporterUpdate.rest) = exporterUpdate.due
    BY <1>1, <1>3 DEF Underway
  <2>3. exporterUpdate.reset \in Nat /\ n \in 1..E!GaugesOf[k]
    BY <1>1, <1>3, <2>1 DEF Underway
  <2>4. /\ exporterUpdate' \in [kind : {k}, due : SUBSET R, rest : Seq(S),
                                reset : 0..E!GaugesOf[k], done : 0..E!GaugesOf[k]]
        /\ exporterUpdate'.kind = k /\ exporterUpdate'.due = exporterUpdate.due
        /\ exporterUpdate'.rest = exporterUpdate.rest /\ exporterUpdate'.done = exporterUpdate.done
        /\ exporterUpdate'.reset = n
    BY <1>1, <1>3, <2>3 DEF Underway
  <2> QED
    BY <2>2, <2>3, <2>4 DEF Underway
<1>4. UpdateIsCurrent' /\ \E k \in {"processes", "disks"} : \E S, R : kind = k /\ Underway(exporterUpdate, k, S, R)
  <2>1. CASE kind = "processes" /\ Underway(exporterUpdate, "processes", ProcessSamples, E!Labels)
    <3>1. Underway(exporterUpdate', "processes", ProcessSamples, E!Labels)
      BY <1>3, <2>1
    <3> QED
      BY <1>1, <2>1, <3>1, SamplesStay DEF UpdateIsCurrent, Underway, E!Labels
  <2>2. CASE kind = "disks" /\ Underway(exporterUpdate, "disks", DiskSamples, Devices)
    <3>1. Underway(exporterUpdate', "disks", DiskSamples, Devices)
      BY <1>3, <2>2
    <3> QED
      BY <1>1, <2>2, <3>1, SamplesStay DEF UpdateIsCurrent, Underway
  <2> QED
    BY <1>1, <2>1, <2>2, UpdateKind DEF ExporterInv
<1>5. RowsFit'
  <2>1. PICK k \in {"processes", "disks"} : \E S, R : kind = k /\ Underway(exporterUpdate, k, S, R)
    BY <1>4
  <2>2. /\ n \in 1..E!GaugesOf[k] /\ exporterUpdate.done = 0
        /\ RowsOf(k, exporterUpdate.rest) = exporterUpdate.due
        /\ exporterUpdate'.kind = k /\ exporterUpdate'.due = exporterUpdate.due
        /\ exporterUpdate'.rest = exporterUpdate.rest /\ exporterUpdate'.done = 0 /\ exporterUpdate'.reset = n
    BY <1>3, <2>1
  <2>3. /\ DOMAIN rows' = {"processes", "disks"} /\ \A m \in {"processes", "disks"} : DOMAIN rows'[m] = 1..E!GaugesOf[m]
        /\ rows'[k][n] = {}
        /\ \A m \in {"processes", "disks"} : \A g \in 1..E!GaugesOf[m] :
             (m # k \/ g # n) => rows'[m][g] = rows[m][g]
    BY <1>1, <2>1, <2>2 DEF ExporterInv, RowsFit
  <2> HIDE DEF n, kind
  <2>4. ASSUME NEW m \in {"processes", "disks"}, NEW g \in 1..E!GaugesOf[m] PROVE GaugeFits(m, g)'
    <3>1. GaugeFits(m, g)
      BY DEF ExporterInv, RowsFit
    <3>2. CASE m # k
      BY <1>1, <2>1, <2>2, <2>3, <3>1, <3>2 DEF GaugeFits, kind
    <3>3. CASE m = k /\ g # n
      <4>1. rows'[m][g] = rows[m][g] /\ (g <= n <=> g <= exporterUpdate.reset)
        <5>1. exporterUpdate.reset \in Nat
          BY <2>1 DEF Underway
        <5> QED
          BY <2>3, <3>3, <5>1 DEF n
      <4>2. Owed(exporterUpdate, m, g)' = Owed(exporterUpdate, m, g)
        BY <2>2 DEF Owed, RowsOf
      <4> QED
        BY <1>1, <2>1, <2>2, <3>1, <3>3, <4>1, <4>2 DEF GaugeFits, kind
    <3>4. CASE m = k /\ g = n
      <4>1. g >= E!GaugeAt(k, 0)
        BY <2>2, <3>4, KindFacts
      <4>2. Owed(exporterUpdate, m, g)' = exporterUpdate.due
        BY <2>2, <3>4, <4>1 DEF Owed, RowsOf
      <4>3. g <= n /\ rows'[m][g] = {}
        BY <2>2, <2>3, <3>4
      <4> QED
        BY <2>2, <3>4, <4>2, <4>3 DEF GaugeFits
    <3> QED
      BY <3>2, <3>3, <3>4
  <2> QED
    BY <1>1, <2>3, <2>4 DEF ExporterInv, RowsFit
<1> QED
  BY <1>2, <1>4, <1>5 DEF ExporterInv

\* The update after a step with the first of the rest.
Onward(u, kind) ==
  IF u.done = E!GaugesOf[kind] THEN [u EXCEPT !.rest = Tail(@), !.done = 0]
  ELSE [u EXCEPT !.done = @ + 1]

\* It sets the first row in one gauge, or in none, and owes no other gauge less.
StepsOn(u, v, kind) ==
  /\ v.kind = kind /\ v.due = u.due /\ v.reset = u.reset
  /\ u.done # E!CountAt[kind] => E!GaugeAt(kind, u.done) \in 1..E!GaugesOf[kind]
  /\ u.done = E!CountAt[kind] => E!GaugeAt(kind, u.done) \notin 1..E!GaugesOf[kind]
  /\ \A g \in 1..E!GaugesOf[kind] :
       Owed(u, kind, g) = IF g = E!GaugeAt(kind, u.done)
                          THEN {E!RowOf(kind, Head(u.rest))} \cup Owed(v, kind, g)
                          ELSE Owed(v, kind, g)

LEMMA UpdateAdvances ==
  ASSUME NEW kind \in {"processes", "disks"}, NEW S, NEW R, NEW u, NEW v,
         Underway(u, kind, S, R), u.reset = E!GaugesOf[kind], u.rest # << >>,
         v = Onward(u, kind)
  PROVE  Underway(v, kind, S, R) /\ StepsOn(u, v, kind)
<1> DEFINE n == E!GaugesOf[kind]
<1>1. /\ u \in [kind : {kind}, due : SUBSET R, rest : Seq(S), reset : 0..n, done : 0..n]
      /\ n \in {2, 4} /\ u.rest \in Seq(S) /\ u.done \in 0..n
  BY KindFacts DEF Underway
<1>2. Tail(u.rest) \in Seq(S) /\ RowsOf(kind, u.rest) = {E!RowOf(kind, Head(u.rest))} \cup RowsOf(kind, Tail(u.rest))
  <2> DEFINE rest == u.rest
  <2>1. rest \in Seq(S) /\ rest # << >>
    BY <1>1
  <2> HIDE DEF rest
  <2>2. Tail(rest) \in Seq(S) /\ RowsOf(kind, rest) = {E!RowOf(kind, Head(rest))} \cup RowsOf(kind, Tail(rest))
    BY <2>1, RestMoves
  <2> QED
    BY <2>2 DEF rest
<1>3. CASE u.done = n
  <2>1. v = [u EXCEPT !.rest = Tail(u.rest), !.done = 0]
    BY <1>3 DEF Onward
  <2>2. v = [kind |-> kind, due |-> u.due, rest |-> Tail(u.rest), reset |-> u.reset, done |-> 0]
    BY <1>1, <2>1
  <2>3. /\ v \in [kind : {kind}, due : SUBSET R, rest : Seq(S), reset : 0..n, done : 0..n]
        /\ v.kind = kind /\ v.due = u.due /\ v.reset = u.reset /\ v.rest = Tail(u.rest) /\ v.done = 0
    <3>1. u.due \in SUBSET R /\ u.reset \in 0..n /\ 0 \in 0..n
      BY <1>1
    <3>2. v.kind = kind /\ v.due = u.due /\ v.reset = u.reset /\ v.rest = Tail(u.rest) /\ v.done = 0
      BY <2>2
    <3>3. v \in [kind : {kind}, due : SUBSET R, rest : Seq(S), reset : 0..n, done : 0..n]
      BY <1>2, <2>2, <3>1
    <3> QED
      BY <3>2, <3>3
  <2>4. Underway(v, kind, S, R)
    BY <1>1, <2>3 DEF Underway
  <2>5. /\ kind = "processes" => n = 4 /\ u.done = E!CountAt[kind] /\ E!GaugeAt(kind, u.done) = 5 /\ E!GaugeAt(kind, 0) = 1
        /\ kind = "disks" => n = 2 /\ u.done # E!CountAt[kind] /\ E!GaugeAt(kind, u.done) = 2 /\ E!GaugeAt(kind, 0) = 0
    BY <1>3, KindFacts
  <2>6. ASSUME NEW g \in 1..n
        PROVE  Owed(u, kind, g) = IF g = E!GaugeAt(kind, u.done)
                                  THEN {E!RowOf(kind, Head(u.rest))} \cup Owed(v, kind, g)
                                  ELSE Owed(v, kind, g)
    <3>1. g >= E!GaugeAt(kind, v.done)
      BY <1>1, <2>3, <2>5
    <3>2. Owed(v, kind, g) = RowsOf(kind, Tail(u.rest))
      BY <2>3, <3>1 DEF Owed
    <3>3. g >= E!GaugeAt(kind, u.done) <=> g = E!GaugeAt(kind, u.done)
      BY <1>1, <2>5
    <3>4. Owed(u, kind, g) = IF g = E!GaugeAt(kind, u.done) THEN RowsOf(kind, u.rest) ELSE RowsOf(kind, Tail(u.rest))
      BY <3>3 DEF Owed
    <3> QED
      BY <1>2, <3>2, <3>4
  <2>7. /\ u.done # E!CountAt[kind] => E!GaugeAt(kind, u.done) \in 1..n
        /\ u.done = E!CountAt[kind] => E!GaugeAt(kind, u.done) \notin 1..n
    BY <2>5
  <2> QED
    BY <2>3, <2>4, <2>6, <2>7 DEF StepsOn
<1>4. CASE u.done # n
  <2>1. v = [u EXCEPT !.done = u.done + 1] /\ u.done + 1 \in 0..n
    BY <1>1, <1>4 DEF Onward
  <2>2. v \in [kind : {kind}, due : SUBSET R, rest : Seq(S), reset : 0..n, done : 0..n]
    BY <1>1, <2>1
  <2>3. v.kind = kind /\ v.due = u.due /\ v.reset = u.reset /\ v.rest = u.rest /\ v.done = u.done + 1
    BY <1>1, <2>1
  <2>4. Underway(v, kind, S, R)
    BY <1>1, <2>2, <2>3 DEF Underway
  <2>5. E!GaugeAt(kind, v.done) = E!GaugeAt(kind, u.done) + 1 /\ E!GaugeAt(kind, u.done) \in Nat
    BY <1>1, <2>3, KindFacts
  <2>6. ASSUME NEW g \in 1..n
        PROVE  Owed(u, kind, g) = IF g = E!GaugeAt(kind, u.done)
                                  THEN {E!RowOf(kind, Head(u.rest))} \cup Owed(v, kind, g)
                                  ELSE Owed(v, kind, g)
    <3>1. g >= E!GaugeAt(kind, v.done) <=> g >= E!GaugeAt(kind, u.done) /\ g # E!GaugeAt(kind, u.done)
      BY <1>1, <2>5
    <3>2. g = E!GaugeAt(kind, u.done) => g >= E!GaugeAt(kind, u.done)
      BY <2>5
    <3>3. CASE g = E!GaugeAt(kind, u.done)
      <4>1. Owed(u, kind, g) = RowsOf(kind, u.rest)
        BY <3>2, <3>3 DEF Owed
      <4>2. Owed(v, kind, g) = RowsOf(kind, Tail(u.rest))
        BY <2>3, <3>1, <3>3 DEF Owed
      <4> QED
        BY <1>2, <3>3, <4>1, <4>2
    <3>4. CASE g # E!GaugeAt(kind, u.done)
      BY <2>3, <3>1, <3>4 DEF Owed
    <3> QED
      BY <3>3, <3>4
  <2>7. /\ u.done # E!CountAt[kind] => E!GaugeAt(kind, u.done) \in 1..n
        /\ u.done = E!CountAt[kind] => E!GaugeAt(kind, u.done) \notin 1..n
    BY <1>1, <1>4, KindFacts
  <2> QED
    BY <2>3, <2>4, <2>6, <2>7 DEF StepsOn
<1> QED
  BY <1>3, <1>4

\* What a step with the first of the rest does to the update and the gauges.
LEMMA GaugesAdvance ==
  ASSUME UpdateIsCurrent, RowsFit, E!Refilling, exporterUpdate' = E!Advanced,
         UNCHANGED E!system, UNCHANGED sample,
         \/ /\ exporterUpdate.done # E!CountAt[exporterUpdate.kind]
            /\ rows' = [rows EXCEPT ![exporterUpdate.kind][E!GaugeAt(exporterUpdate.kind, exporterUpdate.done)] =
                          @ \cup {E!RowOf(exporterUpdate.kind, Head(exporterUpdate.rest))}]
         \/ exporterUpdate.done = E!CountAt[exporterUpdate.kind] /\ rows' = rows
  PROVE  UpdateIsCurrent' /\ RowsFit'
<1> DEFINE u == exporterUpdate
           v == exporterUpdate'
           kind == exporterUpdate.kind
           row == E!RowOf(kind, Head(u.rest))
           at == E!GaugeAt(kind, u.done)
<1>1. /\ u # E!Idle /\ u.reset = E!GaugesOf[kind] /\ u.rest # << >>
      /\ v = Onward(u, kind)
  BY DEF E!Refilling, E!Advanced, Onward
<1>2. ASSUME NEW k \in {"processes", "disks"}, NEW S, NEW R, kind = k, Underway(u, k, S, R)
      PROVE  /\ Underway(v, k, S, R) /\ RowsFit'
  <2>1. /\ Underway(v, k, S, R) /\ v.kind = k /\ v.due = u.due /\ v.reset = u.reset
        /\ u.done # E!CountAt[k] => at \in 1..E!GaugesOf[k]
        /\ u.done = E!CountAt[k] => at \notin 1..E!GaugesOf[k]
        /\ \A g \in 1..E!GaugesOf[k] :
             Owed(u, k, g) = IF g = at THEN {row} \cup Owed(v, k, g) ELSE Owed(v, k, g)
    <3>1. Underway(v, k, S, R) /\ StepsOn(u, v, k)
      <4>1. u.reset = E!GaugesOf[k]
        BY <1>1, <1>2
      <4>2. u.rest # << >> /\ v = Onward(u, k)
        BY <1>1, <1>2
      <4> HIDE DEF u, v
      <4> QED
        BY <1>2, <4>1, <4>2, UpdateAdvances
    <3> QED
      BY <1>2, <3>1 DEF StepsOn
  <2>2. /\ DOMAIN rows = {"processes", "disks"} /\ DOMAIN sample = {"processes", "disks"}
        /\ \A m \in {"processes", "disks"} : DOMAIN rows[m] = 1..E!GaugesOf[m]
    BY DEF RowsFit
  <2> HIDE DEF row, at
  <2>3. /\ DOMAIN rows' = {"processes", "disks"}
        /\ \A m \in {"processes", "disks"} : DOMAIN rows'[m] = 1..E!GaugesOf[m]
        /\ \A m \in {"processes", "disks"} : \A g \in 1..E!GaugesOf[m] :
             rows'[m][g] = IF m = k /\ g = at THEN rows[m][g] \cup {row} ELSE rows[m][g]
    <3>1. CASE u.done # E!CountAt[k] /\ rows' = [rows EXCEPT ![k] = [rows[k] EXCEPT ![at] = rows[k][at] \cup {row}]]
      BY <2>1, <2>2, <3>1
    <3>2. CASE u.done = E!CountAt[k] /\ rows' = rows
      BY <2>1, <2>2, <3>2
    <3> QED
      BY <1>2, <3>1, <3>2 DEF row, at
  <2>4. ASSUME NEW m \in {"processes", "disks"}, NEW g \in 1..E!GaugesOf[m] PROVE GaugeFits(m, g)'
    <3>1. GaugeFits(m, g)
      BY DEF RowsFit
    <3>2. CASE m # k
      BY <1>2, <2>1, <2>3, <3>1, <3>2 DEF GaugeFits
    <3>3. CASE m = k
      <4>1. g <= u.reset
        BY <1>1, <1>2, <3>3
      <4>2. rows[m][g] \cup Owed(u, m, g) = u.due
        BY <1>2, <3>1, <3>3, <4>1 DEF GaugeFits
      <4>3. rows'[m][g] \cup Owed(v, m, g) = u.due
        <5>1. CASE g = at
          <6>1. rows'[m][g] = rows[m][g] \cup {row} /\ Owed(u, m, g) = {row} \cup Owed(v, m, g)
            BY <2>1, <2>3, <3>3, <5>1
          <6> QED
            BY <4>2, <6>1
        <5>2. CASE g # at
          <6>1. rows'[m][g] = rows[m][g] /\ Owed(u, m, g) = Owed(v, m, g)
            BY <2>1, <2>3, <3>3, <5>2
          <6> QED
            BY <4>2, <6>1
        <5> QED
          BY <5>1, <5>2
      <4>4. Owed(exporterUpdate, m, g)' = Owed(v, m, g)
        BY DEF Owed, RowsOf
      <4> QED
        BY <2>1, <3>3, <4>1, <4>3, <4>4 DEF GaugeFits
    <3> QED
      BY <3>2, <3>3
  <2>5. RowsFit'
    BY <2>2, <2>3, <2>4 DEF RowsFit
  <2> QED
    BY <2>1, <2>5
<1>3. CASE kind = "processes" /\ Underway(u, "processes", ProcessSamples, E!Labels)
  <2>1. Underway(v, "processes", ProcessSamples, E!Labels) /\ RowsFit'
    BY <1>2, <1>3
  <2> QED
    BY <2>1, SamplesStay DEF UpdateIsCurrent, Underway, E!Labels, RowsOf
<1>4. CASE kind = "disks" /\ Underway(u, "disks", DiskSamples, Devices)
  <2>1. Underway(v, "disks", DiskSamples, Devices) /\ RowsFit'
    BY <1>2, <1>4
  <2> QED
    BY <2>1, SamplesStay DEF UpdateIsCurrent, Underway, RowsOf
<1> QED
  BY <1>1, <1>3, <1>4, UpdateKind

LEMMA ProcessIsCounted ==
  ASSUME PartsAssumption, ExporterInv, E!CountProcess
  PROVE  ExporterInv'
<1> DEFINE r == Head(exporterUpdate.rest)
           l == <<r.pid, r.name>>
           delta == E!Delta(prevProcessIO[r.pid], r.bytes)
<1>1. /\ E!Refilling /\ exporterUpdate.kind = "processes" /\ exporterUpdate.done = E!CountAt.processes
      /\ exporterUpdate' = E!Advanced
      /\ processIORead' = [processIORead EXCEPT ![l] = processIORead[l] + delta]
      /\ counted' = [counted EXCEPT ![r.pid] = counted[r.pid] + delta]
      /\ prevProcessIO' = [prevProcessIO EXCEPT ![r.pid] = r.bytes]
      /\ UNCHANGED E!system /\ UNCHANGED <<prevDiskIO, diskReadBytes, rows, sample>>
  BY DEF E!CountProcess
<1>2. UpdateIsCurrent' /\ RowsFit'
  BY <1>1, GaugesAdvance, KindFacts DEF ExporterInv
<1>3. UNCHANGED <<process, disk, processRead, pidRead, diskRead, renamed>>
  BY <1>1 DEF E!system
<1>4. /\ Absent \notin Nat /\ MetricsOK
      /\ \A q \in Pids : PidCounted(q) /\ (q \notin renamed => NameCounted(q))
      /\ \A d \in Devices : DiskCounted(d)
  BY DEF PartsAssumption, ExporterInv, CountsOK
<1>5. r \in ProcessSamples
  <2>1. exporterUpdate.rest \in Seq(ProcessSamples) /\ exporterUpdate.rest # << >>
    BY <1>1, UpdateKind DEF ExporterInv, E!Refilling, Underway
  <2> QED
    BY <2>1, RestMoves
<1>6. PICK p \in Pids : /\ r.pid = p /\ r.name = process[p].name /\ r.bytes = process[p].bytes
                         /\ r.name \in Names /\ r.bytes \in Nat /\ l = <<p, r.name>>
  BY <1>4, <1>5 DEF ProcessSamples, MetricsOK
<1>7. \A q \in Pids, n \in Names : <<q, n>> \in E!Labels
  BY DEF E!Labels
<1>8. delta \in Nat /\ E!Delta(r.bytes, r.bytes) = 0
  <2>1. prevProcessIO[p] \in {Absent} \cup Nat
    BY <1>4, <1>6 DEF MetricsOK
  <2> QED
    BY <1>4, <1>6, <2>1, DeltaFacts
<1> HIDE DEF r, delta
<1>9. /\ processIORead' \in [E!Labels -> Nat] /\ prevProcessIO' \in [Pids -> {Absent} \cup Nat]
      /\ counted' \in [Pids -> Nat]
      /\ processIORead'[l] = processIORead[l] + delta /\ prevProcessIO'[p] = r.bytes
      /\ counted'[p] = counted[p] + delta
      /\ \A m \in E!Labels \ {l} : processIORead'[m] = processIORead[m]
      /\ \A q \in Pids \ {p} : prevProcessIO'[q] = prevProcessIO[q] /\ counted'[q] = counted[q]
  <2>1. l \in E!Labels
    BY <1>6, <1>7
  <2> HIDE DEF l
  <2> QED
    BY <1>1, <1>4, <1>6, <1>8, <2>1 DEF MetricsOK
<1>10. MetricsOK'
  BY <1>1, <1>3, <1>4, <1>9 DEF MetricsOK
<1>11. E!Delta(prevProcessIO'[p], process'[p].bytes) = 0
  BY <1>3, <1>6, <1>8, <1>9
<1>12. PidCounted(p)'
  <2>1. /\ counted[p] + delta <= pidRead[p] /\ counted[p] \in Nat /\ pidRead[p] \in Nat
        /\ \A n \in Names : processIORead[<<p, n>>] <= counted[p]
    BY <1>4, <1>6 DEF PidCounted, MetricsOK, delta
  <2>2. ASSUME NEW n \in Names PROVE processIORead'[<<p, n>>] <= counted'[p]
    <3>1. processIORead[<<p, n>>] <= counted[p] /\ processIORead[<<p, n>>] \in Nat /\ <<p, n>> \in E!Labels
      BY <1>4, <1>6, <1>7, <2>1 DEF MetricsOK
    <3>2. processIORead'[<<p, n>>] \in {processIORead[<<p, n>>], processIORead[<<p, n>>] + delta}
      BY <1>9, <3>1
    <3> QED
      BY <1>8, <1>9, <2>1, <3>1, <3>2
  <2>3. counted'[p] <= pidRead'[p] /\ counted'[p] + 0 <= pidRead'[p]
    BY <1>3, <1>8, <1>9, <2>1
  <2> QED
    BY <1>11, <2>2, <2>3 DEF PidCounted, E!Delta
<1>13. ASSUME p \notin renamed PROVE NameCounted(p)'
  <2>1. /\ processIORead[l] + delta <= processRead[l] /\ processIORead[l] \in Nat /\ processRead[l] \in Nat
        /\ \A n \in Names : processIORead[<<p, n>>] <= processRead[<<p, n>>]
    <3>1. l \in E!Labels /\ process[p].name = r.name
      BY <1>6, <1>7
    <3>2. NameCounted(p)
      BY <1>4, <1>6, <1>13
    <3> QED
      BY <1>4, <1>6, <3>1, <3>2 DEF NameCounted, MetricsOK, delta
  <2>2. ASSUME NEW n \in Names PROVE processIORead'[<<p, n>>] <= processRead'[<<p, n>>]
    <3>1. CASE <<p, n>> = l
      BY <1>3, <1>9, <2>1, <3>1
    <3>2. CASE <<p, n>> # l
      <4>1. processIORead'[<<p, n>>] = processIORead[<<p, n>>]
        BY <1>6, <1>7, <1>9, <3>2
      <4> QED
        BY <1>3, <2>1, <4>1
    <3> QED
      BY <3>1, <3>2
  <2>3. <<p, process'[p].name>> = l
    BY <1>3, <1>6
  <2>4. processIORead'[l] + 0 <= processRead'[l]
    BY <1>3, <1>8, <1>9, <2>1
  <2> HIDE DEF l
  <2> QED
    BY <1>11, <2>2, <2>3, <2>4 DEF NameCounted, E!Delta
<1>14. ASSUME NEW q \in Pids, q # p PROVE PidCounted(q)' /\ (q \notin renamed => NameCounted(q)')
  <2>1. prevProcessIO'[q] = prevProcessIO[q] /\ counted'[q] = counted[q]
    BY <1>9, <1>14
  <2>2. \A n \in Names : processIORead'[<<q, n>>] = processIORead[<<q, n>>]
    BY <1>6, <1>7, <1>9, <1>14
  <2>3. process[q].name \in Names
    BY <1>4 DEF MetricsOK
  <2>4. PidCounted(q)'
    BY <1>3, <1>4, <2>1, <2>2 DEF PidCounted, E!Delta
  <2>5. q \notin renamed => NameCounted(q)'
    BY <1>3, <1>4, <2>1, <2>2, <2>3 DEF NameCounted, E!Delta
  <2> QED
    BY <2>4, <2>5
<1>15. \A d \in Devices : DiskCounted(d)'
  BY <1>1, <1>3, <1>4 DEF DiskCounted, E!Delta
<1>16. \A q \in Pids : PidCounted(q)' /\ (q \notin renamed' => NameCounted(q)')
  BY <1>3, <1>12, <1>13, <1>14
<1>17. CountsOK'
  BY <1>10, <1>15, <1>16 DEF CountsOK
<1> QED
  BY <1>2, <1>17 DEF ExporterInv

LEMMA DiskIsCounted ==
  ASSUME PartsAssumption, ExporterInv, E!CountDisk
  PROVE  ExporterInv'
<1> DEFINE r == Head(exporterUpdate.rest)
           d == r.device
           delta == E!Delta(prevDiskIO[r.device], r.bytes)
<1>1. /\ E!Refilling /\ exporterUpdate.kind = "disks" /\ exporterUpdate.done = E!CountAt.disks
      /\ exporterUpdate' = E!Advanced
      /\ diskReadBytes' = [diskReadBytes EXCEPT ![d] = diskReadBytes[d] + delta]
      /\ prevDiskIO' = [prevDiskIO EXCEPT ![d] = r.bytes]
      /\ UNCHANGED E!system /\ UNCHANGED <<prevProcessIO, processIORead, counted, rows, sample>>
  BY DEF E!CountDisk
<1>2. UpdateIsCurrent' /\ RowsFit'
  BY <1>1, GaugesAdvance, KindFacts DEF ExporterInv
<1>3. UNCHANGED <<process, disk, processRead, pidRead, diskRead, renamed>>
  BY <1>1 DEF E!system
<1>4. /\ Absent \notin Nat /\ MetricsOK
      /\ \A q \in Pids : PidCounted(q) /\ (q \notin renamed => NameCounted(q))
      /\ \A e \in Devices : DiskCounted(e)
  BY DEF PartsAssumption, ExporterInv, CountsOK
<1>5. r \in DiskSamples
  <2>1. exporterUpdate.rest \in Seq(DiskSamples) /\ exporterUpdate.rest # << >>
    BY <1>1, UpdateKind DEF ExporterInv, E!Refilling, Underway
  <2> QED
    BY <2>1, RestMoves
<1>6. d \in Devices /\ r.bytes = disk[d] /\ r.bytes \in Nat
  BY <1>4, <1>5 DEF DiskSamples, MetricsOK
<1>7. delta \in Nat /\ E!Delta(r.bytes, r.bytes) = 0
  <2>1. prevDiskIO[d] \in {Absent} \cup Nat
    BY <1>4, <1>6 DEF MetricsOK
  <2> QED
    BY <1>4, <1>6, <2>1, DeltaFacts
<1> HIDE DEF r, d, delta
<1>8. /\ diskReadBytes' \in [Devices -> Nat] /\ prevDiskIO' \in [Devices -> {Absent} \cup Nat]
      /\ diskReadBytes'[d] = diskReadBytes[d] + delta /\ prevDiskIO'[d] = r.bytes
      /\ \A e \in Devices \ {d} : diskReadBytes'[e] = diskReadBytes[e] /\ prevDiskIO'[e] = prevDiskIO[e]
  BY <1>1, <1>4, <1>6, <1>7 DEF MetricsOK
<1>9. MetricsOK'
  BY <1>1, <1>3, <1>4, <1>8 DEF MetricsOK
<1>10. ASSUME NEW e \in Devices PROVE DiskCounted(e)'
  <2>1. CASE e = d
    <3>1. diskReadBytes[d] + delta <= diskRead[d] /\ diskReadBytes[d] \in Nat /\ diskRead[d] \in Nat
      BY <1>4, <1>6 DEF DiskCounted, MetricsOK, delta, d
    <3>2. E!Delta(prevDiskIO'[d], disk'[d]) = 0
      BY <1>3, <1>6, <1>7, <1>8
    <3>3. diskReadBytes'[d] <= diskRead'[d] /\ diskReadBytes'[d] + 0 <= diskRead'[d]
      BY <1>3, <1>7, <1>8, <3>1
    <3> QED
      BY <2>1, <3>2, <3>3 DEF DiskCounted, E!Delta
  <2>2. CASE e # d
    BY <1>3, <1>4, <1>8, <2>2 DEF DiskCounted, E!Delta
  <2> QED
    BY <2>1, <2>2
<1>11. \A q \in Pids : PidCounted(q)' /\ (q \notin renamed => NameCounted(q)')
  BY <1>1, <1>3, <1>4 DEF PidCounted, NameCounted, E!Delta
<1>12. CountsOK'
  BY <1>3, <1>9, <1>10, <1>11 DEF CountsOK
<1> QED
  BY <1>2, <1>12 DEF ExporterInv

\* An update that has no sample left has set in every gauge the rows due.
LEMMA UpdateEnds ==
  ASSUME ExporterInv, E!Finish
  PROVE  ExporterInv'
<1> DEFINE kind == exporterUpdate.kind
<1>1. /\ exporterUpdate # E!Idle /\ exporterUpdate.reset = E!GaugesOf[kind] /\ exporterUpdate.rest = << >>
      /\ sample' = [sample EXCEPT ![kind] = exporterUpdate.due]
      /\ exporterUpdate' = E!Idle
      /\ UNCHANGED E!system /\ UNCHANGED E!counters /\ UNCHANGED rows
  BY DEF E!Finish
<1>2. CountsOK'
  BY <1>1, CountsStay DEF ExporterInv, E!counters
<1>3. UpdateIsCurrent' /\ exporterUpdate'.kind = "idle"
  BY <1>1 DEF UpdateIsCurrent, E!Idle
<1>4. kind \in {"processes", "disks"} /\ exporterUpdate.done = 0
  BY <1>1, UpdateKind DEF ExporterInv, Underway
<1>5. RowsFit'
  <2>1. /\ DOMAIN sample = {"processes", "disks"} /\ DOMAIN sample' = {"processes", "disks"}
        /\ sample'[kind] = exporterUpdate.due
        /\ \A m \in {"processes", "disks"} : m # kind => sample'[m] = sample[m]
    BY <1>1, <1>4 DEF ExporterInv, RowsFit
  <2>2. ASSUME NEW m \in {"processes", "disks"}, NEW g \in 1..E!GaugesOf[m] PROVE GaugeFits(m, g)'
    <3>1. GaugeFits(m, g)
      BY DEF ExporterInv, RowsFit
    <3>2. CASE m # kind
      BY <1>1, <1>3, <2>1, <3>1, <3>2 DEF GaugeFits
    <3>3. CASE m = kind
      <4>1. g >= E!GaugeAt(m, exporterUpdate.done) /\ g <= exporterUpdate.reset
        BY <1>1, <1>4, <3>3, KindFacts
      <4>2. Owed(exporterUpdate, m, g) = {}
        BY <1>1, <4>1 DEF Owed, RowsOf
      <4>3. rows[m][g] = exporterUpdate.due
        BY <3>1, <3>3, <4>1, <4>2 DEF GaugeFits
      <4> QED
        BY <1>1, <1>3, <2>1, <3>3, <4>3 DEF GaugeFits
    <3> QED
      BY <3>2, <3>3
  <2> QED
    BY <1>1, <2>1, <2>2 DEF ExporterInv, RowsFit
<1> QED
  BY <1>2, <1>3, <1>5 DEF ExporterInv

LEMMA ExporterStep == PartsAssumption /\ ExporterInv /\ [E!Next]_metrics => ExporterInv'
<1> SUFFICES ASSUME PartsAssumption, ExporterInv, [E!Next]_metrics PROVE ExporterInv'
  OBVIOUS
<1>1. ASSUME NEW order \in E!Orders(Pids), E!BeginProcesses(order) PROVE ExporterInv'
  <2> DEFINE sampled == [i \in DOMAIN order |->
                           [pid |-> order[i], name |-> process[order[i]].name, bytes |-> process[order[i]].bytes]]
             limited == E!Limited(sampled)
  <2>1. order \in Seq(Pids)
    BY OrdersAreSequences DEF PartsAssumption
  <2>2. sampled \in Seq(ProcessSamples)
    <3>1. \A i \in 1..Len(order) :
            [pid |-> order[i], name |-> process[order[i]].name, bytes |-> process[order[i]].bytes] \in ProcessSamples
      BY <2>1 DEF ProcessSamples
    <3>2. DOMAIN order = 1..Len(order) /\ Len(order) \in Nat
      BY <2>1
    <3> QED
      BY <3>1, <3>2
  <2>3. E!Begin("processes", limited)
    BY <1>1 DEF E!BeginProcesses
  <2> HIDE DEF sampled
  <2>4. limited \in Seq(ProcessSamples)
    BY <2>2, LimitedIsCut DEF PartsAssumption
  <2> HIDE DEF limited
  <2> QED
    BY <2>3, <2>4, UpdateBegins
<1>2. ASSUME NEW order \in E!Orders(Devices), E!BeginDisks(order) PROVE ExporterInv'
  <2> DEFINE sampled == [i \in DOMAIN order |-> [device |-> order[i], bytes |-> disk[order[i]]]]
  <2>1. order \in Seq(Devices)
    BY OrdersAreSequences DEF PartsAssumption
  <2>2. sampled \in Seq(DiskSamples)
    <3>1. \A i \in 1..Len(order) : [device |-> order[i], bytes |-> disk[order[i]]] \in DiskSamples
      BY <2>1 DEF DiskSamples
    <3>2. DOMAIN order = 1..Len(order) /\ Len(order) \in Nat
      BY <2>1
    <3> QED
      BY <3>1, <3>2
  <2>3. E!Begin("disks", sampled)
    BY <1>2 DEF E!BeginDisks
  <2> HIDE DEF sampled
  <2> QED
    BY <2>2, <2>3, UpdateBegins
<1>3. ASSUME E!SetGauge PROVE ExporterInv'
  <2>1. CountsOK'
    BY <1>3, CountsStay DEF ExporterInv, E!SetGauge, E!counters
  <2>2. UpdateIsCurrent' /\ RowsFit'
    BY <1>3, GaugesAdvance DEF ExporterInv, E!SetGauge
  <2> QED
    BY <2>1, <2>2 DEF ExporterInv
<1>4. CASE UNCHANGED <<process, disk, processRead, pidRead, diskRead, renamed, prevProcessIO, prevDiskIO,
                       processIORead, diskReadBytes, counted, rows, exporterUpdate, sample>>
  <2>1. CountsOK'
    BY <1>4, CountsStay DEF ExporterInv, E!system
  <2>2. UpdateIsCurrent'
    BY <1>4, SamplesStay DEF ExporterInv, UpdateIsCurrent, E!system
  <2>3. RowsFit'
    BY <1>4 DEF ExporterInv, RowsFit, GaugeFits, Owed
  <2> QED
    BY <2>1, <2>2, <2>3 DEF ExporterInv
<1> QED
  BY <1>1, <1>2, <1>3, <1>4, SystemMoves, GaugeIsReset, ProcessIsCounted, DiskIsCounted, UpdateEnds
    DEF E!Next, E!UpdateSystem, E!system, E!counters, metrics

\* A scrape at any moment is honest, for any numbers of processes, of devices
\* and of updates (prometheus.go:545-577): no counter of bytes says more than
\* was read under its pid, or under its label unless a process took another
\* name, and no gauge mixes the rows of two updates, though an update resets
\* its gauges one after the other and fills them row by row.
THEOREM ScrapesAlwaysHonest == MCSpec => []ScrapesAreHonest
<1> DEFINE Inv == part \in {"processes", "disks"} => ExporterInv
<1>1. MCInit => Inv
  BY ExporterInit, PartsAssumption DEF MCInit
<1>2. Inv /\ [MCNext]_MCvars => Inv'
  <2> SUFFICES ASSUME Inv, [MCNext]_MCvars, part' \in {"processes", "disks"} PROVE ExporterInv'
    OBVIOUS
  <2>1. part \in {"processes", "disks"} /\ [E!Next]_metrics
    BY DEF MCNext, MCvars
  <2> QED
    BY <2>1, ExporterStep, PartsAssumption
<1>3. Inv => ScrapesAreHonest
  <2> SUFFICES ASSUME ExporterInv PROVE E!CountersAreHonest /\ E!RowsAreHonest
    BY DEF ScrapesAreHonest, E!ScrapesAreHonest
  <2>1. E!CountersAreHonest
    BY DEF ExporterInv, CountsOK, PidCounted, NameCounted, DiskCounted, E!CountersAreHonest
  <2>2. E!RowsAreHonest
    <3> SUFFICES ASSUME NEW kind \in DOMAIN rows, NEW g \in DOMAIN rows[kind]
                 PROVE  \/ rows[kind][g] = sample[kind]
                        \/ exporterUpdate.kind = kind /\ rows[kind][g] \subseteq exporterUpdate.due
      BY DEF E!RowsAreHonest
    <3>1. GaugeFits(kind, g)
      BY DEF ExporterInv, RowsFit
    <3> QED
      BY <3>1 DEF GaugeFits
  <2> QED
    BY <2>1, <2>2
<1> QED
  BY <1>1, <1>2, <1>3, PTL DEF MCSpec
-----------------------------------------------------------------------------
(***************************************************************************)
(* Sorting: every sequence has an arrangement that falls.                  *)
(***************************************************************************)
Permutes(f, n) == f \in [1..n -> 1..n] /\ \A w \in 1..n : \E v \in 1..n : f[v] = w

LEMMA ArrangedBy ==
  ASSUME NEW S, NEW s \in Seq(S), NEW f, Permutes(f, Len(s))
  PROVE  [i \in 1..Len(s) |-> s[f[i]]] \in T!Arrangements(s)
<1>1. DOMAIN s = 1..Len(s)
  OBVIOUS
<1>2. f \in T!Surjection(DOMAIN s, DOMAIN s)
  BY <1>1 DEF Permutes, T!Surjection
<1> QED
  BY <1>1, <1>2 DEF T!Arrangements

LEMMA Arranged ==
  ASSUME NEW S, NEW s \in Seq(S), NEW t \in T!Arrangements(s)
  PROVE  /\ t \in Seq(S) /\ Len(t) = Len(s)
         /\ \E f : Permutes(f, Len(s)) /\ t = [i \in 1..Len(s) |-> s[f[i]]]
<1>1. DOMAIN s = 1..Len(s) /\ Len(s) \in Nat
  OBVIOUS
<1>2. PICK f \in T!Surjection(DOMAIN s, DOMAIN s) : t = [i \in 1..Len(s) |-> s[f[i]]]
  BY <1>1 DEF T!Arrangements
<1>3. Permutes(f, Len(s))
  BY <1>1 DEF Permutes, T!Surjection
<1>4. \A i \in 1..Len(s) : s[f[i]] \in S
  <2>1. f \in [1..Len(s) -> 1..Len(s)]
    BY <1>3 DEF Permutes
  <2>2. \A i \in 1..Len(s) : f[i] \in 1..Len(s)
    BY <2>1
  <2>3. \A j \in 1..Len(s) : s[j] \in S
    OBVIOUS
  <2> QED
    BY <2>2, <2>3
<1>5. t \in [1..Len(s) -> S]
  BY <1>2, <1>4
<1> QED
  BY <1>1, <1>2, <1>3, <1>5

LEMMA ArrangedAsIs ==
  ASSUME NEW S, NEW s \in Seq(S)
  PROVE  s \in T!Arrangements(s)
<1> DEFINE f == [i \in 1..Len(s) |-> i]
<1>1. Permutes(f, Len(s))
  BY DEF Permutes
<1>2. s = [i \in 1..Len(s) |-> s[f[i]]]
  OBVIOUS
<1> QED
  BY <1>1, <1>2, ArrangedBy

LEMMA ArrangedTwice ==
  ASSUME NEW S, NEW s \in Seq(S), NEW t \in T!Arrangements(s), NEW u \in T!Arrangements(t)
  PROVE  u \in T!Arrangements(s)
<1>1. t \in Seq(S) /\ Len(t) = Len(s)
  BY Arranged
<1>2. PICK f : Permutes(f, Len(s)) /\ t = [i \in 1..Len(s) |-> s[f[i]]]
  BY Arranged
<1>3. PICK g : Permutes(g, Len(s)) /\ u = [i \in 1..Len(s) |-> t[g[i]]]
  BY <1>1, Arranged
<1> DEFINE h == [i \in 1..Len(s) |-> f[g[i]]]
<1>4. Permutes(h, Len(s))
  <2>1. h \in [1..Len(s) -> 1..Len(s)]
    BY <1>2, <1>3 DEF Permutes
  <2>2. ASSUME NEW w \in 1..Len(s) PROVE \E v \in 1..Len(s) : h[v] = w
    <3>1. PICK y \in 1..Len(s) : f[y] = w
      BY <1>2 DEF Permutes
    <3>2. PICK v \in 1..Len(s) : g[v] = y
      BY <1>3 DEF Permutes
    <3> QED
      BY <3>1, <3>2
  <2> QED
    BY <2>1, <2>2 DEF Permutes
<1>5. u = [i \in 1..Len(s) |-> s[h[i]]]
  BY <1>2, <1>3 DEF Permutes
<1> HIDE DEF h
<1> QED
  BY <1>4, <1>5, ArrangedBy

\* The first n of s, by falling numbers r.
FallingBy(f, r, n) == \A a, b \in 1..n : a < b => r[f[a]] >= r[f[b]]

\* One more is put before the first that is smaller.
LEMMA Inserted ==
  ASSUME NEW n \in Nat \ {0}, NEW r \in [1..n -> Int], NEW f, Permutes(f, n - 1), FallingBy(f, r, n - 1)
  PROVE  \E g : Permutes(g, n) /\ FallingBy(g, r, n)
<1> DEFINE Places == {k \in 1..n : k = n \/ r[f[k]] < r[n]}
<1>1. PICK k \in Places : \A y \in Places : k <= y
  <2>1. n \in Places /\ Places \subseteq Nat
    OBVIOUS
  <2> HIDE DEF Places
  <2> QED
    BY <2>1, LeastNumber
<1>2. /\ \A a \in 1..(n - 1) : f[a] \in 1..(n - 1) /\ r[f[a]] \in Int
      /\ r[n] \in Int /\ k \in 1..n
  <2>1. f \in [1..(n - 1) -> 1..(n - 1)]
    BY DEF Permutes
  <2>2. \A a \in 1..(n - 1) : f[a] \in 1..(n - 1)
    BY <2>1
  <2>3. n \in 1..n /\ 1..(n - 1) \subseteq 1..n
    OBVIOUS
  <2>4. \A a \in 1..(n - 1) : f[a] \in 1..n
    BY <2>2, <2>3
  <2>5. \A x \in 1..n : r[x] \in Int
    OBVIOUS
  <2>6. k \in 1..n
    BY <1>1
  <2> HIDE DEF Places
  <2> QED
    BY <2>2, <2>3, <2>4, <2>5, <2>6
<1>3. \A a \in 1..(n - 1) : a < k => r[f[a]] >= r[n]
  <2> SUFFICES ASSUME NEW a \in 1..(n - 1), a < k PROVE r[f[a]] >= r[n]
    OBVIOUS
  <2>1. a \notin Places
    BY <1>1, <1>2
  <2>2. ~(r[f[a]] < r[n])
    BY <2>1
  <2> QED
    BY <1>2, <2>2
<1>4. \A a \in 1..(n - 1) : a >= k => r[f[a]] < r[n]
  <2> SUFFICES ASSUME NEW a \in 1..(n - 1), a >= k PROVE r[f[a]] < r[n]
    OBVIOUS
  <2>1. k \in 1..(n - 1) /\ r[f[k]] < r[n]
    BY <1>2
  <2>2. a = k \/ r[f[k]] >= r[f[a]]
    BY <1>2, <2>1 DEF FallingBy
  <2>3. r[f[a]] \in Int /\ r[f[k]] \in Int
    BY <1>2, <2>1
  <2> HIDE DEF Places
  <2> QED
    BY <1>2, <2>1, <2>2, <2>3
<1> HIDE DEF Places
<1> DEFINE g == [x \in 1..n |-> IF x < k THEN f[x] ELSE IF x = k THEN n ELSE f[x - 1]]
<1>5. /\ \A x \in 1..n : x < k => g[x] = f[x] /\ x \in 1..(n - 1)
      /\ \A x \in 1..n : x > k => g[x] = f[x - 1] /\ x - 1 \in 1..(n - 1)
      /\ g[k] = n
  BY <1>2
<1>6. Permutes(g, n)
  <2>1. \A x \in 1..n : g[x] \in 1..n
    <3> SUFFICES ASSUME NEW x \in 1..n PROVE g[x] \in 1..n
      OBVIOUS
    <3>1. x < k \/ x = k \/ x > k
      BY <1>2
    <3>2. \A a \in 1..(n - 1) : f[a] \in 1..n
      BY <1>2
    <3>3. n \in 1..n
      OBVIOUS
    <3> HIDE DEF g
    <3>4. CASE x < k
      <4>1. g[x] = f[x] /\ x \in 1..(n - 1)
        BY <1>5, <3>4
      <4> QED
        BY <3>2, <4>1
    <3>5. CASE x > k
      <4>1. g[x] = f[x - 1] /\ x - 1 \in 1..(n - 1)
        BY <1>5, <3>5
      <4> QED
        BY <3>2, <4>1
    <3> QED
      BY <1>5, <3>1, <3>3, <3>4, <3>5
  <2>2. ASSUME NEW w \in 1..n PROVE \E v \in 1..n : g[v] = w
    <3>1. CASE w = n
      BY <1>2, <1>5, <3>1
    <3>2. CASE w # n
      <4>1. PICK v \in 1..(n - 1) : f[v] = w
        BY <3>2 DEF Permutes
      <4>2. CASE v < k
        BY <1>5, <4>1, <4>2
      <4>3. CASE v >= k
        <5>1. v + 1 \in 1..n /\ v + 1 > k /\ v + 1 - 1 = v
          BY <1>2, <4>3
        <5> HIDE DEF g
        <5> QED
          BY <1>5, <4>1, <5>1
      <4> QED
        BY <1>2, <4>2, <4>3
    <3> QED
      BY <3>1, <3>2
  <2> QED
    BY <2>1, <2>2 DEF Permutes
<1> HIDE DEF g
<1>7. ASSUME NEW a \in 1..n, NEW b \in 1..n, a < b PROVE r[g[a]] >= r[g[b]]
  <2>1. CASE b < k
    <3>1. a < k
      BY <1>2, <1>7, <2>1
    <3>2. g[a] = f[a] /\ g[b] = f[b] /\ a \in 1..(n - 1) /\ b \in 1..(n - 1)
      BY <1>5, <2>1, <3>1
    <3> QED
      BY <1>7, <3>2 DEF FallingBy
  <2>2. CASE b = k
    <3>1. g[a] = f[a] /\ g[b] = n /\ a \in 1..(n - 1)
      BY <1>5, <1>7, <2>2
    <3> QED
      BY <1>3, <1>7, <2>2, <3>1
  <2>3. CASE b > k /\ a < k
    <3>1. g[a] = f[a] /\ g[b] = f[b - 1] /\ a \in 1..(n - 1) /\ b - 1 \in 1..(n - 1)
      BY <1>5, <2>3
    <3>2. a < b - 1
      BY <1>2, <2>3
    <3> QED
      BY <3>1, <3>2 DEF FallingBy
  <2>4. CASE b > k /\ a = k
    <3>1. g[a] = n /\ g[b] = f[b - 1] /\ b - 1 \in 1..(n - 1) /\ b - 1 >= k
      BY <1>2, <1>5, <2>4
    <3>2. r[f[b - 1]] < r[n] /\ r[f[b - 1]] \in Int
      BY <1>2, <1>4, <3>1
    <3> QED
      BY <1>2, <3>1, <3>2
  <2>5. CASE b > k /\ a > k
    <3>1. g[a] = f[a - 1] /\ g[b] = f[b - 1] /\ a - 1 \in 1..(n - 1) /\ b - 1 \in 1..(n - 1)
      BY <1>5, <2>5
    <3>2. a - 1 < b - 1
      BY <1>7
    <3> QED
      BY <3>1, <3>2 DEF FallingBy
  <2> QED
    BY <1>2, <2>1, <2>2, <2>3, <2>4, <2>5
<1> QED
  BY <1>6, <1>7 DEF FallingBy

LEMMA OrderExists ==
  ASSUME NEW n \in Nat, NEW r \in [1..n -> Int]
  PROVE  \E f : Permutes(f, n) /\ FallingBy(f, r, n)
<1> DEFINE P == {m \in 0..n : \E f : Permutes(f, m) /\ FallingBy(f, r, m)}
<1>1. 0 \in P
  <2>1. Permutes([x \in 1..0 |-> x], 0) /\ FallingBy([x \in 1..0 |-> x], r, 0)
    BY DEF Permutes, FallingBy
  <2> QED
    BY <2>1
<1>2. ASSUME NEW i \in 1..n, i - 1 \in P PROVE i \in P
  <2>1. PICK f : Permutes(f, i - 1) /\ FallingBy(f, r, i - 1)
    BY <1>2
  <2> DEFINE q == [x \in 1..i |-> r[x]]
  <2>2. q \in [1..i -> Int] /\ i \in Nat \ {0} /\ i \in 0..n
    OBVIOUS
  <2>3. FallingBy(f, q, i - 1)
    <3>1. f \in [1..(i - 1) -> 1..(i - 1)]
      BY <2>1 DEF Permutes
    <3>2. \A a \in 1..(i - 1) : f[a] \in 1..i
      BY <3>1
    <3>3. \A a \in 1..(i - 1) : q[f[a]] = r[f[a]]
      BY <3>2
    <3> QED
      BY <2>1, <3>3 DEF FallingBy
  <2> HIDE DEF P
  <2>4. PICK g : Permutes(g, i) /\ FallingBy(g, q, i)
    <3> HIDE DEF q
    <3> QED
      BY <2>1, <2>2, <2>3, Inserted
  <2>5. FallingBy(g, r, i)
    BY <2>4 DEF FallingBy, Permutes
  <2> QED
    BY <2>2, <2>4, <2>5 DEF P
<1> HIDE DEF P
<1>3. n \in P
  <2>1. \A i \in 0..n : i \in P
    BY <1>1, <1>2, InductionUpTo
  <2> QED
    BY <2>1
<1> QED
  BY <1>3 DEF P

\* Sorting a list of processes gives an order of the same processes.
LEMMA SortedRight ==
  ASSUME NEW s \in Seq(Processes), NEW key \in T!Sorts
  PROVE  /\ T!Sorted(s, key) \in T!Arrangements(s)
         /\ T!Falling(T!Sorted(s, key), key)
         /\ T!Sorted(s, key) \in Seq(Processes) /\ Len(T!Sorted(s, key)) = Len(s)
<1> DEFINE r == [i \in 1..Len(s) |-> Rank[key][s[i]]]
<1>1. r \in [1..Len(s) -> Int] /\ Len(s) \in Nat
  BY TerminalAssumption DEF T!Sorts
<1> HIDE DEF r
<1>2. PICK f : Permutes(f, Len(s)) /\ FallingBy(f, r, Len(s))
  BY <1>1, OrderExists
<1> DEFINE t == [i \in 1..Len(s) |-> s[f[i]]]
<1>3. t \in T!Arrangements(s)
  BY <1>2, ArrangedBy
<1>4. T!Falling(t, key)
  <2> SUFFICES ASSUME NEW a \in 1..Len(s), NEW b \in 1..Len(s), a < b
               PROVE  Rank[key][t[a]] >= Rank[key][t[b]]
    BY DEF T!Falling
  <2>1. f[a] \in 1..Len(s) /\ f[b] \in 1..Len(s) /\ r[f[a]] >= r[f[b]]
    BY <1>2 DEF Permutes, FallingBy
  <2> QED
    BY <2>1 DEF r
<1> HIDE DEF t
<1>5. T!Sorted(s, key) \in T!Arrangements(s) /\ T!Falling(T!Sorted(s, key), key)
  BY <1>3, <1>4 DEF T!Sorted
<1> QED
  BY <1>5, Arranged

-----------------------------------------------------------------------------
(***************************************************************************)
(* The terminal's process list: the selection and the window over it.      *)
(***************************************************************************)
ListModel ==
  [processes : Seq(Processes), filtered : Seq(Processes), sortBy : T!Sorts, filter : T!Filters, input : T!Filters,
   filterActive : BOOLEAN, selected : Int, scroll : Nat, visibleRows : Int]

IsList(l) == l \in ListModel

\* Where a selection and a window are that never were without a row.
InWindow(l) ==
  /\ l.visibleRows >= 1
  /\ l.selected \in -1..(Len(l.filtered) - 1) \cup {0}
  /\ l.scroll <= T!AtLeast(l.selected, 0)

Keeps(l, m) == IsList(m) /\ (InWindow(l) => InWindow(m))

TerminalInv ==
  /\ IsList(list) /\ T!IsCurrent(list) /\ cramped \in BOOLEAN /\ err \in BOOLEAN
  /\ ~cramped => InWindow(list) /\ (strayed <=> list.selected = -1)
  /\ life = "panicked" => view = "help"

LEMMA ListFields ==
  ASSUME NEW l, IsList(l)
  PROVE  /\ l.selected \in Int /\ l.scroll \in Nat /\ l.visibleRows \in Int /\ Len(l.filtered) \in Nat
         /\ l.processes \in Seq(Processes) /\ l.filtered \in Seq(Processes) /\ l.sortBy \in T!Sorts
  BY DEF IsList, ListModel

\* A key that moves the selection to s and the window to o.
MovesTo(l, m, s, o) == m = [[l EXCEPT !.selected = s] EXCEPT !.scroll = o]

LEMMA Placed ==
  ASSUME NEW l, IsList(l), NEW s \in Int, NEW o \in Nat, NEW m, MovesTo(l, m, s, o)
  PROVE  /\ IsList(m) /\ m.selected = s /\ m.scroll = o
         /\ m.visibleRows = l.visibleRows /\ m.filtered = l.filtered
<1>1. l \in ListModel
  BY DEF IsList
<1>2. m \in ListModel /\ m.selected = s /\ m.scroll = o /\ m.visibleRows = l.visibleRows /\ m.filtered = l.filtered
  BY <1>1 DEF ListModel, MovesTo
<1> QED
  BY <1>2 DEF IsList

LEMMA KeptSame == ASSUME NEW s, NEW I PROVE T!Kept(s, I) = Kept(s, I)
  BY DEF T!Kept, T!KeptUpTo, Kept, KeptUpTo

\* Filtering puts a selection it loses, and the window with it, at the top.
LEMMA FilterKeeps ==
  ASSUME NEW l, IsList(l)
  PROVE  Keeps(l, T!applyFilters(l))
<1>1. l \in ListModel
  BY DEF IsList
<1> DEFINE kept == T!Filtered(l)
           lost == l.selected >= Len(kept)
           m == T!applyFilters(l)
<1>2. kept \in Seq(Processes)
  <2>1. l.processes \in Seq(Processes)
    BY <1>1 DEF ListModel
  <2> QED
    BY <2>1, KeptSame, KeptElements DEF T!Filtered
<1>t. l.selected \in Int /\ l.scroll \in Nat /\ Len(kept) \in Nat
  BY <1>1, <1>2 DEF ListModel
<1>s. PICK s \in Int, o \in Nat : s = (IF lost THEN 0 ELSE l.selected) /\ o = (IF lost THEN 0 ELSE l.scroll)
  BY <1>t
<1>3. m = [l EXCEPT !.filtered = kept, !.selected = s, !.scroll = o]
  BY <1>1, <1>s DEF T!applyFilters, ListModel
<1> HIDE DEF kept, m
<1>4. m \in ListModel /\ m.filtered = kept /\ m.visibleRows = l.visibleRows /\ m.selected = s /\ m.scroll = o
  BY <1>1, <1>2, <1>3 DEF ListModel
<1>5. ASSUME InWindow(l) PROVE InWindow(m)
  BY <1>4, <1>5, <1>t, <1>s DEF InWindow, T!AtLeast
<1> QED
  BY <1>4, <1>5 DEF Keeps, IsList, m

LEMMA SortKeeps ==
  ASSUME NEW l, IsList(l)
  PROVE  Keeps(l, T!sortProcesses(l))
<1>1. l \in ListModel
  BY DEF IsList
<1> DEFINE sorted == T!Sorted(l.filtered, l.sortBy)
           m == T!sortProcesses(l)
<1>2. sorted \in Seq(Processes) /\ Len(sorted) = Len(l.filtered)
  BY ListFields, SortedRight
<1>3. m = [l EXCEPT !.filtered = sorted]
  BY DEF T!sortProcesses
<1> HIDE DEF m, sorted
<1>4. /\ m \in ListModel /\ m.filtered = sorted /\ m.visibleRows = l.visibleRows
      /\ m.selected = l.selected /\ m.scroll = l.scroll
  BY <1>1, <1>2, <1>3 DEF ListModel
<1>5. InWindow(l) => InWindow(m)
  BY <1>2, <1>4 DEF InWindow
<1> QED
  BY <1>4, <1>5 DEF Keeps, IsList, m

LEMMA KeepsBoth ==
  ASSUME NEW l, NEW m, NEW n, Keeps(l, m), Keeps(m, n)
  PROVE  Keeps(l, n)
  BY DEF Keeps

StaysIn(l, s, o) ==
  InWindow(l) => s \in -1..(Len(l.filtered) - 1) \cup {0} /\ o <= T!AtLeast(s, 0)

LEMMA MoveKeeps ==
  ASSUME NEW l, IsList(l), NEW m, NEW s \in Int, NEW o \in Nat, MovesTo(l, m, s, o), StaysIn(l, s, o)
  PROVE  Keeps(l, m)
<1>1. IsList(m) /\ m.selected = s /\ m.scroll = o /\ m.visibleRows = l.visibleRows /\ m.filtered = l.filtered
  BY Placed
<1> QED
  BY <1>1 DEF Keeps, InWindow, StaysIn

\* The window follows downwards.
LEMMA FollowKeeps ==
  ASSUME NEW l, IsList(l), NEW s \in Int, InWindow(l) => s \in -1..(Len(l.filtered) - 1) \cup {0} /\ l.scroll <= T!AtLeast(s, 0)
  PROVE  Keeps(l, T!Followed([l EXCEPT !.selected = s]))
<1> DEFINE x == [l EXCEPT !.selected = s]
           o == IF s >= l.scroll + l.visibleRows THEN s - l.visibleRows + 1 ELSE l.scroll
<1>1. l.scroll \in Nat /\ l.visibleRows \in Int /\ l.selected \in Int /\ Len(l.filtered) \in Nat
  BY ListFields
<1>2. o \in Nat
  BY <1>1
<1>3. MovesTo(l, T!Followed(x), s, o)
  <2>1. l \in ListModel
    BY DEF IsList
  <2>2. x.selected = s /\ x.scroll = l.scroll /\ x.visibleRows = l.visibleRows /\ x = [x EXCEPT !.scroll = l.scroll]
    BY <2>1 DEF ListModel
  <2>3. T!Followed(x) = [x EXCEPT !.scroll = o]
    <3> HIDE DEF x
    <3> QED
      BY <2>2 DEF T!Followed
  <2> QED
    BY <2>3 DEF MovesTo
<1>4. StaysIn(l, s, o)
  BY <1>1 DEF StaysIn, InWindow, T!AtLeast
<1> HIDE DEF o, x
<1>5. Keeps(l, T!Followed(x))
  BY <1>2, <1>3, <1>4, MoveKeeps
<1> QED
  BY <1>5 DEF x

LEMMA MovedKeeps ==
  ASSUME NEW l, IsList(l), NEW key \in T!Moves
  PROVE  Keeps(l, T!Moved(l, key))
<1> DEFINE n == Len(l.filtered)
           v == l.visibleRows
<1>1. l.scroll \in Nat /\ v \in Int /\ l.selected \in Int /\ n \in Nat
  BY ListFields
<1>2. l \in ListModel
  BY DEF IsList
<1>3. Keeps(l, l)
  BY DEF Keeps
<1>4. CASE key = "up"
  <2>1. CASE l.selected > 0
    <3> DEFINE s == l.selected - 1
               o == IF s < l.scroll THEN s ELSE l.scroll
    <3>1. T!Moved(l, key) = [l EXCEPT !.selected = @ - 1, !.scroll = IF l.selected - 1 < @ THEN l.selected - 1 ELSE @]
      BY <1>4, <2>1 DEF T!Moved
    <3>2. MovesTo(l, T!Moved(l, key), s, o)
      BY <1>2, <3>1 DEF MovesTo, ListModel
    <3>3. s \in Int /\ o \in Nat /\ s >= 0 /\ o <= s
      BY <1>1, <2>1
    <3>4. StaysIn(l, s, o)
      <4>1. InWindow(l) => s <= n - 1
        BY <1>1, <2>1 DEF InWindow
      <4> HIDE DEF o
      <4> QED
        BY <1>1, <3>3, <4>1 DEF StaysIn, T!AtLeast
    <3> HIDE DEF s, o
    <3> QED
      BY <3>2, <3>3, <3>4, MoveKeeps
  <2> QED
    BY <1>3, <1>4, <2>1 DEF T!Moved
<1>5. CASE key = "down"
  <2>1. CASE l.selected < n - 1
    <3> DEFINE s == l.selected + 1
    <3>1. T!Moved(l, key) = T!Followed([l EXCEPT !.selected = s])
      BY <1>5, <2>1 DEF T!Moved
    <3>2. s \in Int /\ (InWindow(l) => s \in -1..(n - 1) \cup {0} /\ l.scroll <= T!AtLeast(s, 0))
      BY <1>1, <2>1 DEF InWindow, T!AtLeast
    <3> HIDE DEF s
    <3> QED
      BY <3>1, <3>2, FollowKeeps
  <2> QED
    BY <1>3, <1>5, <2>1 DEF T!Moved
<1>6. CASE key = "pgup"
  <2> DEFINE s == IF l.selected < v THEN 0 ELSE l.selected - v
  <2>1. T!Moved(l, key) = [l EXCEPT !.selected = s, !.scroll = s]
    BY <1>6 DEF T!Moved
  <2>2. MovesTo(l, T!Moved(l, key), s, s)
    BY <2>1 DEF MovesTo
  <2>3. s \in Nat /\ StaysIn(l, s, s)
    BY <1>1 DEF StaysIn, InWindow, T!AtLeast
  <2> HIDE DEF s
  <2> QED
    BY <2>2, <2>3, MoveKeeps
<1>7. CASE key = "pgdown"
  <2> DEFINE s == IF l.selected + v >= n THEN n - 1 ELSE l.selected + v
  <2>1. T!Moved(l, key) = T!Followed([l EXCEPT !.selected = s])
    BY <1>7 DEF T!Moved
  <2>2. s \in Int /\ (InWindow(l) => s \in -1..(n - 1) \cup {0} /\ l.scroll <= T!AtLeast(s, 0))
    BY <1>1 DEF InWindow, T!AtLeast
  <2> HIDE DEF s
  <2> QED
    BY <2>1, <2>2, FollowKeeps
<1>8. CASE key = "home"
  <2>1. MovesTo(l, T!Moved(l, key), 0, 0)
    BY <1>8 DEF MovesTo, T!Moved
  <2>2. StaysIn(l, 0, 0)
    BY DEF StaysIn, T!AtLeast
  <2> QED
    BY <2>1, <2>2, MoveKeeps
<1>9. CASE key = "end"
  <2> DEFINE s == n - 1
             o == IF n - 1 >= v THEN n - v ELSE l.scroll
  <2>1. T!Moved(l, key) = [l EXCEPT !.selected = n - 1, !.scroll = IF n - 1 >= v THEN n - v ELSE @]
    BY <1>9 DEF T!Moved
  <2>2. MovesTo(l, T!Moved(l, key), s, o)
    BY <1>2, <2>1 DEF MovesTo, ListModel
  <2>3. s \in Int /\ o \in Nat /\ StaysIn(l, s, o)
    BY <1>1 DEF StaysIn, InWindow, T!AtLeast
  <2> HIDE DEF s, o
  <2> QED
    BY <2>2, <2>3, MoveKeeps
<1> QED
  BY <1>4, <1>5, <1>6, <1>7, <1>8, <1>9 DEF T!Moves

LEMMA KeysKeep ==
  ASSUME NEW l, IsList(l), NEW m \in T!ListKeys(l)
  PROVE  Keeps(l, m)
<1>1. l \in ListModel
  BY DEF IsList
<1>2. l.filter \in T!Filters /\ l.input \in T!Filters /\ TRUE \in BOOLEAN /\ FALSE \in BOOLEAN
  BY <1>1 DEF ListModel
<1>3. CASE m = T!applyFilters([l EXCEPT !.filter = l.input, !.filterActive = FALSE])
  <2> DEFINE x == [l EXCEPT !.filter = l.input, !.filterActive = FALSE]
  <2>1. Keeps(l, x)
    <3>1. x \in ListModel /\ x.filtered = l.filtered /\ x.visibleRows = l.visibleRows
          /\ x.selected = l.selected /\ x.scroll = l.scroll
      BY <1>1 DEF ListModel
    <3> QED
      BY <3>1 DEF Keeps, IsList, InWindow
  <2> HIDE DEF x
  <2>2. Keeps(x, T!applyFilters(x))
    BY <2>1, FilterKeeps DEF Keeps
  <2> QED
    BY <1>3, <2>1, <2>2, KeepsBoth DEF x
<1>4. ASSUME \/ m = [l EXCEPT !.filterActive = FALSE, !.input = l.filter]
             \/ \E text \in T!Filters : m = [l EXCEPT !.input = text]
             \/ m = [l EXCEPT !.filterActive = TRUE, !.input = l.filter]
      PROVE  Keeps(l, m)
  <2>1. m \in ListModel /\ m.filtered = l.filtered /\ m.visibleRows = l.visibleRows
        /\ m.selected = l.selected /\ m.scroll = l.scroll
    BY <1>1, <1>4 DEF ListModel
  <2> QED
    BY <2>1 DEF Keeps, IsList, InWindow
<1>5. ASSUME NEW key \in T!Sorts, m = T!sortProcesses([l EXCEPT !.sortBy = key]) PROVE Keeps(l, m)
  <2> DEFINE x == [l EXCEPT !.sortBy = key]
  <2>1. Keeps(l, x)
    <3>1. x \in ListModel /\ x.filtered = l.filtered /\ x.visibleRows = l.visibleRows
          /\ x.selected = l.selected /\ x.scroll = l.scroll
      BY <1>1 DEF ListModel
    <3> QED
      BY <3>1 DEF Keeps, IsList, InWindow
  <2> HIDE DEF x
  <2>2. Keeps(x, T!sortProcesses(x))
    BY <2>1, SortKeeps DEF Keeps
  <2> QED
    BY <1>5, <2>1, <2>2, KeepsBoth DEF x
<1> QED
  BY <1>3, <1>4, <1>5 DEF T!ListKeys, T!Dialog, T!Browsing

\* Only a move takes the selection before the first process, or from there.
SamePlace(l, m) == l.selected = -1 <=> m.selected = -1

LEMMA FilterPlaces ==
  ASSUME NEW l, IsList(l)
  PROVE  SamePlace(l, T!applyFilters(l))
<1> DEFINE kept == T!Filtered(l)
<1>1. l \in ListModel /\ l.selected \in Int
  BY DEF IsList, ListModel
<1>2. Len(kept) \in Nat
  <2>1. l.processes \in Seq(Processes)
    BY <1>1 DEF ListModel
  <2>2. kept \in Seq(Processes)
    BY <2>1, KeptSame, KeptElements DEF T!Filtered
  <2> QED
    BY <2>2
<1> HIDE DEF kept
<1>3. T!applyFilters(l).selected = IF l.selected >= Len(kept) THEN 0 ELSE l.selected
  BY <1>1 DEF T!applyFilters, ListModel, kept
<1> QED
  BY <1>1, <1>2, <1>3 DEF SamePlace

LEMMA SortPlaces ==
  ASSUME NEW l, IsList(l)
  PROVE  SamePlace(l, T!sortProcesses(l))
  BY DEF SamePlace, T!sortProcesses, IsList, ListModel

LEMMA KeysPlace ==
  ASSUME NEW l, IsList(l), NEW m \in T!ListKeys(l)
  PROVE  SamePlace(l, m)
<1>1. l \in ListModel /\ l.filter \in T!Filters /\ l.input \in T!Filters /\ TRUE \in BOOLEAN /\ FALSE \in BOOLEAN
  BY DEF IsList, ListModel
<1>2. CASE m = T!applyFilters([l EXCEPT !.filter = l.input, !.filterActive = FALSE])
  <2> DEFINE x == [l EXCEPT !.filter = l.input, !.filterActive = FALSE]
  <2>1. IsList(x) /\ x.selected = l.selected
    BY <1>1 DEF IsList, ListModel
  <2> HIDE DEF x
  <2> QED
    BY <1>2, <2>1, FilterPlaces DEF SamePlace, x
<1>3. ASSUME \/ m = [l EXCEPT !.filterActive = FALSE, !.input = l.filter]
             \/ \E text \in T!Filters : m = [l EXCEPT !.input = text]
             \/ m = [l EXCEPT !.filterActive = TRUE, !.input = l.filter]
      PROVE  SamePlace(l, m)
  BY <1>1, <1>3 DEF SamePlace, ListModel
<1>4. ASSUME NEW key \in T!Sorts, m = T!sortProcesses([l EXCEPT !.sortBy = key]) PROVE SamePlace(l, m)
  <2> DEFINE x == [l EXCEPT !.sortBy = key]
  <2>1. IsList(x) /\ x.selected = l.selected
    BY <1>1 DEF IsList, ListModel
  <2> HIDE DEF x
  <2> QED
    BY <1>4, <2>1, SortPlaces DEF SamePlace, x
<1> QED
  BY <1>2, <1>3, <1>4 DEF T!ListKeys, T!Dialog, T!Browsing

\* Where a move selects: before the first process just where it strays.
LEMMA MovedStrays ==
  ASSUME NEW l, IsList(l), InWindow(l), NEW key \in T!Moves, NEW stray, stray <=> l.selected = -1
  PROVE  T!Strays(l, stray, key) <=> T!Moved(l, key).selected = -1
<1> DEFINE n == Len(l.filtered)
           v == l.visibleRows
           to == T!Moved(l, key).selected
<1>1. /\ v \in Int /\ v >= 1 /\ l.selected \in Int /\ l.scroll \in Nat /\ n \in Nat
      /\ l.selected \in -1..(n - 1) \cup {0} /\ l \in ListModel
  BY ListFields DEF InWindow, IsList
<1>2. \A s \in Int : T!Followed([l EXCEPT !.selected = s]).selected = s
  <2> SUFFICES ASSUME NEW s \in Int PROVE T!Followed([l EXCEPT !.selected = s]).selected = s
    OBVIOUS
  <2> DEFINE x == [l EXCEPT !.selected = s]
  <2>1. x.selected = s /\ \A o \in Int : [x EXCEPT !.scroll = o].selected = s
    BY <1>1 DEF ListModel
  <2>2. x.scroll \in Nat /\ x.visibleRows \in Int
    BY <1>1 DEF ListModel
  <2> HIDE DEF x
  <2>3. x.selected - x.visibleRows + 1 \in Int
    BY <2>1, <2>2
  <2> QED
    BY <2>1, <2>3 DEF T!Followed, x
<1>3. CASE key = "up"
  <2>1. to = IF l.selected > 0 THEN l.selected - 1 ELSE l.selected
    BY <1>1, <1>3 DEF T!Moved, ListModel
  <2> HIDE DEF to, n, v
  <2> QED
    BY <1>1, <1>3, <2>1 DEF T!Strays, n, to
<1>4. CASE key = "down"
  <2>1. to = IF l.selected < n - 1 THEN l.selected + 1 ELSE l.selected
    <3>1. T!Moved(l, key) = IF l.selected < n - 1 THEN T!Followed([l EXCEPT !.selected = l.selected + 1]) ELSE l
      BY <1>4 DEF T!Moved
    <3>2. T!Followed([l EXCEPT !.selected = l.selected + 1]).selected = l.selected + 1
      <4>1. l.selected + 1 \in Int
        BY <1>1
      <4> QED
        BY <1>2, <4>1
    <3> QED
      BY <3>1, <3>2
  <2> HIDE DEF to, n, v
  <2> QED
    BY <1>1, <1>4, <2>1 DEF T!Strays, n, to
<1>5. CASE key = "pgup"
  <2>1. to = IF l.selected < v THEN 0 ELSE l.selected - v
    BY <1>1, <1>5 DEF T!Moved, ListModel
  <2> HIDE DEF to, n, v
  <2> QED
    BY <1>1, <1>5, <2>1 DEF T!Strays, n, to
<1>6. CASE key = "pgdown"
  <2> DEFINE s == IF l.selected + v >= n THEN n - 1 ELSE l.selected + v
  <2>1. T!Moved(l, key) = T!Followed([l EXCEPT !.selected = s])
    BY <1>6 DEF T!Moved
  <2>2. s \in Int
    BY <1>1
  <2>3. to = s
    <3> HIDE DEF s
    <3> QED
      BY <1>2, <2>1, <2>2
  <2> HIDE DEF to, n, v
  <2> QED
    BY <1>1, <1>6, <2>3 DEF T!Strays, n, to
<1>7. CASE key = "home"
  <2>1. to = 0
    BY <1>1, <1>7 DEF T!Moved, ListModel
  <2> QED
    BY <1>7, <2>1 DEF T!Strays
<1>8. CASE key = "end"
  <2>1. to = n - 1
    BY <1>1, <1>8 DEF T!Moved, ListModel
  <2> HIDE DEF to, n, v
  <2> QED
    BY <1>1, <1>8, <2>1 DEF T!Strays, n, to
<1> QED
  BY <1>3, <1>4, <1>5, <1>6, <1>7, <1>8 DEF T!Moves

LEMMA AnswerIsList ==
  ASSUME NEW ps \in SUBSET Processes, NEW key \in T!Sorts
  PROVE  T!Sorted(T!SetToSeq(ps), key) \in Seq(Processes)
<1>1. IsFiniteSet(ps)
  BY FS_Subset, TerminalAssumption
<1>2. PICK n \in Nat : n = Cardinality(ps) /\ T!Cardinality(ps) = n
  <2>1. T!Cardinality(ps) = Cardinality(ps)
    BY DEF T!Cardinality, Cardinality
  <2> QED
    BY <1>1, <2>1, FS_CardinalityType
<1>3. \E f \in [1..n -> ps] : T!IsInjective(f)
  <2>1. ExistsBijection(1..n, ps)
    BY <1>1, <1>2, FS_CardinalityType
  <2>2. PICK f : f \in Bijection(1..n, ps)
    BY <2>1 DEF ExistsBijection
  <2>3. f \in [1..n -> ps] /\ \A a, b \in 1..n : f[a] = f[b] => a = b
    BY <2>2 DEF Bijection, Injection, Surjection, IsInjective
  <2> QED
    BY <2>3 DEF T!IsInjective
<1>4. T!SetToSeq(ps) = CHOOSE f \in [1..n -> ps] : T!IsInjective(f)
  BY <1>2 DEF T!SetToSeq
<1>5. T!SetToSeq(ps) \in [1..n -> ps]
  BY <1>3, <1>4
<1>6. T!SetToSeq(ps) \in Seq(Processes)
  BY <1>5
<1> QED
  BY <1>6, SortedRight

LEMMA DataKeeps ==
  ASSUME NEW l, IsList(l), NEW answer \in Seq(Processes)
  PROVE  Keeps(l, T!SetData(l, answer))
<1> DEFINE x == [l EXCEPT !.processes = answer]
<1>1. l \in ListModel
  BY DEF IsList
<1>2. Keeps(l, x)
  <2>1. x \in ListModel /\ x.filtered = l.filtered /\ x.visibleRows = l.visibleRows
        /\ x.selected = l.selected /\ x.scroll = l.scroll
    BY <1>1 DEF ListModel
  <2> QED
    BY <2>1 DEF Keeps, IsList, InWindow
<1> HIDE DEF x
<1>3. Keeps(x, T!applyFilters(x))
  BY <1>2, FilterKeeps DEF Keeps
<1>4. Keeps(T!applyFilters(x), T!sortProcesses(T!applyFilters(x)))
  BY <1>3, SortKeeps DEF Keeps
<1>5. Keeps(l, T!sortProcesses(T!applyFilters(x)))
  BY <1>2, <1>3, <1>4, KeepsBoth
<1> QED
  BY <1>5 DEF T!SetData, x

-----------------------------------------------------------------------------
(***************************************************************************)
(* The terminal's process list: what it shows.                             *)
(***************************************************************************)
\* Nothing changed of what the list shows and why.
SameView(l, m) ==
  /\ m.processes = l.processes /\ m.filter = l.filter
  /\ m.filtered = l.filtered /\ m.sortBy = l.sortBy

LEMMA SameViewIsCurrent ==
  ASSUME NEW l, NEW m, SameView(l, m), T!IsCurrent(l)
  PROVE  T!IsCurrent(m)
<1>1. T!Filtered(m) = T!Filtered(l)
  BY DEF SameView, T!Filtered
<1> QED
  BY <1>1 DEF SameView, T!IsCurrent

LEMMA FilteredIsList ==
  ASSUME NEW l, IsList(l)
  PROVE  T!Filtered(l) \in Seq(Processes)
<1>1. l.processes \in Seq(Processes)
  BY ListFields
<1> QED
  BY <1>1, KeptSame, KeptElements DEF T!Filtered

LEMMA FilterIsCurrent ==
  ASSUME NEW l, IsList(l)
  PROVE  T!IsCurrent(T!applyFilters(l))
<1> DEFINE kept == T!Filtered(l)
           m == T!applyFilters(l)
<1>1. m.processes = l.processes /\ m.filter = l.filter /\ m.filtered = kept
  BY DEF T!applyFilters, IsList, ListModel
<1> HIDE DEF m
<1>2. T!Filtered(m) = kept
  BY <1>1 DEF T!Filtered
<1>3. kept \in T!Arrangements(kept)
  BY FilteredIsList, ArrangedAsIs
<1> HIDE DEF kept
<1>4. T!IsCurrent(m)
  BY <1>1, <1>2, <1>3 DEF T!IsCurrent
<1> QED
  BY <1>4 DEF m

LEMMA SortIsCurrent ==
  ASSUME NEW l, IsList(l), l.filtered \in T!Arrangements(T!Filtered(l))
  PROVE  T!IsCurrent(T!sortProcesses(l))
<1> DEFINE sorted == T!Sorted(l.filtered, l.sortBy)
           m == T!sortProcesses(l)
<1>1. m.processes = l.processes /\ m.filter = l.filter /\ m.filtered = sorted /\ m.sortBy = l.sortBy
  BY DEF T!sortProcesses, IsList, ListModel
<1>2. sorted \in T!Arrangements(l.filtered) /\ T!Falling(sorted, l.sortBy)
  BY ListFields, SortedRight
<1> HIDE DEF m, sorted
<1>3. sorted \in T!Arrangements(T!Filtered(l))
  BY <1>2, FilteredIsList, ArrangedTwice
<1>4. T!Filtered(m) = T!Filtered(l)
  BY <1>1 DEF T!Filtered
<1>5. T!IsCurrent(m)
  BY <1>1, <1>2, <1>3, <1>4 DEF T!IsCurrent
<1> QED
  BY <1>5 DEF m

LEMMA MovedShowsTheSame ==
  ASSUME NEW l, IsList(l), NEW key \in T!Moves
  PROVE  SameView(l, T!Moved(l, key))
<1>1. l \in ListModel
  BY DEF IsList
<1>2. \A s : SameView(l, T!Followed([l EXCEPT !.selected = s]))
  BY <1>1 DEF ListModel, SameView, T!Followed
<1>3. \A s, o : SameView(l, [l EXCEPT !.selected = s, !.scroll = o])
  BY <1>1 DEF ListModel, SameView
<1>4. CASE key = "up"
  BY <1>1, <1>4 DEF T!Moved, ListModel, SameView
<1>5. CASE key = "down"
  BY <1>1, <1>2, <1>5 DEF T!Moved, ListModel, SameView
<1>6. CASE key = "pgup" \/ key = "home"
  BY <1>3, <1>6 DEF T!Moved
<1>7. CASE key = "pgdown"
  BY <1>2, <1>7 DEF T!Moved
<1>8. CASE key = "end"
  BY <1>3, <1>8 DEF T!Moved
<1> QED
  BY <1>4, <1>5, <1>6, <1>7, <1>8 DEF T!Moves

LEMMA KeysAreCurrent ==
  ASSUME NEW l, IsList(l), T!IsCurrent(l), NEW m \in T!ListKeys(l)
  PROVE  T!IsCurrent(m)
<1>1. l \in ListModel /\ l.filter \in T!Filters /\ l.input \in T!Filters
  BY DEF IsList, ListModel
<1>2. CASE m = T!applyFilters([l EXCEPT !.filter = l.input, !.filterActive = FALSE])
  <2>1. IsList([l EXCEPT !.filter = l.input, !.filterActive = FALSE])
    BY <1>1 DEF IsList, ListModel
  <2> QED
    BY <1>2, <2>1, FilterIsCurrent
<1>3. ASSUME \/ m = [l EXCEPT !.filterActive = FALSE, !.input = l.filter]
             \/ \E text \in T!Filters : m = [l EXCEPT !.input = text]
             \/ m = [l EXCEPT !.filterActive = TRUE, !.input = l.filter]
      PROVE  T!IsCurrent(m)
  <2>1. SameView(l, m)
    BY <1>1, <1>3 DEF ListModel, SameView
  <2> QED
    BY <2>1, SameViewIsCurrent
<1>4. ASSUME NEW key \in T!Sorts, m = T!sortProcesses([l EXCEPT !.sortBy = key]) PROVE T!IsCurrent(m)
  <2> DEFINE x == [l EXCEPT !.sortBy = key]
  <2>1. IsList(x) /\ x.processes = l.processes /\ x.filter = l.filter /\ x.filtered = l.filtered
    BY <1>1 DEF IsList, ListModel
  <2> HIDE DEF x
  <2>2. T!Filtered(x) = T!Filtered(l)
    BY <2>1 DEF T!Filtered
  <2>3. x.filtered \in T!Arrangements(T!Filtered(x))
    BY <2>1, <2>2 DEF T!IsCurrent
  <2>4. T!IsCurrent(T!sortProcesses(x))
    BY <2>1, <2>3, SortIsCurrent
  <2> QED
    BY <1>4, <2>4 DEF x
<1> QED
  BY <1>2, <1>3, <1>4 DEF T!ListKeys, T!Dialog, T!Browsing

LEMMA DataIsCurrent ==
  ASSUME NEW l, IsList(l), NEW answer \in Seq(Processes)
  PROVE  T!IsCurrent(T!SetData(l, answer))
<1> DEFINE x == [l EXCEPT !.processes = answer]
           y == T!applyFilters(x)
<1>1. IsList(x)
  BY DEF IsList, ListModel
<1> HIDE DEF x
<1>2. IsList(y) /\ T!IsCurrent(y)
  BY <1>1, FilterKeeps, FilterIsCurrent DEF Keeps
<1> HIDE DEF y
<1>3. T!IsCurrent(T!sortProcesses(y))
  BY <1>2, SortIsCurrent DEF T!IsCurrent
<1> QED
  BY <1>3 DEF T!SetData, x, y

LEMMA DataPlaces ==
  ASSUME NEW l, IsList(l), NEW answer \in Seq(Processes)
  PROVE  SamePlace(l, T!SetData(l, answer))
<1> DEFINE x == [l EXCEPT !.processes = answer]
           y == T!applyFilters(x)
<1>1. IsList(x) /\ x.selected = l.selected
  BY DEF IsList, ListModel
<1> HIDE DEF x
<1>2. IsList(y) /\ SamePlace(x, y)
  BY <1>1, FilterKeeps, FilterPlaces DEF Keeps
<1> HIDE DEF y
<1>3. SamePlace(y, T!sortProcesses(y))
  BY <1>2, SortPlaces
<1> QED
  BY <1>1, <1>2, <1>3 DEF SamePlace, T!SetData, x, y

\* Only the help is ever drawn out of its text.
LEMMA DrawnInHelp ==
  ASSUME NEW v, NEW failing \in BOOLEAN, NEW l, IsList(l), NEW h, T!Drawn(v, failing, l, h) = "panicked"
  PROVE  v = "help"
<1>1. l.scroll \in Nat /\ l.visibleRows \in Int
  BY ListFields
<1>2. T!RowsDrawn(l) \subseteq Nat
  BY <1>1 DEF T!RowsDrawn
<1> QED
  BY <1>2 DEF T!Drawn

LEMMA TerminalInit == T!Init => TerminalInv
<1> SUFFICES ASSUME T!Init PROVE TerminalInv
  OBVIOUS
<1> DEFINE l == T!NewProcessListModel
<1>1. l \in ListModel
  <2>1. << >> \in Seq(Processes) /\ FirstVisible \in Int /\ "cpu" \in T!Sorts /\ "all" \in T!Filters
    BY TerminalAssumption DEF T!Filters, T!Sorts
  <2> QED
    BY <2>1 DEF ListModel, T!NewProcessListModel
<1>2. InWindow(l)
  BY TerminalAssumption DEF InWindow, T!NewProcessListModel, T!AtLeast
<1>4. l.selected = 0
  BY DEF T!NewProcessListModel
<1>3. T!IsCurrent(l)
  <2>1. l.processes = << >> /\ l.filtered = << >>
    BY DEF T!NewProcessListModel
  <2> HIDE DEF l
  <2>2. << >> \in Seq(Processes) /\ Len(<< >>) = 0
    OBVIOUS
  <2>3. << >> \in T!Arrangements(<< >>)
    BY <2>2, ArrangedAsIs
  <2>4. T!Filtered(l) = << >>
    <3>1. Len(T!Filtered(l)) <= 0
      BY <2>1, <2>2, KeptSame, KeptLength DEF T!Filtered
    <3>2. T!Filtered(l) \in Seq(Processes)
      BY <1>1, FilteredIsList DEF IsList
    <3> QED
      BY <3>1, <3>2
  <2> QED
    BY <2>1, <2>3, <2>4 DEF T!IsCurrent
<1>5. list = l /\ cramped = FALSE /\ strayed = FALSE
  BY DEF T!Init
<1> HIDE DEF l
<1>6. IsList(list) /\ T!IsCurrent(list) /\ InWindow(list)
  BY <1>1, <1>2, <1>3, <1>5 DEF IsList
<1>7. strayed <=> list.selected = -1
  BY <1>4, <1>5
<1>8. cramped \in BOOLEAN /\ err \in BOOLEAN /\ (life = "panicked" => view = "help")
  BY DEF T!Init
<1> QED
  BY <1>6, <1>7, <1>8 DEF TerminalInv

LEMMA TerminalStep ==
  ASSUME TerminalInv, T!Next
  PROVE  TerminalInv'
<1>1. /\ IsList(list) /\ T!IsCurrent(list) /\ cramped \in BOOLEAN /\ err \in BOOLEAN
      /\ ~cramped => InWindow(list) /\ (strayed <=> list.selected = -1)
      /\ life = "running"
  BY DEF TerminalInv, T!Next, T!Quit, T!HelpKey, T!SwitchView, T!Tick, T!Refresh, T!ListKey, T!HelpViewKey,
         T!WindowSize, T!DataMsg, T!DataError, T!Running
<1>2. ASSUME T!Redraw, err' \in BOOLEAN, IsList(list') PROVE life' = "panicked" => view' = "help"
  BY <1>2, DrawnInHelp DEF T!Redraw
<1>3. CASE T!Quit
  BY <1>1, <1>3 DEF T!Quit, TerminalInv
<1>4. CASE T!HelpKey \/ T!SwitchView \/ T!Tick \/ T!HelpViewKey
  <2>1. T!Redraw /\ UNCHANGED <<err, list, cramped, strayed>>
    BY <1>4 DEF T!HelpKey, T!SwitchView, T!Tick, T!Refresh, T!HelpViewKey
  <2> QED
    BY <1>1, <1>2, <2>1 DEF TerminalInv
<1>5. CASE T!DataError
  <2>1. T!Redraw /\ UNCHANGED <<list, cramped, strayed>> /\ err' = TRUE
    BY <1>5 DEF T!DataError
  <2> QED
    BY <1>1, <1>2, <2>1 DEF TerminalInv
<1>6. CASE T!ListKey
  <2>1. T!Redraw /\ UNCHANGED <<err, cramped>>
    BY <1>6 DEF T!ListKey
  <2>2. CASE list' \in T!ListKeys(list) /\ UNCHANGED strayed
    <3>1. Keeps(list, list') /\ SamePlace(list, list')
      BY <1>1, <2>2, KeysKeep, KeysPlace
    <3>2. T!IsCurrent(list')
      BY <1>1, <2>2, KeysAreCurrent
    <3> QED
      BY <1>1, <1>2, <2>1, <2>2, <3>1, <3>2 DEF TerminalInv, Keeps, SamePlace
  <2>3. ASSUME NEW key \in T!Moves, list' = T!Moved(list, key), strayed' = T!Strays(list, strayed, key)
        PROVE  TerminalInv'
    <3>1. Keeps(list, list') /\ T!IsCurrent(list')
      BY <1>1, <2>3, MovedKeeps, MovedShowsTheSame, SameViewIsCurrent
    <3>2. ASSUME ~cramped PROVE strayed' <=> list'.selected = -1
      BY <1>1, <2>3, <3>2, MovedStrays
    <3> QED
      BY <1>1, <1>2, <2>1, <3>1, <3>2 DEF TerminalInv, Keeps
  <2> QED
    BY <1>6, <2>2, <2>3 DEF T!ListKey
<1>7. CASE T!DataMsg
  <2>1. T!Redraw /\ UNCHANGED <<cramped, strayed>> /\ err' = FALSE
    BY <1>7 DEF T!DataMsg
  <2>2. PICK ps \in SUBSET Processes, key \in T!Sorts : list' = T!SetData(list, T!Sorted(T!SetToSeq(ps), key))
    BY <1>7 DEF T!DataMsg
  <2>3. Keeps(list, list') /\ SamePlace(list, list')
    BY <1>1, <2>2, AnswerIsList, DataKeeps, DataPlaces
  <2>4. T!IsCurrent(list')
    BY <1>1, <2>2, AnswerIsList, DataIsCurrent
  <2> QED
    BY <1>1, <1>2, <2>1, <2>3, <2>4 DEF TerminalInv, Keeps, SamePlace
<1>8. ASSUME NEW height \in Heights, T!WindowSize(height) PROVE TerminalInv'
  <2>1. /\ T!Redraw /\ UNCHANGED err /\ list' = [list EXCEPT !.visibleRows = height - 8]
        /\ cramped' = (cramped \/ height <= 8) /\ height \in Nat /\ UNCHANGED strayed
    BY <1>8, TerminalAssumption DEF T!WindowSize
  <2>2. list \in ListModel
    BY <1>1 DEF IsList
  <2>3. /\ list' \in ListModel /\ list'.visibleRows = height - 8
        /\ list'.selected = list.selected /\ list'.scroll = list.scroll /\ list'.filtered = list.filtered
    BY <2>1, <2>2, SMTT(30) DEF ListModel
  <2>4. IsList(list') /\ cramped' \in BOOLEAN
    BY <2>1, <2>3 DEF IsList
  <2>5. ASSUME ~cramped' PROVE InWindow(list') /\ (strayed' <=> list'.selected = -1)
    <3>1. ~cramped /\ ~(height <= 8)
      BY <2>1, <2>5
    <3>2. InWindow(list) /\ (strayed <=> list.selected = -1)
      BY <1>1, <3>1
    <3>3. height - 8 >= 1
      BY <2>1, <3>1
    <3>4. InWindow(list')
      BY <2>3, <3>2, <3>3 DEF InWindow
    <3> QED
      BY <2>1, <2>3, <3>2, <3>4
  <2>6. T!IsCurrent(list')
    <3>1. SameView(list, list')
      BY <2>1, <2>2 DEF ListModel, SameView
    <3> QED
      BY <1>1, <3>1, SameViewIsCurrent
  <2> QED
    BY <1>1, <1>2, <2>1, <2>4, <2>5, <2>6 DEF TerminalInv
<1> QED
  BY <1>3, <1>4, <1>5, <1>6, <1>7, <1>8 DEF T!Next

ListInv == part \in {"list", "help"} => TerminalInv

LEMMA ListInvariance == MCSpec => []ListInv
<1>1. MCInit => ListInv
  BY TerminalInit DEF MCInit, ListInv
<1>2. ListInv /\ [MCNext]_MCvars => ListInv'
  <2> SUFFICES ASSUME ListInv, [MCNext]_MCvars, part' \in {"list", "help"} PROVE TerminalInv'
    BY DEF ListInv
  <2>1. CASE part \in {"list", "help"} /\ T!Next
    BY <2>1, TerminalStep DEF ListInv
  <2>2. CASE part \in {"list", "help"} /\ UNCHANGED terminal
    BY <2>2 DEF ListInv, terminal, TerminalInv
  <2>3. part \in {"list", "help"} /\ (T!Next \/ UNCHANGED terminal)
    BY DEF ListInv, MCNext, MCvars
  <2> QED
    BY <2>1, <2>2, <2>3
<1> QED
  BY <1>1, <1>2, PTL DEF MCSpec

\* Whatever is filtered, refreshed, sorted and resized under it, in terminals of
\* any height and for any processes, the list (tui/processlist.go) draws no row
\* that is not there.  Unless the terminal was ever too low for a row, the window
\* does not begin below the selection, and the selection is in the list, or zero
\* where that is empty; except after a key for the end of an empty list, when it
\* is before the first process until a key selects again.
THEOREM SelectionAlwaysStays == MCSpec => []SelectionStays
<1>1. ListInv => SelectionStays
  <2> SUFFICES ASSUME TerminalInv PROVE T!SelectionStays
    BY DEF ListInv, SelectionStays
  <2>1. /\ list.selected \in Int /\ list.scroll \in Nat /\ list.visibleRows \in Int /\ Len(list.filtered) \in Nat
    BY ListFields DEF TerminalInv
  <2>2. T!RowsDrawn(list) \subseteq 0..(Len(list.filtered) - 1)
    BY <2>1 DEF T!RowsDrawn
  <2>3. ~cramped => list.scroll \in 0..T!AtLeast(list.selected, 0)
    BY <2>1 DEF TerminalInv, InWindow, T!AtLeast
  <2>4. ASSUME ~cramped, ~strayed
        PROVE  \/ list.selected \in 0..(Len(list.filtered) - 1)
               \/ list.filtered = << >> /\ list.selected = 0
    <3>1. list.selected \in -1..(Len(list.filtered) - 1) \cup {0} /\ list.selected # -1
      BY <2>4 DEF TerminalInv, InWindow
    <3>2. list.filtered \in Seq(Processes)
      BY ListFields DEF TerminalInv
    <3>3. CASE Len(list.filtered) = 0
      BY <3>1, <3>2, <3>3
    <3>4. CASE Len(list.filtered) # 0
      BY <2>1, <3>1, <3>4
    <3> QED
      BY <3>3, <3>4
  <2>5. ~cramped /\ strayed => list.selected = -1
    BY DEF TerminalInv
  <2> QED
    BY <2>2, <2>3, <2>4, <2>5 DEF T!SelectionStays, TerminalInv
<1> QED
  BY <1>1, ListInvariance, PTL

\* The list (tui/processlist.go) shows each process of the last answer that
\* matches the filter in force, once, in an order of the sort key in force or,
\* after a filter was entered, as they came: for any processes and ranks, equal
\* ones included, and whenever answers arrive.
THEOREM ListIsAlwaysCurrent == MCSpec => []ListIsCurrent
<1>1. ListInv => ListIsCurrent
  BY DEF ListInv, ListIsCurrent, TerminalInv, T!ListIsCurrent
<1> QED
  BY <1>1, ListInvariance, PTL
=============================================================================
