--------------------------- MODULE ServicesProofs ---------------------------
(***************************************************************************)
(* What the request to CollectMetrics and the orchestrator promise, for    *)
(* any limits, filters, interval, duration and number of processes, and    *)
(* for any number of servers the exporter is given.                        *)
(***************************************************************************)
EXTENDS MCServices, SubsequenceProofs, SequenceTheorems, TLAPS

USE CollectAssumption

-----------------------------------------------------------------------------
(***************************************************************************)
(* A result of success is true, and a request leaves nothing running.      *)
(***************************************************************************)
Waits == {"waiting", "quitting", "stopping"}

LEMMA AwaitedInit == Init => Awaited
BY DEF Init, Awaited

\* What a save counts: an error, in a batch, when one failed.
LEMMA SaveCounts ==
  ASSUME Awaited, Save
  PROVE  /\ UNCHANGED broken
         /\ failed' \in Nat
         /\ mode # "batch" => UNCHANGED failed
         /\ \/ UNCHANGED <<failed, unsaved>>
            \/ mode = "batch" => failed' # 0 /\ unsaved'
<1>1. failed \in Nat
  BY DEF Awaited
<1>2. UNCHANGED broken
  BY DEF Save
<1>3. CASE UNCHANGED <<failed, unsaved>>
  BY <1>1, <1>2, <1>3
<1>4. CASE unsaved' = TRUE /\ failed' = failed + (IF mode = "batch" THEN 1 ELSE 0)
  <2>1. /\ failed' \in Nat
        /\ mode # "batch" => failed' = failed
        /\ mode = "batch" => failed' # 0
    BY <1>1, <1>4
  <2> QED
    BY <1>2, <1>4, <2>1, Zenon
<1> QED
  BY <1>3, <1>4 DEF Save

\* What a step of the goroutine does: it runs only while Execute waits, and
\* counts an error exactly when a collector call failed.
LEMMA GoroutineStep ==
  ASSUME Awaited, Goroutine
  PROVE  /\ at \in Waits /\ mode = "continuous"
         /\ UNCHANGED caller
         /\ failed' \in Nat
         /\ failed' = 0 <=> ~broken'
<1>1. at \in Waits /\ mode = "continuous"
  BY DEF Goroutine, LoopQuit, LoopTick, LoopSystem, LoopProcesses, LoopSave, Awaited, Waits
<1>2. UNCHANGED caller
  BY DEF Goroutine, LoopQuit, LoopTick, LoopSystem, LoopProcesses, LoopSave
<1>3. (failed' = failed + 1 /\ broken' = TRUE) \/ UNCHANGED <<failed, broken>>
  <2>1. CASE LoopSave /\ Save
    BY <1>1, <2>1, SaveCounts
  <2>2. CASE ~(LoopSave /\ Save)
    BY <2>2 DEF Goroutine, LoopQuit, LoopTick, LoopSystem, LoopProcesses, LoopSave, Fail, counts
  <2> QED
    BY <2>1, <2>2
<1>4. failed \in Nat /\ (failed = 0 <=> ~broken)
  BY <1>1 DEF Awaited
<1>5. CASE failed' = failed + 1 /\ broken' = TRUE
  <2>1. failed' \in Nat /\ failed' # 0
    BY <1>4, <1>5
  <2> QED
    BY <1>1, <1>2, <1>5, <2>1
<1>6. CASE UNCHANGED <<failed, broken>>
  BY <1>1, <1>2, <1>4, <1>6
<1> QED
  BY <1>3, <1>5, <1>6

\* A failed collector call, and a step that counts nothing.
LEMMA FailCounts ==
  ASSUME Awaited, Fail
  PROVE  failed' \in Nat /\ failed' # 0 /\ broken' /\ UNCHANGED unsaved
<1>1. failed \in Nat /\ failed' = failed + 1 /\ broken' = TRUE /\ UNCHANGED unsaved
  BY DEF Fail, Awaited
<1> QED
  BY <1>1

LEMMA AwaitedStep == Awaited /\ [Next]_vars => Awaited'
<1> SUFFICES ASSUME Awaited, [Next]_vars PROVE Awaited'
  OBVIOUS
<1> USE DEF caller, goroutine, counts
<1>1. ASSUME NEW limit \in Limits, NEW m \in {"single", "continuous", "batch"},
             Call(m, limit)
      PROVE  Awaited'
  BY <1>1 DEF Call, Awaited
<1>2. CASE Reject
  BY <1>2 DEF Reject, Awaited
<1>3. CASE SingleSystem
  <2>1. CASE Fail
    BY <1>3, <2>1, FailCounts DEF SingleSystem, Awaited
  <2>2. CASE UNCHANGED <<failed, broken, unsaved>>
    BY <1>3, <2>2 DEF SingleSystem, Awaited
  <2> QED
    BY <1>3, <2>1, <2>2 DEF SingleSystem
<1>4. CASE SingleProcesses
  <2>1. CASE Fail
    BY <1>4, <2>1, FailCounts DEF SingleProcesses, Awaited
  <2>2. CASE UNCHANGED <<failed, broken, unsaved>>
    BY <1>4, <2>2 DEF SingleProcesses, Awaited
  <2> QED
    BY <1>4, <2>1, <2>2 DEF SingleProcesses
<1>5. CASE BatchCollect
  <2>1. CASE Fail
    <3>1. failed' \in Nat /\ failed' # 0 /\ broken' /\ UNCHANGED unsaved /\ failed \in Nat
      BY <2>1, FailCounts DEF Awaited
    <3>2. failed' # failed
      BY <2>1, <3>1 DEF Fail
    <3>3. at' = "returned" /\ result' = "failure"
      BY <1>5, <3>2 DEF BatchCollect
    <3>4. mode' = "batch" /\ loop' = "none"
      BY <1>5 DEF BatchCollect, Awaited
    <3> QED
      BY <3>1, <3>3, <3>4 DEF Awaited
  <2>2. CASE at' = "batches" /\ UNCHANGED <<result, failed, broken, unsaved>>
    BY <1>5, <2>2 DEF BatchCollect, Awaited
  <2> QED
    BY <1>5, <2>1, <2>2 DEF BatchCollect
<1>6. CASE BatchRound
  BY <1>6 DEF BatchRound, Awaited
<1>7. CASE BatchEnd
  BY <1>7 DEF BatchEnd, Awaited
<1>8. CASE WaitOver
  BY <1>8 DEF WaitOver, Awaited
<1>9. CASE Abandon
  BY <1>9 DEF Abandon, Awaited, LoopEnded
<1>10. CASE Finish
  <2>1. result' = IF failed = 0 THEN "success" ELSE "failure"
    BY <1>10 DEF Finish, Return
  <2> QED
    BY <1>10, <2>1 DEF Finish, Awaited, LoopEnded
<1>11. CASE Goroutine
  <2>1. UNCHANGED caller /\ at \in Waits /\ mode = "continuous"
        /\ failed' \in Nat /\ (failed' = 0 <=> ~broken')
    BY <1>11, GoroutineStep
  <2> QED
    BY <2>1 DEF Awaited, Waits
<1>12. CASE Cancel
  BY <1>12 DEF Cancel, Awaited
<1>13. CASE Clock
  BY <1>13 DEF Clock, Awaited
<1>14. CASE UNCHANGED vars
  BY <1>14 DEF vars, Awaited
<1>15. CASE CallerSave
  <2>1. at = "saving" /\ UNCHANGED <<caller, goroutine>>
    BY <1>15 DEF CallerSave
  <2>2. /\ UNCHANGED broken /\ failed' \in Nat
        /\ mode # "batch" => UNCHANGED failed
        /\ \/ UNCHANGED <<failed, unsaved>>
           \/ mode = "batch" => failed' # 0 /\ unsaved'
    BY <1>15, SaveCounts DEF CallerSave
  <2>3. failed' = 0 <=> ~broken' /\ (mode' = "batch" => ~unsaved')
    BY <2>1, <2>2 DEF Awaited
  <2> QED
    BY <2>1, <2>2, <2>3 DEF Awaited
<1>16. CASE CallerSaved
  BY <1>16 DEF CallerSaved, Awaited
<1> QED
  BY <1>1, <1>2, <1>3, <1>4, <1>5, <1>6, <1>7, <1>8, <1>9, <1>10, <1>11, <1>12, <1>13,
     <1>14, <1>15, <1>16 DEF Next, Caller

\* Whenever Execute waits for nothing any more, its goroutine is gone.
THEOREM AlwaysAwaited == Spec => []Awaited
BY AwaitedInit, AwaitedStep, PTL DEF Spec

\* A result that says success is true of every collector call, and in a batch
\* of every save of a process; one that says failure names one that failed.
THEOREM SuccessIsAlwaysTrue == Spec => []SuccessIsTrue
<1>1. Awaited => SuccessIsTrue
  BY DEF Awaited, SuccessIsTrue
<1> QED
  BY <1>1, AlwaysAwaited, PTL

\* A request that has returned collects, saves and counts nothing more.
THEOREM NothingEverAfterReturn == Spec => NothingAfterReturn
<1>1. Awaited /\ [Next]_vars => [at = "returned" => UNCHANGED <<loop, counts, result>>]_vars
  <2> SUFFICES ASSUME Awaited, [Next]_vars, at = "returned"
               PROVE  UNCHANGED <<loop, counts, result>>
    OBVIOUS
  <2> USE DEF caller, goroutine, counts
  <2>1. ~Goroutine
    BY GoroutineStep DEF Waits
  <2>2. ~Caller
    BY DEF Caller, SingleSystem, SingleProcesses, CallerSave, CallerSaved, BatchCollect,
           BatchRound, BatchEnd, WaitOver, Abandon, Finish
  <2>3. Cancel \/ Clock \/ UNCHANGED vars
    BY <2>1, <2>2 DEF Next, Call, Reject
  <2> QED
    BY <2>3 DEF Cancel, Clock, vars
<1> QED
  BY <1>1, AlwaysAwaited, PTL DEF Spec, NothingAfterReturn

-----------------------------------------------------------------------------
(***************************************************************************)
(* What is reported was handed over.                                       *)
(***************************************************************************)
\* While a batch request works off what it found, it has counted none of it.
Counting == mode = "batch" /\ at \in {"batches", "saving"}

\* How many of the processes found are reported by now.
Reached == IF Counting /\ start < Len(found) THEN start ELSE Len(found)

ListTypes ==
  /\ found \in Seq(Nat \ {0}) /\ reported \in Seq(Nat \ {0}) /\ saving \in Seq(Nat \ {0})
  /\ handed \in Seq(Nat)
  /\ start \in Nat /\ batchSize \in Nat /\ items \in Nat /\ count \in Nat

\* What is reported is handed over or about to be, and it is the first of
\* what was found.
HandedOver == reported = Processes(handed) \o saving
FirstOnes == mode # "continuous" => reported = SubSeq(found, 1, Reached)
ItemsRight == items + (IF Counting THEN Len(reported) ELSE 0) = Len(handed) + Len(saving)
CountRight ==
  (mode # "continuous" /\ ~Counting) \/ result \in {"success", "failure"} =>
    count = Len(reported)

\* Nothing is left to save but where it is being saved, and nothing is found
\* before it is looked for.
InPlace ==
  /\ saving # << >> => at = "saving" \/ loop = "saving"
  /\ at \in {"idle", "system", "all"} =>
       found = << >> /\ reported = << >> /\ handed = << >> /\ items = 0 /\ start = 0
  /\ at = "processes" => found = << >> /\ reported = << >>
  /\ at = "idle" => mode = "none"
  /\ at = "returned" => result \in {"success", "failure", "error"}

Accounted == ListTypes /\ HandedOver /\ FirstOnes /\ ItemsRight /\ CountRight /\ InPlace

LEMMA UpToIs == ASSUME NEW n \in Nat PROVE UpTo(n) \in Seq(Nat) /\ Len(UpTo(n)) = n /\ \A i \in 1..n : UpTo(n)[i] = i
<1>1. UpTo(n) \in [1..n -> Nat]
  BY DEF UpTo
<1> QED
  BY <1>1 DEF UpTo

LEMMA ProcessNumbers == ASSUME NEW n \in Nat PROVE UpTo(n) \in Seq(Nat \ {0})
<1>1. \A i \in 1..n : i \in Nat \ {0}
  OBVIOUS
<1>2. UpTo(n) \in [1..n -> Nat \ {0}]
  BY <1>1 DEF UpTo
<1> QED
  BY <1>2

\* The processes of two sequences, one after the other.
LEMMA ProcessesOfBoth ==
  ASSUME NEW s \in Seq(Nat), NEW t \in Seq(Nat)
  PROVE  Processes(s) \in Seq(Nat) /\ Processes(s \o t) = Processes(s) \o Processes(t)
<1> DEFINE u == s \o t
           I == {i \in 1..Len(u) : u[i] # System}
           H == {i \in 1..Len(s) : s[i] # System}
           J == {i \in 1..Len(t) : t[i] # System}
<1>1. u \in Seq(Nat) /\ Joined(u, s, t)
  BY DEF Joined
<1>2. Len(s) \in Nat /\ Len(t) \in Nat /\ Len(u) = Len(s) + Len(t)
  BY <1>1 DEF Joined
<1> HIDE DEF u
<1>3. \A i \in 1..Len(t) : i \in J <=> Len(s) + i \in I
  <2>1. \A i \in 1..Len(t) : u[Len(s) + i] = t[i]
    BY <1>1 DEF Joined
  <2>2. \A i \in 1..Len(t) : Len(s) + i \in 1..Len(u)
    BY <1>2
  <2> QED
    BY <2>1, <2>2
<1>4. \A i \in 1..Len(s) : i \in I <=> i \in H
  <2>1. \A i \in 1..Len(s) : i \in 1..Len(u) /\ u[i] = s[i]
    BY <1>1, <1>2 DEF Joined
  <2> QED
    BY <2>1
<1> HIDE DEF I, H, J
<1>5. Kept(s, I) = Kept(s, H)
  <2>1. \A i \in 1..Len(s) : s[i] = s[i] /\ (i \in I <=> i \in H)
    BY <1>4
  <2>2. Len(s) <= Len(s)
    BY <1>2
  <2>3. KeptUpTo(s, I)[Len(s)] = KeptUpTo(s, H)[Len(s)]
    BY <1>2, <2>1, <2>2, KeptAgrees
  <2> QED
    BY <2>3 DEF Kept
<1>6. Joined(Kept(u, I), Kept(s, I), Kept(t, J))
  BY <1>1, <1>3, KeptOfBoth
<1>7. Kept(u, I) \in Seq(Nat) /\ Kept(s, H) \in Seq(Nat) /\ Kept(t, J) \in Seq(Nat)
  BY <1>1, KeptElements
<1>8. Kept(u, I) = Kept(s, H) \o Kept(t, J)
  <2>1. Joined(Kept(u, I), Kept(s, H), Kept(t, J))
    BY <1>5, <1>6, Zenon
  <2> QED
    BY <1>7, <2>1, JoinedIsConcat, Zenon
<1>9. Kept(s, H) = Processes(s) /\ Kept(t, J) = Processes(t) /\ Kept(u, I) = Processes(s \o t)
  BY DEF H, J, I, u, Processes
<1> QED
  BY <1>7, <1>8, <1>9, Zenon

\* A sequence of processes only is all processes.
LEMMA AllProcesses == ASSUME NEW s \in Seq(Nat \ {0}) PROVE s \in Seq(Nat) /\ Processes(s) = s
<1>1. s \in Seq(Nat) /\ \A i \in 1..Len(s) : s[i] # 0
  OBVIOUS
<1>2. \A i \in 1..Len(s) : i \in {j \in 1..Len(s) : s[j] # System}
  BY <1>1 DEF System
<1> QED
  BY <1>1, <1>2, KeptAll DEF Processes

LEMMA NothingOfNothing == << >> \in Seq(Nat) /\ Processes(<< >>) = << >>
<1>1. << >> \in Seq(Nat \ {0})
  OBVIOUS
<1> QED
  BY <1>1, AllProcesses

LEMMA NoProcess == <<System>> \in Seq(Nat) /\ Processes(<<System>>) = << >>
<1> DEFINE s == <<System>>
           I == {j \in 1..Len(s) : s[j] # System}
<1>1. s \in Seq(Nat) /\ \A i \in 1..Len(s) : i \notin I
  BY DEF System
<1> HIDE DEF s, I
<1>2. Kept(s, I) = << >>
  BY <1>1, KeptNone
<1> QED
  BY <1>1, <1>2 DEF s, I, Processes

LEMMA AccountedInit == Init => Accounted
<1> SUFFICES ASSUME Init PROVE Accounted
  OBVIOUS
<1>1. /\ found = << >> /\ reported = << >> /\ handed = << >> /\ saving = << >>
      /\ items = 0 /\ count = 0 /\ start = 0 /\ batchSize = 0
      /\ at = "idle" /\ mode = "none" /\ result = "none"
  BY DEF Init
<1>2. Processes(<< >>) = << >> /\ << >> \o << >> = << >>
  BY NothingOfNothing
<1>3. ListTypes
  BY <1>1 DEF ListTypes
<1>4. HandedOver
  BY <1>1, <1>2 DEF HandedOver
<1>5. FirstOnes
  <2>1. << >> \in Seq(Nat) /\ Reached = Len(<< >>)
    BY <1>1 DEF Reached, Counting
  <2> QED
    BY <1>1, <2>1, SubSeqFull DEF FirstOnes
<1>6. ItemsRight /\ CountRight
  BY <1>1 DEF ItemsRight, CountRight, Counting
<1>7. InPlace
  BY <1>1 DEF InPlace
<1> QED
  BY <1>3, <1>4, <1>5, <1>6, <1>7 DEF Accounted

\* A step that leaves the lists alone keeps the account, where it does not
\* begin or end a batch.
LEMMA AccountStays ==
  ASSUME Accounted, UNCHANGED <<lists, found, start, batchSize, mode>>,
         Counting' <=> Counting,
         result' \in {"success", "failure"} => CountRight',
         InPlace'
  PROVE  Accounted'
<1>1. UNCHANGED <<items, count, reported, saving, handed>>
  BY DEF lists
<1>2. ListTypes' /\ HandedOver'
  BY <1>1 DEF Accounted, ListTypes, HandedOver
<1>3. Reached' = Reached
  BY DEF Reached
<1>4. FirstOnes' /\ ItemsRight'
  BY <1>1, <1>3 DEF Accounted, FirstOnes, ItemsRight
<1>5. CountRight'
  BY <1>1 DEF Accounted, CountRight
<1> QED
  BY <1>2, <1>4, <1>5 DEF Accounted

\* The system metrics are handed over and counted.
LEMMA SystemCounts ==
  ASSUME ListTypes, HandedOver, DeliverSystem
  PROVE  /\ handed' \in Seq(Nat) /\ items' \in Nat
         /\ Len(handed') = Len(handed) + 1 /\ items' = items + 1
         /\ Processes(handed') = Processes(handed)
         /\ HandedOver'
<1>1. handed \in Seq(Nat) /\ items \in Nat /\ handed' = Append(handed, 0) /\ items' = items + 1
  BY DEF ListTypes, DeliverSystem, System
<1>2. handed' \in Seq(Nat) /\ Len(handed') = Len(handed) + 1 /\ handed' = handed \o <<System>>
  BY <1>1 DEF System
<1>3. Processes(handed') = Processes(handed) \o << >> /\ Processes(handed) \in Seq(Nat)
  <2>1. <<System>> \in Seq(Nat)
    BY NoProcess, Zenon
  <2>2. /\ Processes(handed) \in Seq(Nat)
        /\ Processes(handed \o <<System>>) = Processes(handed) \o Processes(<<System>>)
    BY <1>1, <2>1, ProcessesOfBoth, Zenon
  <2> QED
    BY <1>2, <2>2, NoProcess, Zenon
<1>4. Processes(handed') = Processes(handed)
  BY <1>3, ConcatEmptySeq
<1>5. HandedOver'
  BY <1>4 DEF HandedOver, DeliverSystem
<1> QED
  BY <1>1, <1>2, <1>4, <1>5

\* A process saved is handed over, and no longer about to be.
LEMMA SaveMoves ==
  ASSUME ListTypes, HandedOver, Save
  PROVE  /\ saving' \in Seq(Nat \ {0}) /\ handed' \in Seq(Nat)
         /\ Len(handed') + Len(saving') = Len(handed) + Len(saving)
         /\ HandedOver'
<1> DEFINE h == Head(saving)
           s == saving
<1>1. /\ s \in Seq(Nat \ {0}) /\ s # << >> /\ handed \in Seq(Nat) /\ s \in Seq(Nat)
      /\ saving' = Tail(s) /\ handed' = Append(handed, h) /\ reported' = reported
  <2>1. s \in Seq(Nat \ {0}) /\ handed \in Seq(Nat)
    BY DEF ListTypes
  <2>2. s \in Seq(Nat)
    BY <2>1, AllProcesses
  <2> QED
    BY <2>1, <2>2 DEF Save
<1> HIDE DEF h
<1>2. /\ h \in Nat \ {0} /\ Tail(s) \in Seq(Nat \ {0}) /\ Len(Tail(s)) = Len(s) - 1
      /\ Len(s) \in Nat \ {0}
  BY <1>1, HeadTailProperties, EmptySeq DEF h
<1>3. s = <<h>> \o Tail(s)
  <2>1. 1 \in 1..Len(s) /\ Len(s) \in 1..Len(s)
    BY <1>2
  <2>2. SubSeq(s, 1, Len(s)) = <<s[1]>> \o SubSeq(s, 1 + 1, Len(s))
    BY <1>1, <2>1, SubSeqRecursiveFirst
  <2>3. Tail(s) = SubSeq(s, 2, Len(s)) /\ SubSeq(s, 1, Len(s)) = s
    BY <1>1, TailIsSubSeq, SubSeqFull
  <2>4. s[1] = h /\ 1 + 1 = 2
    BY <1>1 DEF h
  <2> QED
    BY <2>2, <2>3, <2>4
<1>4. <<h>> \in Seq(Nat \ {0}) /\ handed' = handed \o <<h>> /\ handed' \in Seq(Nat)
      /\ Len(handed') = Len(handed) + 1
  BY <1>1, <1>2
<1>5. Processes(<<h>>) = <<h>> /\ <<h>> \in Seq(Nat)
  BY <1>4, AllProcesses
<1>6. Processes(handed') = Processes(handed) \o <<h>> /\ Processes(handed) \in Seq(Nat)
  <2>1. /\ Processes(handed) \in Seq(Nat)
        /\ Processes(handed \o <<h>>) = Processes(handed) \o Processes(<<h>>)
    BY <1>1, <1>5, ProcessesOfBoth, Zenon
  <2> QED
    BY <1>4, <1>5, <2>1, Zenon
<1>7. Tail(s) \in Seq(Nat)
  BY <1>2, AllProcesses
<1>8. Processes(handed) \o s = Processes(handed') \o Tail(s)
  <2>1. (Processes(handed) \o <<h>>) \o Tail(s) = Processes(handed) \o (<<h>> \o Tail(s))
    <3>1. Processes(handed) \in Seq(Nat) /\ <<h>> \in Seq(Nat) /\ Tail(s) \in Seq(Nat)
      BY <1>5, <1>6, <1>7, Zenon
    <3> QED
      BY <3>1, ConcatAssociative, SMTT(30)
  <2> QED
    BY <1>3, <1>6, <2>1, Zenon
<1>9. HandedOver'
  BY <1>1, <1>8 DEF HandedOver
<1>10. Len(handed') + Len(saving') = Len(handed) + Len(saving)
  BY <1>1, <1>2, <1>4
<1> QED
  BY <1>1, <1>2, <1>4, <1>9, <1>10

\* Processes put into the result are about to be handed over.
LEMMA ReportAdds ==
  ASSUME ListTypes, HandedOver, saving = << >>, NEW batch \in Seq(Nat \ {0}), Report(batch),
         Processes(handed') = Processes(handed)
  PROVE  /\ reported' \in Seq(Nat \ {0}) /\ saving' \in Seq(Nat \ {0})
         /\ saving' = batch
         /\ Len(reported') = Len(reported) + Len(batch)
         /\ reported' = reported \o batch
         /\ HandedOver'
<1>1. reported \in Seq(Nat \ {0}) /\ handed \in Seq(Nat)
  BY DEF ListTypes
<1>2. reported' = reported \o batch /\ saving' = batch
  BY DEF Report
<1>3. Processes(handed) \in Seq(Nat)
  BY <1>1, NothingOfNothing, ProcessesOfBoth
<1>4. reported = Processes(handed)
  BY <1>3, ConcatEmptySeq DEF HandedOver
<1>5. HandedOver'
  BY <1>2, <1>4 DEF HandedOver
<1> QED
  BY <1>1, <1>2, <1>5

LEMMA CallKeeps ==
  ASSUME Accounted, Awaited, NEW limit \in Limits, NEW m \in {"single", "continuous", "batch"},
         Call(m, limit)
  PROVE  Accounted'
<1>1. /\ at = "idle" /\ mode = "none" /\ found = << >> /\ reported = << >> /\ handed = << >>
      /\ saving = << >> /\ items = 0 /\ start = 0 /\ count = 0
      /\ result \notin {"success", "failure"}
  BY EmptySeq DEF Call, Accounted, InPlace, CountRight, Counting, Awaited
<1>2. /\ UNCHANGED <<found, reported, handed, saving, items, start, count, result>>
      /\ mode' = m /\ batchSize' = Validated(limit)
      /\ at' \in {"all", "system", "waiting"}
  BY DEF Call, counts, lists
<1>3. Validated(limit) \in Nat
  BY DEF Validated
<1>4. ListTypes' /\ HandedOver'
  BY <1>2, <1>3 DEF Accounted, ListTypes, HandedOver
<1>5. ~Counting' /\ ~Counting
  BY <1>1, <1>2 DEF Counting
<1>6. Reached' = Reached
  BY <1>2, <1>5 DEF Reached
<1>7. FirstOnes' /\ ItemsRight'
  BY <1>1, <1>2, <1>5, <1>6 DEF Accounted, FirstOnes, ItemsRight
<1>8. CountRight'
  BY <1>1, <1>2 DEF CountRight
<1>9. InPlace'
  BY <1>1, <1>2 DEF InPlace
<1> QED
  BY <1>4, <1>7, <1>8, <1>9 DEF Accounted

\* Where no batch is worked off all that was found is reached.
LEMMA AllReached ==
  ASSUME ListTypes, ~Counting, found = reported
  PROVE  FirstOnes
BY SubSeqFull DEF ListTypes, FirstOnes, Reached

LEMMA SingleSystemKeeps == ASSUME Accounted, Awaited, SingleSystem PROVE Accounted'
<1>1. /\ at = "system" /\ at' = "processes" /\ mode = "single"
      /\ UNCHANGED <<mode, batchSize, found, start, result, loop>>
      /\ found = << >> /\ reported = << >> /\ handed = << >> /\ items = 0 /\ start = 0
      /\ result \notin {"success", "failure"} /\ loop \in {"none", "done"}
      /\ saving = << >> /\ ~Counting /\ ~Counting'
  BY DEF SingleSystem, goroutine, Accounted, InPlace, Awaited, Counting
<1>2. UNCHANGED <<count, reported, saving>>
  BY DEF SingleSystem, Fail, lists, DeliverSystem
<1>3. CASE Fail
  <2>1. InPlace'
    BY <1>1, <1>2 DEF InPlace
  <2> QED
    BY <1>1, <1>3, <2>1, AccountStays DEF Fail
<1>4. CASE DeliverSystem
  <2>1. /\ handed' \in Seq(Nat) /\ items' \in Nat /\ HandedOver'
        /\ Len(handed') = Len(handed) + 1 /\ items' = items + 1
    BY <1>4, SystemCounts DEF Accounted
  <2>2. ListTypes'
    BY <1>1, <1>2, <2>1 DEF Accounted, ListTypes
  <2>3. FirstOnes'
    BY <1>1, <1>2 DEF Accounted, FirstOnes, Reached
  <2>4. ItemsRight'
    BY <1>1, <1>2, <2>1 DEF Accounted, ItemsRight
  <2>5. CountRight'
    BY <1>1, <1>2 DEF Accounted, CountRight
  <2>6. InPlace'
    BY <1>1, <1>2 DEF InPlace
  <2> QED
    BY <2>1, <2>2, <2>3, <2>4, <2>5, <2>6 DEF Accounted
<1> QED
  BY <1>3, <1>4 DEF SingleSystem

\* The processes the filters let through are processes.
LEMMA FilteredProcesses ==
  ASSUME NEW n \in 0..MaxProcesses, NEW filters \in Filters
  PROVE  Kept(UpTo(n), {p \in 1..n : ShouldIncludeProcess(p, filters)}) \in Seq(Nat \ {0})
<1> DEFINE I == {p \in 1..n : ShouldIncludeProcess(p, filters)}
           s == UpTo(n)
<1>1. n \in Nat
  OBVIOUS
<1>2. s \in Seq(Nat \ {0})
  BY <1>1, ProcessNumbers
<1> HIDE DEF I, s
<1>3. Kept(s, I) \in Seq(Nat \ {0})
  BY <1>2, KeptElements
<1> QED
  BY <1>3 DEF I, s

LEMMA SingleProcessesKeeps == ASSUME Accounted, Awaited, SingleProcesses PROVE Accounted'
<1>1. /\ at = "processes" /\ mode = "single"
      /\ UNCHANGED <<mode, batchSize, start, result, loop>>
      /\ found = << >> /\ reported = << >>
      /\ result \notin {"success", "failure"} /\ loop \in {"none", "done"}
      /\ saving = << >> /\ ~Counting /\ ~Counting'
      /\ at' \in {"saving", "done"}
  BY DEF SingleProcesses, goroutine, Accounted, InPlace, Awaited, Counting
<1>2. CASE Fail /\ UNCHANGED found
  <2>1. InPlace'
    BY <1>1, <1>2 DEF InPlace, Fail, lists
  <2> QED
    BY <1>1, <1>2, <2>1, AccountStays DEF Fail
<1>3. ASSUME at' = "saving", NEW n \in 0..MaxProcesses, NEW filters \in Filters,
             found' = Kept(UpTo(n), {p \in 1..n : ShouldIncludeProcess(p, filters)}),
             Report(found'), count' = Len(found'), items' = items + Len(found'),
             UNCHANGED handed
      PROVE  Accounted'
  <2> DEFINE s == found'
  <2>1. s \in Seq(Nat \ {0}) /\ Report(s)
    BY <1>3, FilteredProcesses
  <2> HIDE DEF s
  <2>2. /\ reported' \in Seq(Nat \ {0}) /\ saving' = s /\ saving' \in Seq(Nat \ {0})
        /\ reported' = reported \o s /\ HandedOver'
    BY <1>1, <1>3, <2>1, ReportAdds DEF Accounted
  <2>3. reported' = s
    BY <1>1, <2>1, <2>2, ConcatEmptySeq
  <2>4. Len(s) \in Nat /\ count' = Len(s) /\ items' = items + Len(s) /\ found' = s
    BY <1>3, <2>1 DEF s
  <2>5. ListTypes'
    BY <1>1, <1>3, <2>1, <2>2, <2>4 DEF Accounted, ListTypes
  <2>6. FirstOnes'
    <3>1. SubSeq(s, 1, Len(s)) = s
      BY <2>1, SubSeqFull
    <3> QED
      BY <1>1, <2>3, <2>4, <3>1 DEF FirstOnes, Reached
  <2>7. ItemsRight'
    <3>1. items = Len(handed) /\ Len(handed) \in Nat /\ UNCHANGED handed
      BY <1>1, <1>3 DEF Accounted, ItemsRight, ListTypes
    <3> QED
      BY <1>1, <2>2, <2>4, <3>1 DEF ItemsRight
  <2>8. CountRight'
    BY <2>3, <2>4 DEF CountRight
  <2>9. InPlace'
    BY <1>3 DEF InPlace
  <2> QED
    BY <2>2, <2>5, <2>6, <2>7, <2>8, <2>9 DEF Accounted
<1> QED
  <2>1. CASE Fail /\ at' = "done" /\ UNCHANGED found
    BY <1>2, <2>1
  <2>2. CASE ~(Fail /\ at' = "done" /\ UNCHANGED found)
    <3>1. /\ at' = "saving" /\ Report(found') /\ count' = Len(found')
          /\ items' = items + Len(found') /\ UNCHANGED handed
      BY <2>2 DEF SingleProcesses
    <3>2. PICK n \in 0..MaxProcesses, filters \in Filters :
            found' = Kept(UpTo(n), {p \in 1..n : ShouldIncludeProcess(p, filters)})
      BY <2>2 DEF SingleProcesses
    <3> QED
      BY <1>3, <3>1, <3>2
  <2> QED
    BY <2>1, <2>2

\* A save moves a process from those to be handed over to those that are.
LEMMA SaveKeeps ==
  ASSUME Accounted, Save, UNCHANGED <<at, mode, batchSize, found, start, result, loop>>
  PROVE  Accounted'
<1>1. /\ saving # << >> /\ UNCHANGED <<items, count, reported>>
  BY DEF Save
<1>2. /\ saving' \in Seq(Nat \ {0}) /\ handed' \in Seq(Nat) /\ HandedOver'
      /\ Len(handed') + Len(saving') = Len(handed) + Len(saving)
  BY SaveMoves DEF Accounted
<1>3. Counting' = Counting /\ Reached' = Reached
  BY DEF Counting, Reached
<1>4. ListTypes'
  BY <1>1, <1>2 DEF Accounted, ListTypes
<1>5. FirstOnes' /\ ItemsRight' /\ CountRight'
  BY <1>1, <1>2, <1>3 DEF Accounted, FirstOnes, ItemsRight, CountRight
<1>6. InPlace'
  <2>1. at = "saving" \/ loop = "saving"
    BY <1>1 DEF Accounted, InPlace
  <2>2. at \in {"idle", "system", "all", "processes"} => saving = << >> \/ loop = "saving"
    BY <2>1
  <2>3. /\ at \in {"idle", "system", "all"} =>
             found = << >> /\ reported = << >> /\ handed = << >> /\ items = 0 /\ start = 0
        /\ at = "processes" => found = << >> /\ reported = << >>
        /\ at = "idle" => mode = "none"
        /\ at = "returned" => result \in {"success", "failure", "error"}
    BY DEF Accounted, InPlace
  <2>4. at \notin {"idle", "system", "all"}
    <3>1. HandedOver /\ saving \in Seq(Nat \ {0}) /\ handed \in Seq(Nat)
      BY DEF Accounted, ListTypes
    <3>2. ASSUME handed = << >>, reported = << >> PROVE FALSE
      <4>1. << >> = << >> \o saving
        BY <3>1, <3>2, NothingOfNothing DEF HandedOver
      <4>2. saving = << >>
        BY <3>1, <4>1, ConcatEmptySeq
      <4> QED
        BY <1>1, <4>2
    <3> QED
      BY <2>3, <3>2
  <2> QED
    BY <1>1, <2>1, <2>3, <2>4 DEF InPlace
<1> QED
  BY <1>2, <1>4, <1>5, <1>6 DEF Accounted

LEMMA CallerSavedKeeps == ASSUME Accounted, Awaited, CallerSaved PROVE Accounted'
<1>1. /\ at = "saving" /\ saving = << >> /\ mode \in {"single", "batch"}
      /\ at' = (IF mode = "batch" THEN "batches" ELSE "done")
      /\ UNCHANGED <<mode, batchSize, found, start, result, loop, lists>>
  BY DEF CallerSaved, Awaited, goroutine, counts
<1>2. Counting' <=> Counting
  BY <1>1 DEF Counting
<1>3. result' \notin {"success", "failure"}
  BY <1>1 DEF Awaited
<1>4. InPlace'
  BY <1>1 DEF InPlace, lists
<1> QED
  BY <1>1, <1>2, <1>3, <1>4, AccountStays

LEMMA BatchCollectKeeps == ASSUME Accounted, Awaited, BatchCollect PROVE Accounted'
<1>1. /\ at = "all" /\ mode = "batch" /\ UNCHANGED <<mode, batchSize, start, loop>>
      /\ found = << >> /\ reported = << >> /\ handed = << >> /\ items = 0 /\ start = 0
      /\ saving = << >> /\ loop = "none" /\ result \notin {"success", "failure"}
      /\ ~Counting /\ count = 0
  BY EmptySeq DEF BatchCollect, goroutine, Accounted, InPlace, Awaited, Counting, CountRight
<1>2. CASE at' = "returned" /\ result' = "failure" /\ Fail /\ UNCHANGED found
  <2>1. ~Counting' /\ InPlace' /\ CountRight'
    BY <1>1, <1>2, EmptySeq DEF Counting, InPlace, Fail, lists, CountRight
  <2> QED
    BY <1>1, <1>2, <2>1, AccountStays DEF Fail
<1>3. ASSUME at' = "batches", UNCHANGED result, NEW n \in Nat, found' = UpTo(n),
             DeliverSystem \/ UNCHANGED lists
      PROVE  Accounted'
  <2>1. found' \in Seq(Nat \ {0}) /\ Len(found') \in Nat
    BY <1>3, ProcessNumbers, LenProperties, Zenon
  <2>2. UNCHANGED <<count, reported, saving>>
    BY <1>3 DEF DeliverSystem, lists
  <2>3. Counting' /\ Reached' = 0
    <3>1. Counting'
      BY <1>1, <1>3 DEF Counting
    <3> QED
      BY <1>1, <2>1, <3>1 DEF Reached
  <2>4. HandedOver' /\ handed' \in Seq(Nat) /\ items' \in Nat /\ items' = Len(handed')
    <3>1. CASE DeliverSystem
      BY <1>1, <3>1, SystemCounts, EmptySeq DEF Accounted
    <3>2. CASE UNCHANGED lists
      BY <1>1, <3>2, EmptySeq DEF lists, Accounted, HandedOver, ListTypes
    <3> QED
      BY <1>3, <3>1, <3>2
  <2>5. ListTypes'
    BY <1>1, <2>1, <2>2, <2>4 DEF Accounted, ListTypes
  <2>6. FirstOnes'
    <3>1. SubSeq(found', 1, 0) = << >>
      BY SubSeqEmpty
    <3> QED
      BY <1>1, <2>2, <2>3, <3>1 DEF FirstOnes
  <2>7. ItemsRight'
    <3>1. Len(reported') = 0 /\ Len(saving') = 0
      BY <1>1, <2>2, EmptySeq
    <3>2. Len(handed') \in Nat
      BY <2>4
    <3> QED
      BY <2>4, <3>1, <3>2 DEF ItemsRight
  <2>8. CountRight'
    BY <1>1, <1>3, <2>3 DEF CountRight
  <2>9. InPlace'
    BY <1>1, <1>3, <2>2 DEF InPlace
  <2> QED
    BY <2>4, <2>5, <2>6, <2>7, <2>8, <2>9 DEF Accounted
<1>4. ASSUME at' = "batches", UNCHANGED result,
             NEW errors \in SUBSET {"system", "processes", "others"}, NEW n \in 0..MaxProcesses,
             found' = UpTo(IF "processes" \in errors THEN 0 ELSE n),
             (DeliverSystem /\ "system" \notin errors) \/ UNCHANGED lists
      PROVE  Accounted'
  <2>1. (IF "processes" \in errors THEN 0 ELSE n) \in Nat
    OBVIOUS
  <2> QED
    BY <1>3, <1>4, <2>1
<1> QED
  BY <1>2, <1>4 DEF BatchCollect

LEMMA BatchRoundKeeps == ASSUME Accounted, Awaited, BatchRound PROVE Accounted'
<1> DEFINE end == IF start + batchSize > Len(found) THEN Len(found) ELSE start + batchSize
           batch == SubSeq(found, start + 1, end)
<1>1. /\ at = "batches" /\ at' = "saving" /\ start < Len(found) /\ start' = start + batchSize
      /\ UNCHANGED <<mode, batchSize, found, result, loop, items, count, handed>>
      /\ Report(batch)
  BY DEF BatchRound, goroutine
<1>2. /\ mode = "batch" /\ loop = "none" /\ saving = << >> /\ Counting /\ Counting'
      /\ result \notin {"success", "failure"}
  BY <1>1 DEF Awaited, Accounted, InPlace, Counting
<1>3. /\ found \in Seq(Nat \ {0}) /\ start \in Nat /\ batchSize \in Nat /\ Len(found) \in Nat
      /\ reported = SubSeq(found, 1, start) /\ Len(reported) \in Nat
      /\ items + Len(reported) = Len(handed) + Len(saving)
      /\ items \in Nat /\ Len(handed) \in Nat /\ handed \in Seq(Nat)
  BY <1>1, <1>2 DEF Accounted, ListTypes, FirstOnes, Reached, ItemsRight
<1>4. end \in start..Len(found) /\ start \in 0..Len(found)
  BY <1>1, <1>3
<1>5. Reached' = end
  <2>1. Reached' = IF start' < Len(found') THEN start' ELSE Len(found')
    BY <1>2, Zenon DEF Reached
  <2>2. start + batchSize \in Nat
    BY <1>3
  <2>3. \A a, b \in Nat : (IF a < b THEN a ELSE b) = (IF a > b THEN b ELSE a)
    OBVIOUS
  <2>4. start' = start + batchSize /\ Len(found') = Len(found) /\ Len(found) \in Nat
    BY <1>1, <1>3
  <2> QED
    BY <2>1, <2>2, <2>3, <2>4
<1> HIDE DEF end
<1>6. batch \in Seq(Nat \ {0})
  BY <1>3, <1>4, SubSeqProperties
<1> HIDE DEF batch
<1>7. /\ reported' \in Seq(Nat \ {0}) /\ saving' \in Seq(Nat \ {0}) /\ saving' = batch
      /\ reported' = reported \o batch /\ HandedOver'
      /\ Len(reported') = Len(reported) + Len(batch)
  BY <1>1, <1>2, <1>6, ReportAdds DEF Accounted
<1>8. reported' = SubSeq(found, 1, end)
  <2>1. 1 \in 1..Len(found) + 1 /\ start \in 1 - 1..Len(found)
    BY <1>3, <1>4
  <2>2. SubSeq(found, 1, start) \o SubSeq(found, start + 1, end) = SubSeq(found, 1, end)
    BY <1>3, <1>4, <2>1, ConcatAdjacentSubSeq
  <2> QED
    BY <1>3, <1>7, <2>2, Zenon DEF batch
<1>9. ListTypes'
  BY <1>1, <1>3, <1>7 DEF Accounted, ListTypes
<1>10. FirstOnes'
  BY <1>1, <1>5, <1>8 DEF FirstOnes
<1>11. ItemsRight'
  <2>1. Len(saving) = 0 /\ Len(batch) \in Nat
    BY <1>2, <1>6
  <2> QED
    <3>1. ItemsRight' <=> items' + Len(reported') = Len(handed') + Len(saving')
      BY <1>2, Zenon DEF ItemsRight
    <3>3. Len(saving) \in Nat /\ Len(saving') = Len(batch)
      BY <1>7, <2>1
    <3>4. items + (Len(reported) + Len(batch)) = Len(handed) + Len(batch)
      <4>1. items + Len(reported) = Len(handed) + 0
        BY <1>3, <2>1, Zenon
      <4>2. items \in Nat /\ Len(reported) \in Nat /\ Len(batch) \in Nat /\ Len(handed) \in Nat
        BY <1>3, <2>1, Zenon
      <4> QED
        BY <4>1, <4>2
    <3>5. items' = items /\ handed' = handed /\ Len(reported') = Len(reported) + Len(batch)
      BY <1>1, <1>7
    <3>6. items' + Len(reported') = items + (Len(reported) + Len(batch))
      BY <3>5, Zenon
    <3>7. Len(handed') + Len(saving') = Len(handed) + Len(batch)
      BY <3>3, <3>5, Zenon
    <3> QED
      BY <3>1, <3>4, <3>6, <3>7, Zenon
<1>12. CountRight' /\ InPlace'
  BY <1>1, <1>2 DEF CountRight, InPlace
<1> QED
  BY <1>7, <1>9, <1>10, <1>11, <1>12 DEF Accounted

LEMMA BatchEndKeeps == ASSUME Accounted, Awaited, BatchEnd PROVE Accounted'
<1>1. /\ at = "batches" /\ at' = "done" /\ start >= Len(found)
      /\ UNCHANGED <<mode, batchSize, found, start, result, loop, reported, saving, handed>>
      /\ count' = Len(found) /\ items' = items + Len(found)
  BY DEF BatchEnd, goroutine
<1>2. mode = "batch" /\ loop = "none" /\ Counting /\ ~Counting' /\ saving = << >>
  BY <1>1 DEF Awaited, Accounted, InPlace, Counting
<1>3. /\ found \in Seq(Nat \ {0}) /\ Len(found) \in Nat /\ items \in Nat /\ start \in Nat
      /\ reported = SubSeq(found, 1, Len(found))
      /\ items + Len(reported) = Len(handed) + Len(saving)
  BY <1>1, <1>2 DEF Accounted, ListTypes, FirstOnes, Reached, ItemsRight
<1>4. reported = found
  BY <1>3, SubSeqFull
<1>5. Reached' = Len(found)
  BY <1>1, <1>2 DEF Reached
<1>6. ListTypes' /\ HandedOver'
  BY <1>1, <1>3 DEF Accounted, ListTypes, HandedOver
<1>7. FirstOnes' /\ ItemsRight' /\ CountRight' /\ InPlace'
  BY <1>1, <1>2, <1>3, <1>4, <1>5 DEF FirstOnes, ItemsRight, CountRight, InPlace
<1> QED
  BY <1>6, <1>7 DEF Accounted

LEMMA FinishKeeps == ASSUME Accounted, Awaited, Finish PROVE Accounted'
<1>1. /\ at \in {"done", "stopping"} /\ at' = "returned"
      /\ UNCHANGED <<mode, batchSize, found, start, loop, items, reported, saving, handed>>
      /\ count' = IF mode = "continuous" THEN Len(reported) ELSE count
      /\ result' \in {"success", "failure"}
  BY DEF Finish, Return, goroutine
<1>2. ~Counting /\ ~Counting'
  BY <1>1 DEF Counting
<1>3. loop # "saving" /\ saving = << >>
  BY <1>1 DEF Finish, LoopEnded, Awaited, Accounted, InPlace
<1>4. Len(reported) \in Nat
  BY DEF Accounted, ListTypes
<1>5. count' \in Nat /\ count' = Len(reported)
  BY <1>1, <1>2, <1>4 DEF Accounted, ListTypes, CountRight
<1>6. ListTypes' /\ HandedOver'
  BY <1>1, <1>5 DEF Accounted, ListTypes, HandedOver
<1>7. FirstOnes' /\ ItemsRight'
  BY <1>1, <1>2 DEF Accounted, FirstOnes, Reached, ItemsRight
<1>8. CountRight' /\ InPlace'
  BY <1>1, <1>3, <1>5 DEF CountRight, InPlace
<1> QED
  BY <1>6, <1>7, <1>8 DEF Accounted

LEMMA GoroutineKeeps == ASSUME Accounted, Awaited, Goroutine PROVE Accounted'
<1>1. /\ mode = "continuous" /\ at \in Waits
      /\ UNCHANGED <<found, start, mode, at, batchSize, result>>
  BY GoroutineStep DEF caller
<1>2. ~Counting /\ ~Counting' /\ result \notin {"success", "failure"}
  BY <1>1 DEF Counting, Waits, Awaited
<1>3. CASE LoopSave /\ Save /\ UNCHANGED loop
  BY <1>1, <1>3, SaveKeeps
<1>4. CASE UNCHANGED lists /\ saving = << >>
  <2>1. InPlace'
    BY <1>1, <1>4 DEF lists, InPlace, Waits
  <2> QED
    BY <1>1, <1>2, <1>4, <2>1, AccountStays
<1>5. ASSUME loop = "processes", NEW n \in 0..MaxProcesses, Report(UpTo(n)), items' = items + 1 + n,
             handed' = Append(handed, System), UNCHANGED count, loop' = "saving"
      PROVE  Accounted'
  <2>1. n \in Nat /\ UpTo(n) \in Seq(Nat \ {0}) /\ Len(UpTo(n)) = n
    BY UpToIs, ProcessNumbers
  <2>2. saving = << >> /\ ListTypes /\ HandedOver
    BY <1>1, <1>5 DEF Accounted, InPlace, Waits
  <2>3. handed' \in Seq(Nat) /\ Len(handed') = Len(handed) + 1 /\ handed' = handed \o <<System>>
    BY <1>5, <2>2 DEF ListTypes, System
  <2>4. Processes(handed') = Processes(handed)
    <3>1. Processes(handed') = Processes(handed) \o << >> /\ Processes(handed) \in Seq(Nat)
      <4>1. handed \in Seq(Nat) /\ <<System>> \in Seq(Nat)
        BY <2>2, NoProcess DEF ListTypes
      <4>2. Processes(handed \o <<System>>) = Processes(handed) \o Processes(<<System>>)
            /\ Processes(handed) \in Seq(Nat)
        BY <4>1, ProcessesOfBoth, Zenon
      <4> QED
        BY <2>3, <4>2, NoProcess, Zenon
    <3> QED
      BY <3>1, ConcatEmptySeq
  <2> DEFINE batch == UpTo(n)
  <2>5. batch \in Seq(Nat \ {0}) /\ Report(batch) /\ Len(batch) = n
    BY <1>5, <2>1
  <2> HIDE DEF batch
  <2>6. /\ reported' \in Seq(Nat \ {0}) /\ saving' \in Seq(Nat \ {0}) /\ saving' = batch
        /\ HandedOver'
    BY <2>2, <2>4, <2>5, ReportAdds
  <2>7. items = Len(handed) + Len(saving) /\ Len(saving) = 0 /\ Len(handed) \in Nat
    BY <1>2, <2>2 DEF Accounted, ItemsRight, ListTypes
  <2>8. items' \in Nat /\ items' = Len(handed') + Len(saving')
    <3>1. Len(saving') = n /\ items' = items + 1 + n
      BY <1>5, <2>5, <2>6
    <3>2. items = Len(handed)
      BY <2>7
    <3> QED
      BY <2>1, <2>3, <2>7, <3>1, <3>2
  <2>9. ListTypes'
    BY <1>1, <1>5, <2>2, <2>3, <2>6, <2>8 DEF ListTypes
  <2>10. FirstOnes' /\ CountRight' /\ InPlace'
    BY <1>1, <1>2, <1>5 DEF FirstOnes, CountRight, InPlace, Waits
  <2>11. ItemsRight'
    BY <1>2, <2>3, <2>8 DEF ItemsRight
  <2> QED
    BY <2>6, <2>9, <2>10, <2>11 DEF Accounted
<1>6. loop # "saving" => saving = << >>
  BY <1>1 DEF Accounted, InPlace, Waits
<1> QED
  BY <1>3, <1>4, <1>5, <1>6
  DEF Goroutine, LoopQuit, LoopTick, LoopSystem, LoopProcesses, LoopSave, Fail, counts

LEMMA AccountedStep == Accounted /\ Awaited /\ [Next]_vars => Accounted'
<1> SUFFICES ASSUME Accounted, Awaited, [Next]_vars PROVE Accounted'
  OBVIOUS
<1>1. ASSUME NEW limit \in Limits, NEW m \in {"single", "continuous", "batch"},
             Call(m, limit)
      PROVE  Accounted'
  BY <1>1, CallKeeps
<1>2. CASE Reject \/ WaitOver \/ Abandon \/ Cancel \/ Clock \/ UNCHANGED vars
  <2>1. UNCHANGED <<lists, found, start, batchSize, mode, loop>>
    BY <1>2 DEF Reject, WaitOver, Abandon, Cancel, Clock, vars, caller, counts, goroutine
  <2>2. (at' = at /\ result' = result) \/ at' \in {"returned", "quitting", "stopping"}
    BY <1>2 DEF Reject, WaitOver, Abandon, Cancel, Clock, vars, caller
  <2>3. at' = at \/ at \in {"idle", "waiting", "quitting"}
    BY <1>2 DEF Reject, WaitOver, Abandon, Cancel, Clock, vars, caller
  <2>4. Counting' <=> Counting
    BY <2>1, <2>2, <2>3 DEF Counting
  <2>5. result' = result \/ result' = "error"
    BY <1>2 DEF Reject, WaitOver, Abandon, Cancel, Clock, vars, caller
  <2>6. InPlace'
    <3>1. at' = "returned" => result' = "error" \/ (at = "returned" /\ result' = result)
      BY <1>2 DEF Reject, WaitOver, Abandon, Cancel, Clock, vars, caller
    <3> QED
      BY <2>1, <2>2, <2>3, <3>1 DEF Accounted, InPlace, lists
  <2>7. result' \in {"success", "failure"} => CountRight'
    BY <2>1, <2>5 DEF Accounted, CountRight, lists
  <2> QED
    BY <2>1, <2>4, <2>6, <2>7, AccountStays
<1>3. CASE SingleSystem \/ SingleProcesses
  BY <1>3, SingleSystemKeeps, SingleProcessesKeeps
<1>4. CASE CallerSave \/ CallerSaved
  <2>1. CallerSave => Save /\ UNCHANGED <<at, mode, batchSize, found, start, result, loop>>
    BY DEF CallerSave, caller, goroutine
  <2> QED
    BY <1>4, <2>1, SaveKeeps, CallerSavedKeeps
<1>5. CASE BatchCollect \/ BatchRound \/ BatchEnd
  BY <1>5, BatchCollectKeeps, BatchRoundKeeps, BatchEndKeeps
<1>6. CASE Finish
  BY <1>6, FinishKeeps
<1>7. CASE Goroutine
  BY <1>7, GoroutineKeeps
<1> QED
  BY <1>1, <1>2, <1>3, <1>4, <1>5, <1>6, <1>7 DEF Next, Caller

\* The three accounts of a result agree: what it counts, what it lists and
\* what was handed to the repository, in the same order; and a single or a
\* batch request lists every process found, for any batch size and number.
THEOREM ReportedIsAlwaysHanded == Spec => []ReportedWasHanded
<1>1. Accounted /\ Awaited => ReportedWasHanded
  <2> SUFFICES ASSUME Accounted, Awaited, at = "returned", result # "error"
               PROVE  /\ items = Len(handed) /\ count = Len(reported)
                      /\ reported = Processes(handed) /\ saving = << >>
                      /\ mode # "continuous" => reported = found
    BY DEF ReportedWasHanded
  <2>1. saving = << >> /\ ~Counting
    BY DEF Accounted, InPlace, Awaited, Counting
  <2>2. /\ reported = Processes(handed) \o saving /\ handed \in Seq(Nat)
        /\ found \in Seq(Nat \ {0})
    BY DEF Accounted, HandedOver, ListTypes
  <2>3. reported = Processes(handed)
    <3>1. Processes(handed) \in Seq(Nat)
      BY <2>2, NothingOfNothing, ProcessesOfBoth
    <3> QED
      BY <2>1, <2>2, <3>1, ConcatEmptySeq
  <2>4. items = Len(handed)
    BY <2>1, <2>2 DEF Accounted, ItemsRight, ListTypes
  <2>5. mode # "continuous" => reported = found
    BY <2>1, <2>2, SubSeqFull DEF Accounted, FirstOnes, Reached
  <2>6. count = Len(reported)
    BY <2>1 DEF Accounted, CountRight, InPlace
  <2> QED
    BY <2>1, <2>3, <2>4, <2>5, <2>6
<1> QED
  BY <1>1, AccountedInit, AccountedStep, AlwaysAwaited, PTL DEF Spec

-----------------------------------------------------------------------------
(***************************************************************************)
(* Nothing listens after the shutdown.  What makes it so: a server is made *)
(* only when all before it are closed, so the one server that may listen   *)
(* is the one the field names, and that one is what Shutdown closes.       *)
(***************************************************************************)
USE ServicesAssumption

ServerStates == {"unmade", "made", "listening", "closed"}
Taken == main \in {"stop_alerting", "cleanup", "down"}
CurrentIsClosed == current > 0 => server[current] = "closed"

TypeInv ==
  /\ current \in 0..MaxServers
  /\ stopped \in 0..current
  /\ server \in [O!Servers -> ServerStates]

\* The servers before the current one are closed, those after it not made.
OneAtATime ==
  \A s \in O!Servers :
    /\ s < current => server[s] = "closed"
    /\ s > current => server[s] = "unmade"

\* UpdateConfig starts a server only after it has closed the one before.
ClosedBeforeStart == update = "starting" => current > 0 /\ server[current] = "closed"

\* The exporter has no server before Initialize has made it.
NoneAtFirst == main \in {"new", "repository", "exporter"} => current = 0

\* The server Shutdown stopped stays closed.
StoppedIsClosed == Taken /\ current = stopped => CurrentIsClosed

IInv == TypeInv /\ OneAtATime /\ ClosedBeforeStart /\ NoneAtFirst /\ StoppedIsClosed

\* Everything the invariant speaks of.
concerned == <<main, server, current, update, stopped>>

-----------------------------------------------------------------------------
\* The invariant says what is wanted: a server that listens is the current one.
LEMMA Enough == ASSUME IInv PROVE AfterShutdownNothingListens
<1>1. SUFFICES ASSUME main \in {"stop_alerting", "cleanup", "down"}, current = stopped,
                      NEW s \in O!Servers
               PROVE  server[s] # "listening"
  BY DEF AfterShutdownNothingListens, O!AfterShutdownNothingListens
<1>2. s \in Nat /\ current \in Nat
  BY DEF IInv, TypeInv, O!Servers
<1>3. CASE s < current
  BY <1>3 DEF IInv, OneAtATime
<1>4. CASE s > current
  BY <1>4 DEF IInv, OneAtATime
<1>5. CASE s = current
  BY <1>1, <1>2, <1>5 DEF IInv, StoppedIsClosed, Taken, CurrentIsClosed, O!Servers
<1> QED
  BY <1>2, <1>3, <1>4, <1>5

LEMMA Start == O!Init => IInv
  BY DEF O!Init, IInv, TypeInv, OneAtATime, ClosedBeforeStart, NoneAtFirst, StoppedIsClosed,
         CurrentIsClosed, Taken, O!Servers, ServerStates

\* A step that changes nothing of it keeps it.
LEMMA Idle == ASSUME IInv, UNCHANGED concerned PROVE IInv'
  BY DEF concerned, IInv, TypeInv, OneAtATime, ClosedBeforeStart, NoneAtFirst, StoppedIsClosed,
         CurrentIsClosed, Taken

\* Nor does the caller of Initialize and Shutdown where no server is touched.
LEMMA MainMoves ==
  ASSUME IInv, UNCHANGED <<server, current, update, stopped>>,
         main' \in {"new", "repository", "exporter"} => main \in {"new", "repository", "exporter"},
         Taken' => Taken
  PROVE  IInv'
  BY DEF IInv, TypeInv, OneAtATime, ClosedBeforeStart, NoneAtFirst, StoppedIsClosed,
         CurrentIsClosed, Taken

\* Closing the current server keeps it, and leaves that server closed.
LEMMA Closing ==
  ASSUME IInv, server' = O!Closed, UNCHANGED current
  PROVE  /\ server' \in [O!Servers -> ServerStates]
         /\ OneAtATime'
         /\ CurrentIsClosed'
<1>1. current \in 0..MaxServers /\ server \in [O!Servers -> ServerStates]
  BY DEF IInv, TypeInv
<1>2. CASE current = 0
  <2>1. server' = server
    BY <1>2 DEF O!Closed
  <2> QED
    BY <1>1, <1>2, <2>1 DEF IInv, OneAtATime, CurrentIsClosed
<1>3. CASE current # 0
  <2>1. server' = [server EXCEPT ![current] = "closed"] /\ current \in O!Servers
    BY <1>1, <1>3 DEF O!Closed, O!Servers
  <2>2. server' \in [O!Servers -> ServerStates] /\ server'[current] = "closed"
    BY <1>1, <2>1 DEF ServerStates
  <2>3. \A s \in O!Servers : s # current => server'[s] = server[s]
    BY <1>1, <2>1
  <2>4. \A s \in O!Servers : s < current \/ s > current => s # current
    BY <1>1 DEF O!Servers
  <2>5. OneAtATime'
    BY <2>3, <2>4 DEF IInv, OneAtATime
  <2> QED
    BY <2>2, <2>5 DEF CurrentIsClosed
<1> QED
  BY <1>2, <1>3

\* Making the next server where the current one is closed keeps it.
LEMMA Starting ==
  ASSUME IInv, NEW until, O!StartExporter(until), CurrentIsClosed
  PROVE  /\ current' \in 1..MaxServers /\ current' = current + 1
         /\ server' \in [O!Servers -> ServerStates]
         /\ OneAtATime'
<1>1. current \in 0..MaxServers /\ server \in [O!Servers -> ServerStates] /\ current < MaxServers
  BY DEF IInv, TypeInv, O!StartExporter
<1>2. current' = current + 1 /\ current + 1 \in O!Servers
  BY <1>1 DEF O!StartExporter, O!Servers
<1>3. server' = [server EXCEPT ![current + 1] = "made"]
  BY DEF O!StartExporter
<1>4. server' \in [O!Servers -> ServerStates]
  BY <1>1, <1>2, <1>3 DEF ServerStates
<1>5. ASSUME NEW s \in O!Servers, s < current' PROVE server'[s] = "closed"
  <2>1. s \in Nat /\ s <= current /\ s # current + 1
    BY <1>1, <1>2, <1>5 DEF O!Servers
  <2>2. server'[s] = server[s]
    BY <1>1, <1>3, <2>1
  <2>3. CASE s < current
    BY <2>2, <2>3 DEF IInv, OneAtATime
  <2>4. CASE s = current
    BY <2>2, <2>4, <1>1 DEF CurrentIsClosed, O!Servers
  <2> QED
    BY <1>1, <2>1, <2>3, <2>4
<1>6. ASSUME NEW s \in O!Servers, s > current' PROVE server'[s] = "unmade"
  <2>1. s > current /\ s # current + 1
    BY <1>1, <1>2, <1>6 DEF O!Servers
  <2> QED
    BY <1>1, <1>3, <2>1 DEF IInv, OneAtATime
<1> QED
  BY <1>1, <1>2, <1>4, <1>5, <1>6 DEF OneAtATime, O!Servers

-----------------------------------------------------------------------------
\* The exporter's goroutines.
LEMMA ListenKeeps == ASSUME IInv, NEW s \in O!Servers, O!Listen(s) PROVE IInv'
<1>1. current \in 0..MaxServers /\ server \in [O!Servers -> ServerStates]
  BY DEF IInv, TypeInv
<1>2. UNCHANGED <<main, current, update, stopped>>
  BY DEF O!Listen
<1>3. CASE UNCHANGED server
  BY <1>2, <1>3, Idle DEF concerned
<1>4. CASE server[current] = "made" /\ server' = [server EXCEPT ![current] = "listening"]
  <2>1. server' \in [O!Servers -> ServerStates]
    BY <1>1, <1>4 DEF ServerStates
  <2>2. \A t \in O!Servers : t # current => server'[t] = server[t]
    BY <1>1, <1>4
  <2>3. \A t \in O!Servers : t < current \/ t > current => t # current
    BY <1>1 DEF O!Servers
  <2>4. OneAtATime'
    BY <1>2, <2>2, <2>3 DEF IInv, OneAtATime
  <2>5. ~CurrentIsClosed \/ current = 0
    BY <1>1, <1>4 DEF CurrentIsClosed
  <2>6. ClosedBeforeStart'
    BY <1>2, <1>4 DEF IInv, ClosedBeforeStart
  <2>7. StoppedIsClosed'
    BY <1>1, <1>2, <2>5 DEF IInv, StoppedIsClosed, CurrentIsClosed, Taken
  <2> QED
    BY <1>2, <2>1, <2>4, <2>6, <2>7 DEF IInv, TypeInv, NoneAtFirst
<1> QED
  BY <1>3, <1>4 DEF O!Listen

LEMMA WatchCancelKeeps == ASSUME IInv, NEW s \in O!Servers, O!WatchCancel(s) PROVE IInv'
<1>1. server' = O!Closed /\ UNCHANGED <<main, current, update, stopped>>
  BY DEF O!WatchCancel
<1>2. server' \in [O!Servers -> ServerStates] /\ OneAtATime' /\ CurrentIsClosed'
  BY <1>1, Closing
<1>3. ClosedBeforeStart'
  BY <1>1, <1>2 DEF IInv, ClosedBeforeStart, CurrentIsClosed
<1> QED
  BY <1>1, <1>2, <1>3 DEF IInv, TypeInv, NoneAtFirst, StoppedIsClosed

-----------------------------------------------------------------------------
\* UpdateConfig.
LEMMA UpdateStopKeeps == ASSUME IInv, O!UpdateStop PROVE IInv'
<1>1. /\ server' = O!Closed /\ UNCHANGED <<main, current, stopped>>
      /\ current \in 1..(MaxServers - 1) /\ main = "up"
  BY DEF O!UpdateStop, O!StopExporter
<1>2. server' \in [O!Servers -> ServerStates] /\ OneAtATime' /\ CurrentIsClosed'
  BY <1>1, Closing
<1>3. ClosedBeforeStart'
  BY <1>1, <1>2 DEF ClosedBeforeStart, CurrentIsClosed
<1> QED
  BY <1>1, <1>2, <1>3 DEF IInv, TypeInv, NoneAtFirst, StoppedIsClosed

LEMMA UpdateStartKeeps == ASSUME IInv, O!UpdateStart PROVE IInv'
<1>1. /\ update = "starting" /\ update' = "idle" /\ UNCHANGED <<main, stopped>>
      /\ O!StartExporter("background")
  BY DEF O!UpdateStart
<1>2. current > 0 /\ CurrentIsClosed
  BY <1>1 DEF IInv, ClosedBeforeStart, CurrentIsClosed
<1>3. /\ current' \in 1..MaxServers /\ current' = current + 1
      /\ server' \in [O!Servers -> ServerStates]
      /\ OneAtATime'
  BY <1>1, <1>2, Starting
<1>4. TypeInv' /\ current' # stopped'
  BY <1>1, <1>3 DEF IInv, TypeInv
<1>5. main \notin {"new", "repository", "exporter"}
  BY <1>2 DEF IInv, TypeInv, NoneAtFirst
<1> QED
  BY <1>1, <1>3, <1>4, <1>5 DEF IInv, ClosedBeforeStart, NoneAtFirst, StoppedIsClosed

-----------------------------------------------------------------------------
\* Initialize and Shutdown.
LEMMA InitializeKeeps == ASSUME IInv, O!Initialize PROVE IInv'
<1>1. CASE O!InitializeCollector
  BY <1>1, MainMoves DEF O!InitializeCollector, O!exporter, Taken
<1>2. CASE O!InitializeRepository
  BY <1>2, MainMoves DEF O!InitializeRepository, O!exporter, Taken
<1>3. CASE O!InitializeAlerting
  BY <1>3, MainMoves DEF O!InitializeAlerting, O!Step, O!exporter, Taken
<1>4. CASE O!StartRoutines
  BY <1>4, MainMoves DEF O!StartRoutines, O!Step, O!exporter, Taken
<1>5. CASE O!InitializeExporter
  <2>1. main = "exporter" /\ main' \in {"alerting", "panicked"} /\ UNCHANGED <<update, stopped>>
    BY <1>5 DEF O!InitializeExporter, O!Step
  <2>2. CASE UNCHANGED O!exporter
    BY <2>1, <2>2, MainMoves DEF O!exporter, Taken
  <2>3. CASE O!StartExporter("main")
    <3>1. current = 0 /\ update # "starting"
      BY <2>1 DEF IInv, TypeInv, NoneAtFirst, ClosedBeforeStart
    <3>2. CurrentIsClosed
      BY <3>1 DEF CurrentIsClosed
    <3>3. /\ current' \in 1..MaxServers /\ current' = current + 1
          /\ server' \in [O!Servers -> ServerStates]
          /\ OneAtATime'
      BY <2>3, <3>2, Starting
    <3>4. TypeInv'
      BY <2>1, <3>3 DEF IInv, TypeInv
    <3> QED
      BY <2>1, <3>1, <3>3, <3>4 DEF IInv, ClosedBeforeStart, NoneAtFirst, StoppedIsClosed, Taken
  <2> QED
    BY <1>5, <2>2, <2>3 DEF O!InitializeExporter
<1> QED
  BY <1>1, <1>2, <1>3, <1>4, <1>5 DEF O!Initialize

LEMMA ShutdownKeeps == ASSUME IInv, O!Shutdown PROVE IInv'
<1>1. CASE O!BeginShutdown
  BY <1>1, MainMoves DEF O!BeginShutdown, O!exporter, Taken
<1>2. CASE O!ShutdownAlerting
  BY <1>2, MainMoves DEF O!ShutdownAlerting, O!Step, O!exporter, Taken
<1>3. CASE O!ShutdownRest
  BY <1>3, MainMoves DEF O!ShutdownRest, O!Step, O!exporter, Taken
<1>4. CASE O!ShutdownExporter
  <2>1. /\ main' = "stop_alerting" /\ server' = O!Closed /\ UNCHANGED <<current, update>>
        /\ stopped' = current
    BY <1>4 DEF O!ShutdownExporter, O!Step, O!StopExporter
  <2>2. server' \in [O!Servers -> ServerStates] /\ OneAtATime' /\ CurrentIsClosed'
    BY <2>1, Closing
  <2>3. TypeInv'
    BY <2>1, <2>2 DEF IInv, TypeInv
  <2>4. ClosedBeforeStart'
    BY <2>1, <2>2 DEF IInv, ClosedBeforeStart, CurrentIsClosed
  <2> QED
    BY <2>1, <2>2, <2>3, <2>4 DEF IInv, NoneAtFirst, StoppedIsClosed
<1> QED
  BY <1>1, <1>2, <1>3, <1>4 DEF O!Shutdown

LEMMA Preserved == ASSUME IInv, [O!Next]_(O!vars) PROVE IInv'
<1>1. CASE O!Initialize
  BY <1>1, InitializeKeeps
<1>2. CASE O!Shutdown
  BY <1>2, ShutdownKeeps
<1>3. CASE O!UpdateStop
  BY <1>3, UpdateStopKeeps
<1>4. CASE O!UpdateStart
  BY <1>4, UpdateStartKeeps
<1>5. CASE O!Cancel \/ O!AlertsWait \/ O!AlertsTick \/ O!AlertsEnd
  BY <1>5, Idle DEF O!Cancel, O!AlertsWait, O!AlertsTick, O!AlertsEnd, O!exporter, concerned
<1>6. ASSUME NEW s \in O!Servers, O!Listen(s) PROVE IInv'
  BY <1>6, ListenKeeps
<1>7. ASSUME NEW s \in O!Servers, O!WatchCancel(s) PROVE IInv'
  BY <1>7, WatchCancelKeeps
<1>8. ASSUME NEW s \in O!Servers, O!ListenReturns(s) \/ O!WatchReturn(s) PROVE IInv'
  BY <1>8, Idle DEF O!ListenReturns, O!WatchReturn, concerned
<1>9. ASSUME NEW r \in O!Routines, O!RoutineWait(r) \/ O!RoutineTick(r) \/ O!RoutineEnd(r) PROVE IInv'
  BY <1>9, Idle DEF O!RoutineWait, O!RoutineTick, O!RoutineEnd, O!exporter, concerned
<1>10. CASE UNCHANGED O!vars
  BY <1>10, Idle DEF O!vars, concerned
<1> QED
  BY <1>1, <1>2, <1>3, <1>4, <1>5, <1>6, <1>7, <1>8, <1>9, <1>10 DEF O!Next

\* Whatever the number of servers, and whenever UpdateConfig, the context and
\* the goroutines of the exporter come in between: once Shutdown has stopped
\* the exporter nothing listens, unless UpdateConfig started a server since.
THEOREM NothingListens == O!Spec => []AfterShutdownNothingListens
<1>1. O!Init => IInv
  BY Start
<1>2. IInv /\ [O!Next]_(O!vars) => IInv'
  BY Preserved
<1>3. IInv => AfterShutdownNothingListens
  BY Enough
<1> QED
  BY <1>1, <1>2, <1>3, PTL DEF O!Spec
=============================================================================
