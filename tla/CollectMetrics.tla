--------------------------- MODULE CollectMetrics ---------------------------
(***************************************************************************)
(* One request to the CollectMetrics use case                              *)
(* (application/usecases/collect_metrics.go): a single collection, a       *)
(* continuous one for some duration, by a goroutine of its own, or one in  *)
(* batches.  The collector and the repository are the environment: their   *)
(* calls succeed or fail as they like.                                     *)
(*                                                                         *)
(* The processes a collection finds are numbered from 1; the system        *)
(* metrics count as item 0.                                                *)
(***************************************************************************)
EXTENDS Integers, Sequences, Subsequences

CONSTANTS
  Limits,        \* the process limits a request may carry
  DefaultLimit,  \* what Validate puts for one that is not positive (100)
  MaxProcesses,  \* a bound on the processes a collection finds
  Name, User,    \* of each process
  Filters,       \* the filters a request may carry
  AnyUser,       \* no user filter
  Interval,      \* of a continuous request, in units of time
  Duration,
  MaxTime        \* a bound on the clock

ASSUME CollectAssumption ==
  /\ Limits \subseteq Int /\ DefaultLimit \in Nat \ {0}
  /\ MaxProcesses \in Nat
  /\ Interval \in Nat \ {0} /\ Duration \in Nat \ {0}
  /\ MaxTime \in Nat /\ MaxTime >= Duration

VARIABLES
  now,        \* the clock; a continuous request begins at 0
  cancelled,  \* the request's context is done
  mode,       \* what was asked for
  at,         \* where Execute is
  batchSize,  \* the process limit of a batch request
  found,      \* the processes the collector found, as Execute has them
  start,      \* where the next batch of them begins: so many are worked off
  saving,     \* of those reported, the ones not yet offered to the repository
  loop,       \* where the goroutine of a continuous request is
  tick,       \* the ticker's channel holds a tick
  stopClosed, \* stopChan is closed
  items,      \* ItemsCollected
  count,      \* ProcessCount
  reported,   \* the processes of the result, in order
  failed,     \* the errors counted
  result,     \* what Execute returned
  handed,     \* ghost: the items handed to the repository, in order
  broken,     \* ghost: a collector call returned an error
  lacking,    \* ghost: CollectAll returned none, but failed at some part
  unsaved     \* ghost: the repository failed to save a process

caller == <<mode, at, batchSize, found, start, result>>
goroutine == <<loop, tick, stopClosed>>
lists == <<items, count, reported, saving, handed>>
counts == <<lists, failed, broken, lacking, unsaved>>
vars == <<now, cancelled, caller, goroutine, counts>>

System == 0
UpTo(n) == [i \in 1..n |-> i]
Processes(seq) == Kept(seq, {i \in 1..Len(seq) : seq[i] # System})

Init ==
  /\ now = 0 /\ cancelled = FALSE
  /\ mode = "none" /\ at = "idle" /\ batchSize = 0 /\ result = "none"
  /\ found = << >> /\ start = 0
  /\ loop = "none" /\ tick = FALSE /\ stopClosed = FALSE
  /\ items = 0 /\ count = 0 /\ failed = 0
  /\ reported = << >> /\ saving = << >> /\ handed = << >>
  /\ broken = FALSE /\ lacking = FALSE /\ unsaved = FALSE

-----------------------------------------------------------------------------
(***************************************************************************)
(* Execute: Validate, then one of the three modes.                         *)
(***************************************************************************)
ValidatedBelowZero(limit) == IF limit < 0 THEN DefaultLimit ELSE limit
Validated(limit) == IF limit <= 0 THEN DefaultLimit ELSE limit

Call(m, limit) ==
  /\ at = "idle"
  /\ mode' = m /\ batchSize' = Validated(limit)
  /\ at' = CASE m = "single" -> "system"
             [] m = "batch" -> "all"
             [] m = "continuous" -> "waiting"
  /\ loop' = IF m = "continuous" THEN "select" ELSE loop
  /\ UNCHANGED <<now, cancelled, found, start, result, tick, stopClosed, counts>>

\* An unknown mode, or a continuous request without an interval or duration.
Reject ==
  /\ at = "idle"
  /\ at' = "returned" /\ result' = "error"
  /\ UNCHANGED <<now, cancelled, mode, batchSize, found, start, goroutine, counts>>

\* The system metrics are counted and offered to the repository, processes
\* are put into the result and then offered to it, one at a time.
DeliverSystem ==
  /\ items' = items + 1 /\ handed' = Append(handed, System)
  /\ UNCHANGED <<count, reported, saving>>

Report(processes) ==
  /\ reported' = reported \o processes
  /\ saving' = processes

\* A wrong save: its error is only logged, in a batch too.
SaveQuiet ==
  /\ saving # << >>
  /\ handed' = Append(handed, Head(saving)) /\ saving' = Tail(saving)
  /\ (UNCHANGED unsaved \/ unsaved' = TRUE)
  /\ UNCHANGED <<items, count, reported, failed, broken, lacking>>

\* A failed save of a process is logged; a batch request counts it too.
Save ==
  /\ saving # << >>
  /\ handed' = Append(handed, Head(saving)) /\ saving' = Tail(saving)
  /\ \/ UNCHANGED <<failed, unsaved>>
     \/ unsaved' = TRUE /\ failed' = failed + (IF mode = "batch" THEN 1 ELSE 0)
  /\ UNCHANGED <<items, count, reported, broken, lacking>>

Fail ==
  /\ failed' = failed + 1
  /\ broken' = TRUE
  /\ UNCHANGED <<lists, lacking, unsaved>>

Return == result' = IF failed = 0 THEN "success" ELSE "failure"

-----------------------------------------------------------------------------
(***************************************************************************)
(* executeSingleCollection                                                 *)
(***************************************************************************)
SingleSystem ==
  /\ at = "system"
  /\ at' = "processes"
  /\ Fail \/ (DeliverSystem /\ UNCHANGED <<failed, broken, lacking, unsaved>>)
  /\ UNCHANGED <<now, cancelled, mode, batchSize, found, start, result, goroutine>>

\* The filters of a request; a pattern is the set of processes it matches.
ShouldIncludeProcess(p, filters) ==
  /\ filters.names = {} \/ Name[p] \in filters.names
  /\ filters.patterns = {} \/ \E pattern \in filters.patterns : p \in pattern
  /\ Name[p] \notin filters.excluded
  /\ filters.user \in {AnyUser, User[p]}

\* collectProcessMetrics keeps the processes the filters let through.
SingleProcesses ==
  /\ at = "processes"
  /\ \/ Fail /\ at' = "done" /\ UNCHANGED found
     \/ /\ at' = "saving"
        /\ \E n \in 0..MaxProcesses, filters \in Filters :
             found' = Kept(UpTo(n), {p \in 1..n : ShouldIncludeProcess(p, filters)})
        /\ Report(found')
        /\ count' = Len(found') /\ items' = items + Len(found')
        /\ UNCHANGED <<handed, failed, broken, lacking, unsaved>>
  /\ UNCHANGED <<now, cancelled, mode, batchSize, start, result, goroutine>>

CallerSave ==
  /\ at = "saving" /\ Save
  /\ UNCHANGED <<now, cancelled, caller, goroutine>>

CallerSaved ==
  /\ at = "saving" /\ saving = << >>
  /\ at' = IF mode = "batch" THEN "batches" ELSE "done"
  /\ UNCHANGED <<now, cancelled, mode, batchSize, found, start, result, goroutine, counts>>

-----------------------------------------------------------------------------
(***************************************************************************)
(* executeBatchCollection                                                  *)
(***************************************************************************)
\* Nothing is reported when CollectAll returns an error.  It returns none for
\* the parts it fails at, and their errors in the result nobody looks at: then
\* there are no system metrics, or no processes, or all but, say, the disks.
BatchCollect ==
  /\ at = "all"
  /\ \/ at' = "returned" /\ result' = "failure" /\ Fail /\ UNCHANGED found
     \/ /\ at' = "batches"
        /\ \E errors \in SUBSET {"system", "processes", "others"}, n \in 0..MaxProcesses :
             /\ found' = UpTo(IF "processes" \in errors THEN 0 ELSE n)
             /\ (DeliverSystem /\ "system" \notin errors) \/ UNCHANGED lists
             /\ lacking' = (errors # {})
        /\ UNCHANGED <<result, failed, broken, unsaved>>
  /\ UNCHANGED <<now, cancelled, mode, batchSize, start, goroutine>>

\* A wrong loop: it stops when less than a batch is left.
BatchRoundWhole ==
  LET end == start + batchSize
  IN  /\ at = "batches" /\ start < Len(found)
      /\ Report(SubSeq(found, start + 1, IF end > Len(found) THEN Len(found) ELSE end))
      /\ start' = IF end + batchSize > Len(found) THEN Len(found) ELSE end
      /\ at' = "saving"
      /\ UNCHANGED <<now, cancelled, mode, batchSize, found, result, goroutine, items, count,
                     handed, failed, broken, lacking, unsaved>>

\* One round of the loop over the batches; its saves follow.
BatchRound ==
  LET end == IF start + batchSize > Len(found) THEN Len(found) ELSE start + batchSize
  IN  /\ at = "batches" /\ start < Len(found)
      /\ Report(SubSeq(found, start + 1, end))
      /\ start' = start + batchSize
      /\ at' = "saving"
      /\ UNCHANGED <<now, cancelled, mode, batchSize, found, result, goroutine, items, count,
                     handed, failed, broken, lacking, unsaved>>

\* The counts are of what was found, not of what the loop took from it.
BatchEnd ==
  /\ at = "batches" /\ start >= Len(found)
  /\ at' = "done"
  /\ count' = Len(found) /\ items' = items + Len(found)
  /\ UNCHANGED <<now, cancelled, mode, batchSize, found, start, result, goroutine,
                 reported, saving, handed, failed, broken, lacking, unsaved>>

-----------------------------------------------------------------------------
(***************************************************************************)
(* executeContinuousCollection: the goroutine.                             *)
(***************************************************************************)
\* select takes any case that is ready.
LoopQuit ==
  /\ loop = "select" /\ (cancelled \/ stopClosed)
  /\ loop' = "done"
  /\ UNCHANGED <<now, cancelled, caller, tick, stopClosed, counts>>

LoopTick ==
  /\ loop = "select" /\ tick
  /\ tick' = FALSE
  /\ loop' = IF now > Duration THEN "done" ELSE "system"
  /\ UNCHANGED <<now, cancelled, caller, stopClosed, counts>>

\* The callback only counts an error; what was collected before is dropped.
LoopSystem ==
  /\ loop = "system"
  /\ \/ Fail /\ loop' = "select"
     \/ UNCHANGED counts /\ loop' = "processes"
  /\ UNCHANGED <<now, cancelled, caller, tick, stopClosed>>

LoopProcesses ==
  /\ loop = "processes"
  /\ \/ Fail /\ loop' = "select"
     \/ /\ loop' = "saving"
        /\ handed' = Append(handed, System)
        /\ \E n \in 0..MaxProcesses : Report(UpTo(n)) /\ items' = items + 1 + n
        /\ UNCHANGED <<count, failed, broken, lacking, unsaved>>
  /\ UNCHANGED <<now, cancelled, caller, tick, stopClosed>>

LoopSave ==
  /\ loop = "saving"
  /\ \/ Save /\ UNCHANGED loop
     \/ saving = << >> /\ loop' = "select" /\ UNCHANGED counts
  /\ UNCHANGED <<now, cancelled, caller, tick, stopClosed>>

-----------------------------------------------------------------------------
(***************************************************************************)
(* executeContinuousCollection: the caller waits for the duration or the   *)
(* context, closes stopChan and waits for the goroutine.                   *)
(***************************************************************************)
WaitOver ==
  /\ at = "waiting"
  /\ \/ cancelled /\ at' = "quitting"
     \/ now >= Duration /\ at' = "stopping"
  /\ stopClosed' = TRUE
  /\ UNCHANGED <<now, cancelled, mode, batchSize, found, start, result, loop, tick, counts>>

NotWaitedFor == TRUE
LoopEnded == loop = "done"

\* A request whose context is done gets no result.
Abandon ==
  /\ at = "quitting" /\ LoopEnded
  /\ at' = "returned" /\ result' = "error"
  /\ UNCHANGED <<now, cancelled, mode, batchSize, found, start, goroutine, counts>>

Finish ==
  /\ \/ at = "done"
     \/ at = "stopping" /\ LoopEnded
  /\ at' = "returned" /\ Return
  /\ count' = IF mode = "continuous" THEN Len(reported) ELSE count
  /\ UNCHANGED <<now, cancelled, mode, batchSize, found, start, goroutine, items, reported,
                 saving, handed, failed, broken, lacking, unsaved>>

-----------------------------------------------------------------------------
(***************************************************************************)
(* The environment: the context's owner, and time.  The ticker drops ticks *)
(* when its channel is full, and is stopped when Execute returns.          *)
(***************************************************************************)
Cancel ==
  /\ ~cancelled /\ cancelled' = TRUE
  /\ UNCHANGED <<now, caller, goroutine, counts>>

Clock ==
  /\ mode = "continuous" /\ now < MaxTime
  /\ now' = now + 1
  /\ tick' = (tick \/ (at # "returned" /\ now' % Interval = 0))
  /\ UNCHANGED <<cancelled, caller, loop, stopClosed, counts>>

Caller ==
  \/ SingleSystem \/ SingleProcesses \/ CallerSave \/ CallerSaved
  \/ BatchCollect \/ BatchRound \/ BatchEnd
  \/ WaitOver \/ Abandon \/ Finish

Goroutine == LoopQuit \/ LoopTick \/ LoopSystem \/ LoopProcesses \/ LoopSave

Next ==
  \/ \E limit \in Limits, m \in {"single", "continuous", "batch"} : Call(m, limit)
  \/ Reject \/ Caller \/ Goroutine \/ Cancel \/ Clock

Spec == Init /\ [][Next]_vars

\* Goroutines that can run do, collector and repository calls return, and
\* time passes; select, which is fair, takes a case ready again and again.
Fairness ==
  WF_vars(Caller) /\ WF_vars(Goroutine) /\ SF_vars(LoopQuit) /\ WF_vars(Clock)

FairSpec == Spec /\ Fairness

-----------------------------------------------------------------------------
TypeOK ==
  /\ now \in 0..MaxTime /\ batchSize \in Nat /\ start \in Nat
  /\ mode \in {"none", "single", "continuous", "batch"}
  /\ at \in {"idle", "system", "processes", "saving", "all", "batches", "done",
             "waiting", "quitting", "stopping", "returned"}
  /\ loop \in {"none", "select", "system", "processes", "saving", "done"}
  /\ \A b \in {cancelled, tick, stopClosed, broken, lacking, unsaved} : b \in BOOLEAN
  /\ items \in Nat /\ count \in Nat /\ failed \in Nat
  /\ \A seq \in {found, reported, saving, handed} : seq \in Seq(0..MaxProcesses)
  /\ result \in {"none", "success", "failure", "error"}

\* The three accounts of a result agree, which the code keeps apart: what it
\* counts, what it lists and what was handed to the repository, in the same
\* order.  A single or a batch request lists every process it found (that the
\* filters let through), once, whatever the batch size.
ReportedWasHanded ==
  (at = "returned" /\ result # "error") =>
    /\ items = Len(handed) /\ count = Len(reported)
    /\ reported = Processes(handed) /\ saving = << >>
    /\ mode # "continuous" => reported = found

\* A result of success is true: no collector call returned an error, and in
\* batch mode, which counts them, no save of a process failed; and one of
\* failure names such an error.  Of a batch, success does not say that it
\* lacks no part: the errors of the parts are in what CollectAll returned, and
\* executeBatchCollection does not ask.
SuccessIsTrue ==
  LET clean == ~broken /\ (mode = "batch" => ~unsaved)
  IN  /\ result = "success" => clean
      /\ result = "failure" => ~clean

\* Why: the goroutine lives only while Execute waits for it, and a result of
\* success was returned when no error had been counted.
Awaited ==
  /\ at \notin {"waiting", "quitting", "stopping"} => loop \in {"none", "done"}
  /\ failed \in Nat
  /\ failed = 0 <=> ~broken /\ (mode = "batch" => ~unsaved)
  /\ at = "idle" => ~unsaved /\ loop = "none"
  /\ mode = "batch" => loop = "none"
  /\ at \in {"waiting", "quitting", "stopping"} => mode = "continuous"
  /\ at \in {"system", "processes"} => mode = "single"
  /\ at \in {"all", "batches"} => mode = "batch"
  /\ at = "saving" => mode \in {"single", "batch"}
  /\ result = "success" => at = "returned" /\ failed = 0
  /\ result = "failure" => at = "returned" /\ failed # 0

\* Once Execute has returned, its goroutine is gone: nothing is collected or
\* saved on the request's behalf any more.
NothingAfterReturn ==
  [][at = "returned" => UNCHANGED <<loop, counts, result>>]_vars

\* Every request returns, after its duration or when its context is done.
Returns == at # "idle" ~> at = "returned"
=============================================================================
