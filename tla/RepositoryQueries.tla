------------------------- MODULE RepositoryQueries -------------------------
(***************************************************************************)
(* What the in-memory repository (infrastructure/storage/memory.go)        *)
(* computes from the samples it holds: queries by time, the processes with *)
(* most of a metric, and the aggregation of several samples into one.      *)
(*                                                                         *)
(* A process sample is a record: pid, usage (a field every sample has: CPU,*)
(* resident memory or threads, which are sorted and aggregated alike) and  *)
(* io, a number of bytes or NoCounters where the counters could not be     *)
(* read.  The methods by which a filter matches a sample are not in the    *)
(* repository's code: a query here is one by time.                         *)
(***************************************************************************)
EXTENDS TimeSeries, SliceSort

CONSTANTS
  NoCounters,   \* a sample without I/O counters
  MaxSamples, MaxUsage  \* bounds on the inputs of the checks below

ASSUME QueriesAssumption == NoCounters \notin Nat /\ MaxSamples \in Nat /\ MaxUsage \in Nat

-----------------------------------------------------------------------------
(***************************************************************************)
(* Queries.                                                                *)
(***************************************************************************)
QuerySystemMetrics(log, linearLimit, from, to) == RangeRead(log, linearLimit, from, to)

\* With a key the query reads the index, where an unknown key has nothing;
\* without one it reads the main buffer.
QueryIndexed(main, index, keys, linearLimit, from, to) ==
  IF keys = {} THEN RangeRead(main, linearLimit, from, to)
  ELSE LET k == CHOOSE k \in keys : TRUE
       IN  IF k \in DOMAIN index THEN RangeRead(index[k], linearLimit, from, to) ELSE << >>

\* The estimate HealthCheck compares with its limit of 1 GB: what each buffer
\* is allocated for, whether or not it is full.
EstimateMemoryUsage(capacities, entrySize) ==
  MapThenSumSet(LAMBDA b : capacities[b] * entrySize, DOMAIN capacities)

HealthCheck(capacities, entrySize, limit) ==
  EstimateMemoryUsage(capacities, entrySize) <= limit

-----------------------------------------------------------------------------
\* The order GetTopProcesses sorts by.  Where counters are missing from either
\* sample the code says neither is more: such samples are incomparable, which
\* is not a weak order.
More(a, b, metric) ==
  CASE metric = "usage" -> a.usage > b.usage
    [] metric = "io"    -> a.io # NoCounters /\ b.io # NoCounters /\ a.io > b.io
    [] OTHER            -> a.pid < b.pid

SortProcessesByMetric(samples, metric) ==
  SortSlice(samples, LAMBDA a, b : More(a, b, metric))

\* A wrong top: the samples are cut before they are sorted.
TopOfTheOldest(log, metric, limit) ==
  SortProcessesByMetric(SubSeq(log, 1, IF Len(log) > limit THEN limit ELSE Len(log)), metric)

\* Every sample the buffer holds is a candidate, several of one process too.
GetTopProcesses(log, metric, limit) ==
  LET sorted == SortProcessesByMetric(Newest(log, Len(log)), metric)
  IN  IF Len(sorted) > limit THEN SubSeq(sorted, 1, limit) ELSE sorted

-----------------------------------------------------------------------------
(***************************************************************************)
(* Aggregation of the values of one field.  An average of sizes is rounded *)
(* down; a type the code does not know gives the first sample.             *)
(***************************************************************************)
Total(values) ==
  LET total[i \in 0..Len(values)] == IF i = 0 THEN 0 ELSE total[i - 1] + values[i]
  IN  total[Len(values)]

Least(values) == Min(ToSet(values))
Most(values)  == Max(ToSet(values))

AggregateSystemMetrics(values, type) ==
  CASE type = "average" -> Total(values) \div Len(values)
    [] type = "min"     -> Least(values)
    [] type = "max"     -> Most(values)
    [] type = "sum"     -> Total(values)
    [] OTHER            -> values[1]

\* The samples of one process.  A sum is a type this function does not know;
\* the least and the most of the I/O counters are those of the first sample;
\* an average of nothing read has no counters.
AggregateProcessMetrics(samples, type) ==
  LET usage == [i \in DOMAIN samples |-> samples[i].usage]
      bytes == [i \in DOMAIN samples |->
                  IF samples[i].io = NoCounters THEN 0 ELSE samples[i].io]
  IN  CASE type = "average" ->
             [samples[1] EXCEPT
                !.usage = Total(usage) \div Len(usage),
                !.io = IF Total(bytes) > 0 THEN Total(bytes) \div Len(bytes) ELSE NoCounters]
        [] type = "min" -> [samples[1] EXCEPT !.usage = Least(usage)]
        [] type = "max" -> [samples[1] EXCEPT !.usage = Most(usage)]
        [] OTHER -> samples[1]

-----------------------------------------------------------------------------
ProcessSamples == [pid : 1..2, usage : 0..MaxUsage, io : (0..MaxUsage) \cup {NoCounters}]
Inputs == UNION {[1..n -> ProcessSamples] : n \in 1..MaxSamples}

\* No sample that is left out has more of the metric than one that is returned,
\* and the answer begins with those that have most.  For the I/O metrics this
\* takes that every sample has its counters: the code's order is none otherwise.
TopIsTop(samples, metric, limit) ==
  LET top == GetTopProcesses(samples, metric, limit)
      atLeast(m) == Cardinality({i \in DOMAIN samples : ~More(m, samples[i], metric)})
  IN  (metric = "io" => \A i \in DOMAIN samples : samples[i].io # NoCounters) =>
        /\ Len(top) = IF limit < Len(samples) THEN limit ELSE Len(samples)
        /\ \A i \in DOMAIN top : atLeast(top[i]) >= i
        /\ \A i, j \in DOMAIN top : i < j => ~More(top[j], top[i], metric)
        /\ \A i \in DOMAIN samples :
             Contains(top, samples[i]) \/ \A j \in DOMAIN top : ~More(samples[i], top[j], metric)

\* One sample that stands for many stays between the extremes of its fields,
\* and both are values that were measured; counters that were read once or
\* more are not lost by averaging unless they were zero.
AggregatesBracket(samples) ==
  LET at(type) == AggregateProcessMetrics(samples, type)
      usage == [i \in DOMAIN samples |-> samples[i].usage]
  IN  /\ at("min").usage <= at("average").usage /\ at("average").usage <= at("max").usage
      /\ {at("min").usage, at("max").usage} \subseteq ToSet(usage)
      /\ \A type \in {"average", "min", "max"} :
           AggregateSystemMetrics(usage, type) = at(type).usage
      /\ AggregateSystemMetrics(usage, "sum") >= Len(usage) * at("average").usage
      /\ at("average").io = NoCounters =>
           \A i \in DOMAIN samples : samples[i].io \in {0, NoCounters}
      /\ \A type \in {"average", "min", "max", "sum"} : at(type).pid = samples[1].pid

\* The answers computed from the samples are right for every short history.
EveryAnswerIsRight ==
  \A samples \in Inputs :
    /\ AggregatesBracket(samples)
    /\ \A metric \in {"usage", "io", "pid"} :
         \A limit \in 0..MaxSamples : TopIsTop(samples, metric, limit)
=============================================================================
