----------------------------- MODULE DiskRates -----------------------------
(***************************************************************************)
(* How the Linux collector turns the kernel's disk counters into rates     *)
(* (collector/linux/diskstats.go and cache.go): a collection samples the   *)
(* counters of a device and asks the cache for the rate of each, one call  *)
(* and one locking after the other, while other collections of the same    *)
(* device and the cache's cleanup goroutine run.                           *)
(*                                                                         *)
(* Time is counted in ticks; the counters are bytes, operations and busy   *)
(* milliseconds.  The queue depth, computed beside the utilization and in  *)
(* the same way, is left out.                                              *)
(***************************************************************************)
EXTENDS Integers, FiniteSets, Functions

CONSTANTS
  Devices,
  Collectors,     \* goroutines that collect
  TicksPerMilli,  \* the precision of the clock, at least 1
  MaxAge,         \* ticks after which the cleanup drops an entry (5 minutes)
  Word,           \* the counters are unsigned and wrap at this (2^64)
  NoEntry,
  Growing,        \* the counters that grow
  MaxTime, MaxGrowth, MaxResets  \* bounds on the clock and the counters

VARIABLES
  now,        \* the clock
  counters,   \* of each device: what the kernel counts
  resets,     \* times a device was detached and attached again
  cache,      \* of each device: the latest samples and when they were taken
  collector,  \* of each goroutine: where its collection is
  grown,      \* ghost: what each counter grew by since the start
  credited,   \* ghost: the bytes that the reported rates amount to, times the
              \*   ticks of a second
  overlapped, \* ghost: devices that two collections sampled at once
  stalled     \* ghost: devices dropped from the cache during a collection

kernel == <<counters, resets, grown>>
ghosts == <<credited, overlapped, stalled>>
vars == <<now, kernel, cache, collector, ghosts>>

Kinds == {"readBytes", "writeBytes", "reads", "writes", "ioTime"}
ByteKinds == {"readBytes", "writeBytes"}
OpKinds == {"reads", "writes"}
Counts == [Kinds -> Nat]
Zeros == [k \in Kinds |-> 0]
Entry == [val : Counts, at : Nat]
Idle == [pc |-> "idle"]
TicksPerSecond == 1000 * TicksPerMilli

Init ==
  /\ now = 0 /\ resets = 0
  /\ counters \in [Devices -> {[k \in Kinds |-> IF k \in Growing THEN n ELSE 0] : n \in 0..1}]
  /\ cache = [d \in Devices |-> NoEntry]
  /\ collector = [c \in Collectors |-> Idle]
  /\ grown = [d \in Devices |-> Zeros]
  /\ credited = [d \in Devices |-> [k \in ByteKinds |-> 0]]
  /\ overlapped = {} /\ stalled = {}

-----------------------------------------------------------------------------
(***************************************************************************)
(* The kernel: devices do I/O; one attached again counts from zero.        *)
(***************************************************************************)
Grow(d, k) ==
  /\ SumFunction(grown[d]) < MaxGrowth
  /\ counters' = [counters EXCEPT ![d][k] = @ + 1]
  /\ grown' = [grown EXCEPT ![d][k] = @ + 1]
  /\ UNCHANGED <<now, resets, cache, collector, ghosts>>

Reattach(d) ==
  /\ resets < MaxResets
  /\ resets' = resets + 1
  /\ counters' = [counters EXCEPT ![d] = Zeros]
  /\ UNCHANGED <<now, grown, cache, collector, ghosts>>

Tick == now < MaxTime /\ now' = now + 1 /\ UNCHANGED <<kernel, cache, collector, ghosts>>

-----------------------------------------------------------------------------
(***************************************************************************)
(* The cache.                                                              *)
(***************************************************************************)
\* What a call for kind k returns: the growth since the last sample, per
\* second of the time since the last call for ANY kind of the device.
RateOf(entry, k, current) ==
  IF entry = NoEntry \/ now = entry.at \/ current < entry.val[k] THEN 0
  ELSE ((current - entry.val[k]) * TicksPerSecond) \div (now - entry.at)

SampledTimeOnly(entry, k, current, first) ==
  IF entry = NoEntry
  THEN [val |-> [j \in Kinds |-> IF j \in first THEN current ELSE 0], at |-> now]
  ELSE [val |-> entry.val, at |-> now]

\* The entry such a call leaves.  The first sample of a device is stored under
\* each of the kinds in first, whichever it is of; at an interval of zero the
\* call has returned before it stores anything.
Sampled(entry, k, current, first) ==
  IF entry = NoEntry
  THEN [val |-> [j \in Kinds |-> IF j \in first THEN current ELSE 0], at |-> now]
  ELSE IF now = entry.at THEN entry
  ELSE [val |-> [entry.val EXCEPT ![k] = current], at |-> now]

UpdatedAnew(entry, k, value) == [val |-> [Zeros EXCEPT ![k] = value], at |-> now]

\* The entry updateDiskStat leaves.
Updated(entry, k, value) ==
  LET old == IF entry = NoEntry THEN Zeros ELSE entry.val
  IN  [val |-> [old EXCEPT ![k] = value], at |-> now]

\* The goroutine that startCleanup starts looks at the cache every minute.
Busy(d) == {c \in Collectors : collector[c].pc # "idle" /\ collector[c].device = d}

Cleanup ==
  LET old == {d \in Devices : cache[d] # NoEntry /\ now - cache[d].at > MaxAge}
  IN  /\ old # {}
      /\ cache' = [d \in Devices |-> IF d \in old THEN NoEntry ELSE cache[d]]
      /\ stalled' = stalled \cup {d \in old : Busy(d) # {}}
      /\ UNCHANGED <<now, kernel, collector, credited, overlapped>>

-----------------------------------------------------------------------------
(***************************************************************************)
(* A collection of one device: collectDiskIO, and one round of the loop in *)
(* collectAllDiskIO.                                                       *)
(***************************************************************************)
Sample(d, kinds) == [k \in kinds |-> counters[d][k]]

\* disk.IOCounters(device) samples the byte counters.
Begin(c, d) ==
  /\ collector[c].pc = "idle"
  /\ collector' = [collector EXCEPT
       ![c] = [pc |-> "readRate", device |-> d, seen |-> Sample(d, ByteKinds)]]
  /\ overlapped' = IF Busy(d) = {} THEN overlapped ELSE overlapped \cup {d}
  /\ UNCHANGED <<now, kernel, cache, credited, stalled>>

\* A call of calculateDiskIORate or calculateDiskIOPS for kind k.
Calculate(c, k, first) ==
  LET d == collector[c].device
      current == collector[c].seen[k]
  IN  /\ cache' = [cache EXCEPT ![d] = Sampled(@, k, current, first)]
      /\ credited' =
           IF k \notin ByteKinds \/ cache[d] = NoEntry THEN credited
           ELSE [credited EXCEPT
                   ![d][k] = @ + RateOf(cache[d], k, current) * (now - cache[d].at)]
      /\ UNCHANGED <<now, kernel, overlapped, stalled>>

Step(c, from, to) ==
  /\ collector[c].pc = from
  /\ collector' = [collector EXCEPT ![c].pc = to]

ReadRate(c) == Step(c, "readRate", "writeRate") /\ Calculate(c, "readBytes", ByteKinds)
WriteRate(c) == Step(c, "writeRate", "stats") /\ Calculate(c, "writeBytes", ByteKinds)

\* readDiskStats samples again, unless it fails and the collection is over.
ReadDiskStats(c) ==
  /\ collector[c].pc = "stats"
  /\ \/ collector' = [collector EXCEPT
            ![c].pc = "readIOPS",
            ![c].seen = Sample(collector[c].device, OpKinds \cup {"ioTime"})]
     \/ collector' = [collector EXCEPT ![c] = Idle]
  /\ UNCHANGED <<now, kernel, cache, ghosts>>

ReadIOPS(c) == Step(c, "readIOPS", "writeIOPS") /\ Calculate(c, "reads", OpKinds)
WriteIOPS(c) == Step(c, "writeIOPS", "getStat") /\ Calculate(c, "writes", OpKinds)

\* calculateDeltaMetrics: the previous busy time, ...
GetDiskStat(c) ==
  LET d == collector[c].device
  IN  /\ collector[c].pc = "getStat"
      /\ collector' = [collector EXCEPT ![c] =
           [pc |-> "getTimestamp", device |-> d, seen |-> @.seen,
            prev |-> IF cache[d] = NoEntry THEN 0 ELSE cache[d].val["ioTime"]]]
      /\ UNCHANGED <<now, kernel, cache, ghosts>>

\* ... when it was sampled, as it seems, zero meaning never, and the time ...
GetDiskStatTimestamp(c) ==
  LET d == collector[c].device
  IN  /\ collector[c].pc = "getTimestamp"
      /\ collector' = [collector EXCEPT ![c] =
           [pc |-> "update", device |-> d, seen |-> @.seen, prev |-> @.prev,
            interval |-> IF cache[d] = NoEntry THEN 0 ELSE now - cache[d].at]]
      /\ UNCHANGED <<now, kernel, cache, ghosts>>

\* ... and the new busy time, with which the collection ends.
UpdateDiskStat(c) ==
  LET d == collector[c].device
  IN  /\ collector[c].pc = "update"
      /\ cache' = [cache EXCEPT ![d] = Updated(@, "ioTime", collector[c].seen["ioTime"])]
      /\ collector' = [collector EXCEPT ![c] = Idle]
      /\ UNCHANGED <<now, kernel, ghosts>>

\* The utilization it reports, in percent: the difference is unsigned.
Utilization(c) ==
  LET interval == collector[c].interval \div TicksPerMilli
      busy == (collector[c].seen["ioTime"] - collector[c].prev) % Word
      percent == (busy * 100) \div interval
  IN  IF collector[c].prev = 0 \/ interval = 0 THEN 0
      ELSE IF percent > 100 THEN 100 ELSE percent

-----------------------------------------------------------------------------
Collecting(c) ==
  \/ ReadRate(c) \/ WriteRate(c) \/ ReadDiskStats(c)
  \/ ReadIOPS(c) \/ WriteIOPS(c)
  \/ GetDiskStat(c) \/ GetDiskStatTimestamp(c) \/ UpdateDiskStat(c)

Next ==
  \/ Tick
  \/ Cleanup
  \/ \E d \in Devices : Reattach(d) \/ \E k \in Growing : Grow(d, k)
  \/ \E c \in Collectors : (\E d \in Devices : Begin(c, d)) \/ Collecting(c)

Spec == Init /\ [][Next]_vars

-----------------------------------------------------------------------------
\* Where a collection may be, and what it has in its hands there.
Places ==
  {Idle}
  \cup [pc : {"readRate", "writeRate", "stats"}, device : Devices, seen : [ByteKinds -> Nat]]
  \cup [pc : {"readIOPS", "writeIOPS", "getStat"}, device : Devices, seen : [OpKinds \cup {"ioTime"} -> Nat]]
  \cup [pc : {"getTimestamp"}, device : Devices, seen : [OpKinds \cup {"ioTime"} -> Nat], prev : Nat]
  \cup [pc : {"update"}, device : Devices, seen : [OpKinds \cup {"ioTime"} -> Nat], prev : Nat, interval : Nat]

TypeOK ==
  /\ now \in 0..MaxTime
  /\ counters \in [Devices -> Counts] /\ resets \in 0..MaxResets
  /\ cache \in [Devices -> Entry \cup {NoEntry}]
  /\ \A d \in Devices : cache[d] # NoEntry => cache[d].at <= now
  /\ collector \in [Collectors -> Places]
  /\ grown \in [Devices -> Counts] /\ credited \in [Devices -> [ByteKinds -> Nat]]
  /\ overlapped \subseteq Devices /\ stalled \subseteq Devices

\* No byte is reported twice: however samples, idle intervals, counter resets
\* and expiries follow one another, the read rates of a device, each times the
\* interval it is computed over, never add up to more than was read, as long
\* as one collection at a time samples it and none is held up until its entry
\* expires.
Conserved(k, factor) ==
  \A d \in Devices \ stalled : credited[d][k] <= factor * grown[d][k] * TicksPerSecond

ReadsConserved == overlapped = {} => Conserved("readBytes", 1)

\* Why: what a device has read and no rate has claimed yet covers what the next
\* call would claim, with the sample a collection has in its hands or with one
\* taken now; and the entry of a collection that has made its first call stays.
Claim(d, sample) ==
  IF cache[d] = NoEntry \/ sample < cache[d].val["readBytes"] THEN 0
  ELSE sample - cache[d].val["readBytes"]

Since(d, sample) ==
  IF counters[d]["readBytes"] < sample THEN 0 ELSE counters[d]["readBytes"] - sample

Covered(d, bytes) ==
  credited[d]["readBytes"] + bytes * TicksPerSecond <= grown[d]["readBytes"] * TicksPerSecond

Sampling(d) == {c \in Busy(d) : collector[c].pc = "readRate"}

ReadsCovered(d) ==
  /\ \A c, b \in Busy(d) : c = b
  /\ \A c \in Busy(d) \ Sampling(d) : cache[d] # NoEntry
  /\ Sampling(d) = {} => Covered(d, Claim(d, counters[d]["readBytes"]))
  /\ \A c \in Sampling(d) :
       Covered(d, Claim(d, collector[c].seen["readBytes"]) + Since(d, collector[c].seen["readBytes"]))

ReadsInv == \A d \in Devices \ (stalled \cup overlapped) : ReadsCovered(d)

\* Collections that overlap overtake each other between the sample and the
\* call: an old sample is stored over a newer one and its bytes are reported
\* again.  Each byte, however, at most once more for every other collector.
OverlapBounded == resets = 0 => Conserved("readBytes", Cardinality(Collectors))

\* Why: every collection with a sample in its hands may have its call report
\* again what was read since, and so may the next call what was read since the
\* entry's sample.  That is one reader more than there are collectors when all
\* have sampled: then the sample that falls behind least covers the rest, and
\* one of them is no older than the entry's.
Pending(d) ==
  {p \in Collectors \X (1..counters[d]["readBytes"]) :
     p[1] \in Sampling(d) /\ collector[p[1]].seen["readBytes"] < p[2]}

Behind(d) == Cardinality(Pending(d)) + Claim(d, counters[d]["readBytes"])

CoveredWith(d, spare) ==
  credited[d]["readBytes"] + Behind(d) * TicksPerSecond
    <= (Cardinality(Collectors) * grown[d]["readBytes"] + spare) * TicksPerSecond

Crowded(d) == Sampling(d) = Collectors /\ cache[d] # NoEntry

OverlapCovered(d) ==
  /\ \A c \in Busy(d) \ Sampling(d) : cache[d] # NoEntry
  /\ cache[d] # NoEntry => cache[d].val["readBytes"] <= counters[d]["readBytes"]
  /\ \A c \in Sampling(d) : collector[c].seen["readBytes"] <= counters[d]["readBytes"]
  /\ Crowded(d) =>
       /\ \E c \in Sampling(d) : cache[d].val["readBytes"] <= collector[c].seen["readBytes"]
       /\ \A c \in Sampling(d) : CoveredWith(d, Since(d, collector[c].seen["readBytes"]))
  /\ ~Crowded(d) => CoveredWith(d, 0)

OverlapInv == resets = 0 => \A d \in Devices \ stalled : OverlapCovered(d)

\* A utilization is a percentage even when the busy time went back and the
\* unsigned difference wrapped, or an overlapping collection stored a later one.
UtilizationIsPercent ==
  \A c \in Collectors : collector[c].pc = "update" => Utilization(c) \in 0..100

\* "calculateDiskIORate calculates I/O rate for a disk" (cache.go): of writes
\* as of reads, the bytes that the rate amounts to were written.
WritesConserved == overlapped = {} => Conserved("writeBytes", 1)
=============================================================================
