-------------------------- MODULE ExporterCounters --------------------------
(***************************************************************************)
(* The metrics of the Prometheus exporter                                  *)
(* (infrastructure/export/prometheus.go) between the updates that feed     *)
(* them and the scrapes that read them at any moment, without a lock:      *)
(* gauges, which an update resets one after the other and fills again row  *)
(* by row, and counters, to which it adds how much a process or a disk has *)
(* read since the update before.  Written bytes and operation counts are   *)
(* treated like the bytes read; processCount is set in place.              *)
(*                                                                         *)
(* The exporter knows a process by its pid alone and forgets none; the     *)
(* system starts another process under a pid, a process takes another      *)
(* name, and a device is attached under a name, whenever they like.        *)
(***************************************************************************)
EXTENDS Naturals, Sequences, FiniteSets, SequencesExt

CONSTANTS
  Pids, Names, Devices,
  None,           \* not seen by an update yet
  ProcessLimit,   \* config.ProcessLimit, 0 for no limit
  MaxBytes,       \* bound: bytes read under one pid or device name
  MaxExported     \* bound: rows exported before an update begins

Labels == Pids \X Names

\* The gauges of each kind have numbers, in the order of the code: the CPU,
\* memory, threads and open files of a process, the queue length and the
\* utilization of a disk.  For each sample they are set in that order, and the
\* counters added to: after the gauges of a process, before those of a disk.
GaugesOf == [processes |-> 4, disks |-> 2]
CountAt == [processes |-> 4, disks |-> 0]
GaugeAt(kind, done) == IF kind = "processes" THEN done + 1 ELSE done

VARIABLES
  process,     \* per pid, the process that has it: its name and the bytes it has read
  disk,        \* per device, the bytes read since it was attached
  processRead, pidRead, diskRead,   \* history: what the processes of a label, of a pid, the devices of a name read
  renamed,     \* history: the pids whose process has taken another name
  prevProcessIO, prevDiskIO,
  processIORead, diskReadBytes,   \* counters
  counted,     \* history: what was added to the counters of a pid, under all its names
  rows,        \* per kind and number, the rows of a gauge
  update,      \* the update in progress: the rows it sets, what is left of its sample, the
               \* gauges it has reset, and what it has done for the first of the rest
  sample,      \* history: per kind, the rows the last update has set
  metricsExported  \* a counter: rows set by all updates

system == <<process, disk, processRead, pidRead, diskRead, renamed>>
counters == <<prevProcessIO, prevDiskIO, processIORead, diskReadBytes, counted>>
vars == <<system, counters, rows, update, sample, metricsExported>>

Idle == [kind |-> "idle", due |-> {}, rest |-> << >>, reset |-> 0, done |-> 0]

\* The families of metrics, all empty: a row appears when it is first set.
NoRows == [kind \in DOMAIN GaugesOf |-> [g \in 1..GaugesOf[kind] |-> {}]]

Init ==
  /\ process \in [Pids -> [name : Names, bytes : {0}]]
  /\ disk = [d \in Devices |-> 0]
  /\ processRead = [l \in Labels |-> 0] /\ diskRead = [d \in Devices |-> 0]
  /\ pidRead = [p \in Pids |-> 0] /\ renamed = {}
  /\ prevProcessIO = [p \in Pids |-> None] /\ prevDiskIO = [d \in Devices |-> None]
  /\ processIORead = [l \in Labels |-> 0] /\ counted = [p \in Pids |-> 0]
  /\ diskReadBytes = [d \in Devices |-> 0]
  /\ rows = NoRows
  /\ update = Idle
  /\ sample = [processes |-> {}, disks |-> {}]
  /\ metricsExported = 0

-----------------------------------------------------------------------------
(* The system the samples come from.  An update works on values sampled    *)
(* before it began, so the system moves between updates.                   *)

ProcessReads(p) ==
  /\ pidRead[p] < MaxBytes
  /\ process' = [process EXCEPT ![p].bytes = @ + 1]
  /\ processRead' = [processRead EXCEPT ![<<p, process[p].name>>] = @ + 1]
  /\ pidRead' = [pidRead EXCEPT ![p] = @ + 1]
  /\ UNCHANGED <<disk, diskRead, renamed>>

ProcessReplaced(p) ==
  /\ \E n \in Names : process' = [process EXCEPT ![p] = [name |-> n, bytes |-> 0]]
  /\ UNCHANGED <<disk, processRead, pidRead, diskRead, renamed>>

\* A process that runs another program, or names itself, goes on counting.
ProcessRenamed(p) ==
  /\ \E n \in Names \ {process[p].name} : process' = [process EXCEPT ![p].name = n]
  /\ renamed' = renamed \cup {p}
  /\ UNCHANGED <<disk, processRead, pidRead, diskRead>>

DiskReads(d) ==
  /\ diskRead[d] < MaxBytes
  /\ disk' = [disk EXCEPT ![d] = @ + 1]
  /\ diskRead' = [diskRead EXCEPT ![d] = @ + 1]
  /\ UNCHANGED <<process, processRead, pidRead, renamed>>

DiskReplaced(d) ==
  /\ disk' = [disk EXCEPT ![d] = 0]
  /\ UNCHANGED <<process, processRead, pidRead, diskRead, renamed>>

System ==
  /\ update = Idle
  /\ \/ \E p \in Pids : ProcessReads(p) \/ ProcessReplaced(p) \/ ProcessRenamed(p)
     \/ \E d \in Devices : DiskReads(d) \/ DiskReplaced(d)
  /\ UNCHANGED <<counters, rows, update, sample, metricsExported>>

-----------------------------------------------------------------------------
(* The updates. *)

\* What is added to a counter: nothing for a value never seen before, and
\* nothing when it went back.
Delta(prev, value) == IF prev = None \/ value < prev THEN 0 ELSE value - prev

Orders(S) == UNION {SetToSeqs(s) : s \in SUBSET S}

Limited(samples) ==
  IF ProcessLimit > 0 /\ Len(samples) > ProcessLimit THEN SubSeq(samples, 1, ProcessLimit) ELSE samples

\* The row a sample has in each gauge of its kind.
RowOf(kind, r) == IF kind = "processes" THEN <<r.pid, r.name>> ELSE r.device

Begin(kind, rest) ==
  /\ update = Idle /\ metricsExported < MaxExported
  /\ update' = [kind |-> kind, due |-> {RowOf(kind, rest[i]) : i \in DOMAIN rest},
                rest |-> rest, reset |-> 0, done |-> 0]
  /\ UNCHANGED <<system, counters, rows, sample, metricsExported>>

\* UpdateProcessMetrics: the sample is cut to the limit.
BeginProcesses(order) ==
  Begin("processes", Limited([i \in DOMAIN order |-> [pid |-> order[i], name |-> process[order[i]].name,
                                                      bytes |-> process[order[i]].bytes]]))

BeginDisks(order) ==
  Begin("disks", [i \in DOMAIN order |-> [device |-> order[i], bytes |-> disk[order[i]]]])

\* The gauges are reset, one after the other.
ResetGauge ==
  /\ update # Idle /\ update.reset < GaugesOf[update.kind]
  /\ rows' = [rows EXCEPT ![update.kind][update.reset + 1] = {}]
  /\ update' = [update EXCEPT !.reset = @ + 1]
  /\ UNCHANGED <<system, counters, sample, metricsExported>>

\* Then each sample of the rest in turn has its gauges set and is counted.
Refilling == update # Idle /\ update.reset = GaugesOf[update.kind] /\ update.rest # << >>

Advanced ==
  IF update.done = GaugesOf[update.kind]
  THEN [update EXCEPT !.rest = Tail(@), !.done = 0]
  ELSE [update EXCEPT !.done = @ + 1]

SetGauge ==
  /\ Refilling /\ update.done # CountAt[update.kind]
  /\ rows' = [rows EXCEPT ![update.kind][GaugeAt(update.kind, update.done)] =
                @ \cup {RowOf(update.kind, Head(update.rest))}]
  /\ update' = Advanced
  /\ UNCHANGED <<system, counters, sample, metricsExported>>

\* An update that keeps the first value it saw of a process.
CountProcessFromFirst ==
  /\ Refilling /\ update.kind = "processes" /\ update.done = CountAt.processes
  /\ LET p == Head(update.rest)
         delta == Delta(prevProcessIO[p.pid], p.bytes)
     IN  /\ processIORead' = [processIORead EXCEPT ![<<p.pid, p.name>>] = @ + delta]
         /\ counted' = [counted EXCEPT ![p.pid] = @ + delta]
         /\ prevProcessIO' = [prevProcessIO EXCEPT ![p.pid] = IF @ = None THEN p.bytes ELSE @]
  /\ update' = Advanced
  /\ UNCHANGED <<system, prevDiskIO, diskReadBytes, rows, sample, metricsExported>>

\* The counters of the label a process has now take what was read under its
\* pid since the last update that met the pid, whatever its name was then.
CountProcess ==
  /\ Refilling /\ update.kind = "processes" /\ update.done = CountAt.processes
  /\ LET p == Head(update.rest)
         delta == Delta(prevProcessIO[p.pid], p.bytes)
     IN  /\ processIORead' = [processIORead EXCEPT ![<<p.pid, p.name>>] = @ + delta]
         /\ counted' = [counted EXCEPT ![p.pid] = @ + delta]
         /\ prevProcessIO' = [prevProcessIO EXCEPT ![p.pid] = p.bytes]
  /\ update' = Advanced
  /\ UNCHANGED <<system, prevDiskIO, diskReadBytes, rows, sample, metricsExported>>

\* (The time counters, which take the whole total and not what was added to it,
\* are left out.)
CountDisk ==
  /\ Refilling /\ update.kind = "disks" /\ update.done = CountAt.disks
  /\ LET d == Head(update.rest)
     IN  /\ diskReadBytes' = [diskReadBytes EXCEPT ![d.device] = @ + Delta(prevDiskIO[d.device], d.bytes)]
         /\ prevDiskIO' = [prevDiskIO EXCEPT ![d.device] = d.bytes]
  /\ update' = Advanced
  /\ UNCHANGED <<system, prevProcessIO, processIORead, counted, rows, sample, metricsExported>>

\* The update is over, and counted by the rows it set.
Finish ==
  /\ update # Idle /\ update.reset = GaugesOf[update.kind] /\ update.rest = << >>
  /\ sample' = [sample EXCEPT ![update.kind] = update.due]
  /\ update' = Idle
  /\ metricsExported' = metricsExported + Cardinality(update.due)
  /\ UNCHANGED <<system, counters, rows>>

\* UpdateSystemMetrics and UpdateCPUPressure: every gauge has one row that is
\* set in place.
UpdateSystem ==
  /\ update = Idle /\ metricsExported < MaxExported
  /\ metricsExported' = metricsExported + 1
  /\ UNCHANGED <<system, counters, rows, update, sample>>

Next ==
  \/ System
  \/ \E order \in Orders(Pids) : BeginProcesses(order)
  \/ \E order \in Orders(Devices) : BeginDisks(order)
  \/ ResetGauge \/ SetGauge \/ CountProcess \/ CountDisk \/ Finish \/ UpdateSystem

Spec == Init /\ [][Next]_vars

-----------------------------------------------------------------------------
\* What is added under a pid was read under it, and added once; and where the
\* process of a pid never took another name, also under the label it was added
\* to.
CountersAreHonest ==
  /\ \A p \in Pids : counted[p] <= pidRead[p]
  /\ \A p \in Pids, n \in Names : processIORead[<<p, n>>] <= counted[p]
  /\ \A p \in Pids \ renamed, n \in Names : processIORead[<<p, n>>] <= processRead[<<p, n>>]
  /\ \A d \in Devices : diskReadBytes[d] <= diskRead[d]

\* A gauge shows what the last update set, or, while the next is running,
\* nothing but what that one sets.
RowsAreHonest ==
  \A kind \in DOMAIN rows : \A g \in DOMAIN rows[kind] :
    \/ rows[kind][g] = sample[kind]
    \/ update.kind = kind /\ rows[kind][g] \subseteq update.due

\* At any moment a scrape may come: the byte counters of a pid say no more than
\* was read under it, and those of a label no more than was read under the
\* label unless a process took another name, though pids are reused and rows
\* drop out of the limit and return; no gauge mixes the rows of two updates,
\* and between updates each has all rows of the last.
ScrapesAreHonest == CountersAreHonest /\ RowsAreHonest
=============================================================================
