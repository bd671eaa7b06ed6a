---------------------------- MODULE ExportMetrics ----------------------------
(***************************************************************************)
(* Exports of the samples a repository holds                               *)
(* (application/usecases/export_metrics.go, with the requests of           *)
(* application/dto/operations.go): one-shot exports, each two queries, a   *)
(* rendering and a write that may fail half-way, and a stream that pages   *)
(* through the system samples in batches.  Collections save samples and    *)
(* push out old ones between any two steps, and exports may meet on a      *)
(* path: the files are written without a lock.                             *)
(*                                                                         *)
(* A sample is a record [kind, time, busy]; a rendering is the sequence of *)
(* the samples it shows, in order.  Compression, headers and number        *)
(* formats are left out: every rendering is as long as what it shows.      *)
(***************************************************************************)
EXTENDS TimeSeries, SequencesExt

CONSTANTS
  Exporters,   \* calls of Execute
  Paths,       \* files they may write to
  Formats, Destinations, PartsAsked,  \* what requests may ask for
  Since, Until, \* where the time ranges that requests name begin and end
  BatchSize,   \* Options.BatchSize of the stream
  Capacity,    \* of the repository's buffers
  BusyTimes,   \* when the processes use the processor
  MaxTime, MaxStreamTime  \* bounds: collections made beside exports, beside a stream

ASSUME ExportAssumption ==
  /\ BatchSize \in Nat \ {0} /\ Capacity \in Nat \ {0} /\ MaxTime \in Nat /\ MaxStreamTime \in Nat
  /\ PartsAsked \subseteq SUBSET {"system", "processes"} /\ BusyTimes \subseteq Nat
  /\ Since \subseteq Nat /\ Until \subseteq Nat

VARIABLES
  systems, processes,  \* the repository
  now,                 \* the time of the last collection
  paged,               \* whether the repository honours Limit and Offset
  job,                 \* the state of each one-shot export
  disk,                \* the files
  spoiled,             \* files a failed or an overlapped write has gone into
  stream               \* the state of the stream

vars == <<systems, processes, now, paged, job, disk, spoiled, stream>>
repository == <<systems, processes, now, paged>>

-----------------------------------------------------------------------------
(***************************************************************************)
(* The repository: a collection stores its system sample first.            *)
(***************************************************************************)
SaveSystem ==
  /\ now < IF stream.pc = "absent" THEN MaxTime ELSE MaxStreamTime
  /\ now' = now + 1
  /\ systems' = Pushed(systems, Capacity, [kind |-> "system", time |-> now + 1, busy |-> TRUE])
  /\ UNCHANGED <<processes, paged, job, disk, spoiled, stream>>

SaveProcesses ==
  /\ now > 0 /\ \A i \in DOMAIN processes : processes[i].time < now
  /\ processes' = Pushed(processes, Capacity,
                         [kind |-> "processes", time |-> now, busy |-> now \in BusyTimes])
  /\ UNCHANGED <<systems, now, paged, job, disk, spoiled, stream>>

\* The repository drops what is older than its retention.
DeleteOldMetrics ==
  /\ \E cutoff \in 2..now :
       /\ systems' = Evicted(systems, cutoff)
       /\ processes' = Evicted(processes, cutoff)
  /\ UNCHANGED <<now, paged, job, disk, spoiled, stream>>

\* A query of one page.  The repository of infrastructure/storage knows no
\* pages and answers every query with the whole range.
Query(log, from, to, limit, offset) ==
  LET range == Within(log, from, to)
      last  == IF offset + limit > Len(range) THEN Len(range) ELSE offset + limit
  IN  IF paged THEN SubSeq(range, offset + 1, last) ELSE range

-----------------------------------------------------------------------------
(***************************************************************************)
(* The rendering of what was collected.                                    *)
(***************************************************************************)
\* Prometheus takes the last of the system samples, and the busy processes.
Rendering(format, sys, procs) ==
  IF format = "prometheus"
  THEN (IF sys = << >> THEN << >> ELSE <<Last(sys)>>) \o Kept(procs, {i \in DOMAIN procs : procs[i].busy})
  ELSE sys \o procs

\* Counted as the code does: the one state of the processes is a line more.
ItemsExported(format, sys, procs) ==
  Len(Rendering(format, sys, procs)) + (IF format = "prometheus" /\ procs # << >> THEN 1 ELSE 0)

Idle == [pc |-> "idle", format |-> "none", destination |-> "none", path |-> "none", parts |-> {},
         from |-> 0, to |-> 0, held |-> {}, sys |-> << >>, procs |-> << >>, data |-> << >>,
         success |-> FALSE, items |-> 0, error |-> "none"]

\* The stream shares only the repository with the exports, and neither changes
\* it: either the exports are made or the stream is.
Init ==
  /\ systems = << >> /\ processes = << >> /\ now = 0
  /\ disk = [p \in Paths |-> << >>]
  /\ spoiled = {}
  /\ \E streaming \in BOOLEAN :
       /\ paged \in IF streaming THEN BOOLEAN ELSE {FALSE}
       /\ job = [e \in Exporters |-> [Idle EXCEPT !.pc = IF streaming THEN "absent" ELSE "idle"]]
       /\ stream = [pc |-> IF streaming THEN "idle" ELSE "absent", to |-> 0, offset |-> 0,
                    snapshot |-> {}, written |-> {}, inOrder |-> TRUE, cancelled |-> FALSE]

-----------------------------------------------------------------------------
(***************************************************************************)
(* Execute.                                                                *)
(***************************************************************************)
ExportValid(format, destination, path) ==
  /\ format \in {"json", "csv", "prometheus"}
  /\ destination \in {"file", "http", "s3"}
  /\ destination = "file" => path # "none"

Within2(from, to) == ToSet(Within(systems, from, to) \o Within(processes, from, to))

\* The last hour, which here is all there is, unless the request names a range;
\* one that is named may reach beyond now.
TimeRanges == {<<0, now>>} \cup (Since \X Until)

\* held remembers what the repository had in the range when it was asked.
Request(e) ==
  /\ job[e].pc = "idle"
  /\ \E f \in Formats, d \in Destinations, p \in Paths \cup {"none"}, parts \in PartsAsked,
        range \in TimeRanges :
       job' = [job EXCEPT ![e] =
         IF ~ExportValid(f, d, p) THEN [Idle EXCEPT !.pc = "refused"]
         ELSE [Idle EXCEPT !.pc = IF "system" \in parts THEN "system"
                                  ELSE IF "processes" \in parts THEN "processes" ELSE "render",
                           !.format = f, !.destination = d, !.path = p, !.parts = parts,
                           !.from = range[1], !.to = range[2],
                           !.held = {s \in Within2(range[1], range[2]) : s.kind \in parts}]]
  /\ UNCHANGED <<repository, disk, spoiled, stream>>

\* Of an export that failed only the error is kept.
Finished(e, error) ==
  [job EXCEPT ![e] = IF error = "none" THEN [@ EXCEPT !.pc = "done", !.success = TRUE]
                     ELSE [Idle EXCEPT !.pc = "done", !.error = error]]

QuerySystem(e) ==
  /\ job[e].pc = "system"
  /\ \/ job' = Finished(e, "DATA_COLLECTION_ERROR")
     \/ job' = [job EXCEPT ![e].sys = Within(systems, job[e].from, job[e].to),
                           ![e].pc = IF "processes" \in job[e].parts THEN "processes" ELSE "render"]
  /\ UNCHANGED <<repository, disk, spoiled, stream>>

\* A wrong query: its range ends when it is made, not when the export began.
QueryProcessesLate(e) ==
  /\ job[e].pc = "processes"
  /\ job' = [job EXCEPT ![e].procs = Within(processes, job[e].from, now), ![e].pc = "render"]
  /\ UNCHANGED <<repository, disk, spoiled, stream>>

QueryProcesses(e) ==
  /\ job[e].pc = "processes"
  /\ \/ job' = Finished(e, "DATA_COLLECTION_ERROR")
     \/ job' = [job EXCEPT ![e].procs = Within(processes, job[e].from, job[e].to), ![e].pc = "render"]
  /\ UNCHANGED <<repository, disk, spoiled, stream>>

\* The items are counted before JSON may turn out not to represent a value, CSV
\* to be given a delimiter it cannot use, or the compression to fail.
Render(e) ==
  /\ job[e].pc = "render"
  /\ LET sys == job[e].sys
         procs == job[e].procs
     IN  \/ job' = [job EXCEPT ![e].pc = "write", ![e].sys = << >>, ![e].procs = << >>,
                               ![e].data = Rendering(job[e].format, sys, procs),
                               ![e].items = ItemsExported(job[e].format, sys, procs)]
         \/ job' = Finished(e, "EXPORT_ERROR")
  /\ UNCHANGED <<repository, disk, spoiled, stream>>

Writing(path) == {e \in Exporters : job[e].pc = "writing" /\ job[e].path = path}

\* The directory or the file cannot be made: the old file is left.
RefuseFile(e) ==
  /\ job[e].pc = "write" /\ job[e].destination = "file"
  /\ job' = Finished(e, "EXPORT_ERROR")
  /\ UNCHANGED <<repository, disk, spoiled, stream>>

\* A wrong opening: the old file is not truncated.
OpenInPlace(e) ==
  /\ job[e].pc = "write" /\ job[e].destination = "file"
  /\ job' = [job EXCEPT ![e].pc = "writing"]
  /\ spoiled' = IF Writing(job[e].path) # {} THEN spoiled \cup {job[e].path} ELSE spoiled \ {job[e].path}
  /\ UNCHANGED <<repository, disk, stream>>

\* os.WriteFile truncates the file before it writes: a file that was spoiled is
\* whole again unless another export is still writing to it.
OpenFile(e) ==
  /\ job[e].pc = "write" /\ job[e].destination = "file"
  /\ job' = [job EXCEPT ![e].pc = "writing"]
  /\ disk' = [disk EXCEPT ![job[e].path] = << >>]
  /\ spoiled' = IF Writing(job[e].path) # {} THEN spoiled \cup {job[e].path} ELSE spoiled \ {job[e].path}
  /\ UNCHANGED <<repository, stream>>

\* What is written goes over what is there, from the start of the file.
Overlay(old, new) == new \o SubSeq(old, Len(new) + 1, Len(old))

WriteFile(e) ==
  /\ job[e].pc = "writing"
  /\ LET path == job[e].path
     IN  \/ /\ disk' = [disk EXCEPT ![path] = Overlay(@, job[e].data)]
            /\ job' = Finished(e, "none")
            /\ UNCHANGED spoiled
         \/ \E k \in 0..Len(job[e].data) - 1 :
              /\ disk' = [disk EXCEPT ![path] = Overlay(@, SubSeq(job[e].data, 1, k))]
              /\ job' = Finished(e, "EXPORT_ERROR")
              /\ spoiled' = spoiled \cup {path}
  /\ UNCHANGED <<repository, stream>>

\* The answer to a POST: a status from 200 to 299, another one, or none in time
\* (which leaves open whether the endpoint has the data).
PostHTTP(e) ==
  /\ job[e].pc = "write" /\ job[e].destination = "http"
  /\ \E status \in {200, 500, 0} :
       job' = Finished(e, IF status \in 200..299 THEN "none" ELSE "EXPORT_ERROR")
  /\ UNCHANGED <<repository, disk, spoiled, stream>>

\* There is no client for S3: a well-formed path fails like a bad one.
PutS3(e) ==
  /\ job[e].pc = "write" /\ job[e].destination = "s3"
  /\ job' = Finished(e, "EXPORT_ERROR")
  /\ UNCHANGED <<repository, disk, spoiled, stream>>

Execute(e) ==
  \/ Request(e) \/ QuerySystem(e) \/ QueryProcesses(e) \/ Render(e)
  \/ RefuseFile(e) \/ OpenFile(e) \/ WriteFile(e) \/ PostHTTP(e) \/ PutS3(e)

-----------------------------------------------------------------------------
(***************************************************************************)
(* StreamExport, as JSON or as CSV: the range ends when the stream begins. *)
(***************************************************************************)
StreamBegin ==
  /\ stream.pc = "idle"
  /\ stream' = [stream EXCEPT !.pc = "batch", !.to = now, !.snapshot = ToSet(systems)]
  /\ UNCHANGED <<repository, job, disk, spoiled>>

Cancel ==
  /\ stream.pc = "batch" /\ ~stream.cancelled
  /\ stream' = [stream EXCEPT !.cancelled = TRUE]
  /\ UNCHANGED <<repository, job, disk, spoiled>>

\* The samples of a batch are written one after another, after those before.
Emitted(batch) ==
  LET times == {s.time : s \in stream.written}
  IN  [stream EXCEPT
         !.written = @ \cup ToSet(batch),
         !.inOrder = @ /\ \A i \in DOMAIN batch : \A t \in times : t < batch[i].time]

\* Two wrong streams: one whose offset stays behind by one, one that never looks
\* at the context.
StreamBatchBehind ==
  /\ stream.pc = "batch"
  /\ LET batch == Query(systems, 0, stream.to, BatchSize, stream.offset)
     IN  stream' = [Emitted(batch) EXCEPT
           !.offset = IF @ + Len(batch) - 1 > MaxStreamTime THEN MaxStreamTime ELSE @ + Len(batch) - 1,
           !.pc = IF Len(batch) < BatchSize THEN "closed" ELSE IF stream.cancelled THEN "cancelled" ELSE "batch"]
  /\ UNCHANGED <<repository, job, disk, spoiled>>

StreamBatchDeaf ==
  /\ stream.pc = "batch"
  /\ LET batch == Query(systems, 0, stream.to, BatchSize, stream.offset)
     IN  stream' = [Emitted(batch) EXCEPT
           !.offset = IF @ + Len(batch) > MaxStreamTime THEN MaxStreamTime ELSE @ + Len(batch),
           !.pc = IF Len(batch) < BatchSize THEN "closed" ELSE "batch"]
  /\ UNCHANGED <<repository, job, disk, spoiled>>

\* A cancelled context is noticed after a full batch and nowhere else.  The
\* offset is held at MaxStreamTime, beyond every sample: only a repository without
\* pages gets there, and it does not look.
StreamBatch ==
  /\ stream.pc = "batch"
  /\ LET batch == Query(systems, 0, stream.to, BatchSize, stream.offset)
         done  == Emitted(batch)
     IN  \/ stream' = [done EXCEPT
              !.offset = IF @ + Len(batch) > MaxStreamTime THEN MaxStreamTime ELSE @ + Len(batch),
              !.pc = CASE Len(batch) < BatchSize -> "closed"
                       [] Len(batch) >= BatchSize /\ stream.cancelled -> "cancelled"
                       [] OTHER -> "batch"]
         \/ stream' = [stream EXCEPT !.pc = "failed"]            \* the query
         \/ \E k \in 0..Len(batch) :            \* the writer, also at a bracket or a flush
              stream' = [Emitted(SubSeq(batch, 1, k)) EXCEPT !.pc = "failed"]
  /\ UNCHANGED <<repository, job, disk, spoiled>>

-----------------------------------------------------------------------------
Next ==
  \/ SaveSystem \/ SaveProcesses \/ DeleteOldMetrics
  \/ \E e \in Exporters : Execute(e)
  \/ StreamBegin \/ Cancel \/ StreamBatch

\* A stream that has begun is called on by its goroutine until it returns.
Fairness == WF_vars(StreamBatch)

Spec == Init /\ [][Next]_vars /\ Fairness

-----------------------------------------------------------------------------
(***************************************************************************)
(* Properties.                                                             *)
(***************************************************************************)
\* What an export of everything (JSON or CSV) tells is what there was: nothing
\* from outside its range, and everything the repository held from the request
\* until now; the count agrees with what was written.  An export that did not
\* succeed says why.
ExportedIsWhole ==
  \A e \in Exporters : job[e].pc = "done" =>
    /\ job[e].success = (job[e].error = "none")
    /\ job[e].success /\ job[e].format # "prometheus" =>
         /\ job[e].items = Len(job[e].data)
         /\ \A s \in ToSet(job[e].data) :
              job[e].from <= s.time /\ s.time <= job[e].to /\ s.kind \in job[e].parts
         /\ job[e].held \cap Within2(0, now) \subseteq ToSet(job[e].data)

\* A file nobody is writing is one whole export that was reported as one, unless
\* two exports overlapped on it or the last one into it failed.
FilesAreWhole ==
  \A p \in Paths \ spoiled :
    Writing(p) = {} /\ disk[p] # << >> =>
      \E e \in Exporters :
        job[e].success /\ job[e].destination = "file" /\ job[e].path = p /\ disk[p] = job[e].data

\* A stream over a repository with pages repeats nothing, keeps the order, and
\* misses at most as many of the samples it began with as have been evicted.
StreamSkipsOnlyEvicted ==
  paged =>
    /\ stream.inOrder
    /\ stream.pc = "closed" =>
         Cardinality(stream.snapshot \ stream.written)
           <= Cardinality(stream.snapshot \ ToSet(systems))

\* A stream over a repository with pages ends, and so does any that is
\* cancelled; over one without it may repeat a full answer for ever.
StreamEnds == (stream.pc = "batch" /\ (paged \/ stream.cancelled)) ~> (stream.pc # "batch")
=============================================================================
