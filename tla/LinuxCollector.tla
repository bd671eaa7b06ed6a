---------------------------- MODULE LinuxCollector ----------------------------
(***************************************************************************)
(* One collection of the Linux collector (collector/linux/collector.go):   *)
(* which parts it asks the readers for, what becomes of a part that fails, *)
(* and what it counts; with the reader of the whole system (system.go),    *)
(* what a machine supports (capabilities.go) and how errors are judged     *)
(* (errors.go).  The loop that repeats collections is in                   *)
(* ContinuousCollection.                                                   *)
(*                                                                         *)
(* A collection holds the collector's lock from its first step to its      *)
(* last, so it is a function of the collector's counters and of what the   *)
(* readers answer.                                                         *)
(***************************************************************************)
EXTENDS LinuxReaders

-----------------------------------------------------------------------------
(***************************************************************************)
(* The whole system.  What the kernel says about each of Facts is Unread   *)
(* where the call fails.                                                   *)
(***************************************************************************)
Facts == {"cpu", "memory", "load", "disks", "pids"}

\* The same code as for a process, over the one entry of the system: it has one
\* from its first call on.
calculateSystemIORate(entry, kind, bytes, at) == calculateIORate(entry, kind, bytes, at)

\* The rates of all whole disks together, and the entry then.
getSystemDiskIOTotals(disks, entry, times) ==
  LET whole == SelectSeq(disks, LAMBDA d : ~shouldSkipDevice(d))
      total(kind) == FoldLeft(LAMBDA sum, d : sum + d[kind], 0, whole)
      read  == calculateSystemIORate(entry, "read", total("read"), times.read)
      write == calculateSystemIORate(read.entry, "write", total("write"), times.write)
  IN  [read |-> Rate(read.rate), write |-> Rate(write.rate), entry |-> write.entry]

\* Threads of processes that cannot be asked any more are not counted.
getThreadCount(pids) ==
  FoldLeft(LAMBDA total, p : total + OrZero(p.threads), 0, pids)

\* Without the CPU or the memory there are no system metrics, and the disks are
\* not looked at; whatever else is missing is zero.  SetProcessCount is handed
\* the number of processes as the active ones, and of threads as the total.
collectSystemMetrics(host, entry, times) ==
  LET disks == IF host.disks = Unread THEN [read |-> 0, write |-> 0, entry |-> entry]
               ELSE getSystemDiskIOTotals(host.disks, entry, times)
  IN  IF host.cpu = Unread \/ host.memory = Unread THEN [answer |-> Failure("io"), entry |-> entry]
      ELSE [entry  |-> disks.entry,
            answer |-> Answer([cpu    |-> Percent(host.cpu),
                               memory |-> Percent(host.memory),
                               load   |-> OrZero(host.load),
                               read   |-> disks.read,
                               write  |-> disks.write,
                               activeProcesses |-> IF host.pids = Unread THEN 0 ELSE Len(host.pids),
                               totalProcesses  |-> IF host.pids = Unread THEN 0 ELSE getThreadCount(host.pids)])]

\* The description of the machine: three calls must succeed, the others have
\* defaults, one core among them.
getSystemInfo(host) ==
  IF \E f \in {"host", "cpu", "memory"} : host[f] = Unread THEN Failure("io")
  ELSE Answer([cores |-> IF host.cores = Unread THEN 1 ELSE host.cores,
               swap  |-> OrZero(host.swap), load |-> OrZero(host.load)])

-----------------------------------------------------------------------------
(***************************************************************************)
(* What the machine supports, from the files it has: "psi", "io" (of the   *)
(* own process), "diskstats", "cgroup1", "cgroup2", and "container", any   *)
(* of the three marks of one.                                              *)
(***************************************************************************)
detectCgroupVersion(files) ==
  IF "cgroup2" \in files THEN 2 ELSE IF "cgroup1" \in files THEN 1 ELSE 0

detectSystemCapabilities(files, root) ==
  [SupportsCPUPressure    |-> "psi" \in files,
   SupportsMemoryPressure |-> "psi" \in files,
   SupportsIOPressure     |-> "psi" \in files,
   SupportsDiskIO         |-> "diskstats" \in files,
   SupportsCGroups        |-> files \cap {"cgroup1", "cgroup2"} # {},
   SupportsContainers     |-> "container" \in files,
   RequiresRoot           |-> ~root \/ "io" \notin files]

buildFeaturesList(caps) ==
  {"System Metrics", "Process Metrics"}
    \cup {f \in {"CPU Pressure (PSI)"} : caps.SupportsCPUPressure}
    \cup {f \in {"Memory Pressure (PSI)"} : caps.SupportsMemoryPressure}
    \cup {f \in {"I/O Pressure (PSI)"} : caps.SupportsIOPressure}
    \cup {f \in {"Disk I/O Statistics"} : caps.SupportsDiskIO}
    \cup {f \in {"Container Metrics"} : caps.SupportsContainers}
    \cup {f \in {"Cgroups"} : caps.SupportsCGroups}
    \cup {f \in {"No Root Required"} : ~caps.RequiresRoot}

buildLimitationsList(caps, root) ==
  {"Network I/O monitoring not implemented"}
    \cup {l \in {"Limited process visibility"} : caps.RequiresRoot /\ ~root}
    \cup {l \in {"PSI not available"} : ~caps.SupportsCPUPressure}
    \cup {l \in {"Some features require root privileges"} : caps.RequiresRoot}

-----------------------------------------------------------------------------
(***************************************************************************)
(* Errors: one of the system's or of the package's, bare or wrapped with   *)
(* its kind.  errors.Is asks the wrapper first and then what is in it.     *)
(***************************************************************************)
SystemErrors == {"EPERM", "EACCES", "ENOENT", "EIO", "ETIMEDOUT", "EINTR"}
Sentinels == {"ErrPermissionDenied", "ErrProcessNotFound", "ErrDeviceNotFound", "ErrParsingFailed",
              "ErrPSINotSupported", "ErrCacheExpired"}
Bare(e) == [kind |-> "bare", is |-> e]

classifyError(e) ==
  CASE e \in {"EPERM", "EACCES"} -> "PERMISSION"
    [] e = "ENOENT"    -> "NOT_FOUND"
    [] e = "EIO"       -> "IO"
    [] e = "ETIMEDOUT" -> "TIMEOUT"
    [] OTHER           -> "UNKNOWN"

wrapError(e) == [kind |-> classifyError(e), is |-> e]

\* CollectorError.Is, and what Unwrap leads to.
MeansKind(sentinel) ==
  CASE sentinel = "ErrPermissionDenied" -> "PERMISSION"
    [] sentinel \in {"ErrProcessNotFound", "ErrDeviceNotFound"} -> "NOT_FOUND"
    [] sentinel = "ErrParsingFailed"    -> "PARSING"
    [] sentinel = "ErrPSINotSupported"  -> "NOT_SUPPORTED"
    [] OTHER -> "none"

Is(err, target) == err.is = target \/ err.kind = MeansKind(target)

isRecoverable(err) == ~Is(err, "ErrPermissionDenied") /\ ~Is(err, "ErrPSINotSupported")

shouldRetry(err) == err.is \in {"EINTR", "EAGAIN"}

\* The errors of one kind an aggregator holds: bare ones have none.
FilterByType(errs, kind) == SelectSeq(errs, LAMBDA e : e.kind = kind)

-----------------------------------------------------------------------------
(***************************************************************************)
(* A collection.                                                           *)
(***************************************************************************)
Parts == <<"system", "pressure", "processes", "disks">>

Asked(wanted, caps, p) ==
  p \in wanted /\ (p = "pressure" => caps.SupportsCPUPressure)

\* What it returns, and the counters it leaves: each part that fails is an
\* error of the result and counts; all but the pressure are remembered as the
\* last error.
CollectAll(c, wanted, caps, answers) ==
  IF ~c.initialized THEN [result |-> Failure("not_initialized"), counters |-> c]
  ELSE LET asked == SelectSeq(Parts, LAMBDA p : Asked(wanted, caps, p))
           failed == SelectSeq(asked, LAMBDA p : ~Succeeded(answers[p]))
           remembered == SelectSeq(failed, LAMBDA p : p # "pressure")
       IN  [result   |-> Answer([errors |-> failed,
                                 parts  |-> [p \in ToSet(asked) \ ToSet(failed) |-> answers[p].value]]),
            counters |-> [c EXCEPT !.collections = @ + 1, !.errors = @ + Len(failed),
                            !.lastError = IF remembered = << >> THEN @ ELSE Last(remembered)]]

\* The counters that Reset clears; the last error stays, and so do the samples
\* the readers keep: the cache it empties is not one of theirs.
Reset(c) == [c EXCEPT !.collections = 0, !.errors = 0]

-----------------------------------------------------------------------------
\* Machines with two disks, one of them with a partition, that have read so much.
Device(kind, part, read) == [kind |-> kind, part |-> part, style |-> "plain", read |-> read, write |-> 5]
Machine(a, b) == << Device("disk", 0, a), Device("disk", 1, a), Device("loop", 0, 6), Device("disk", 0, b) >>

Hosts == [cpu : {Unread, 40, 140}, memory : {Unread, 50}, load : {Unread, 1},
          disks : {Unread, Machine(6, 0)}, pids : {Unread, << [threads |-> 2], [threads |-> Unread] >>}]
HostLooks == [cpu : {Unread, 40}, memory : {50}, load : {1}, pids : {Unread},
              disks : {Unread} \cup {Machine(a, b) : a \in {0, 6, 12}, b \in {0, 6}},
              after : 0..1, later : 0..1]

\* Missing facts never pass for an error, nor an error for missing facts: the
\* system metrics fail exactly when CPU or memory cannot be read.  And over any
\* looks the read rates, each times the interval since the disks were read
\* before, account for the growth of the whole disks: for no byte twice, nor
\* for one of a partition beside its disk, nor for what had been read at
\* first; and, where time passed between looks, for every byte, those read
\* while CPU or disks could not be asked among them.
SystemIsRead ==
  /\ \A host \in Hosts :
       LET r == collectSystemMetrics(host, Unread, [read |-> 1, write |-> 1])
       IN  /\ Succeeded(r.answer) <=> host.cpu # Unread /\ host.memory # Unread
           /\ Succeeded(r.answer) =>
                /\ r.answer.value.cpu \in {0, 40}
                /\ r.answer.value.activeProcesses = 0 <=> host.pids = Unread
  /\ \A looks \in BoundedSeq(HostLooks, 3) :
       LET next(acc, h) ==
             LET at == acc.at + h.after
                 r == collectSystemMetrics(h, acc.entry, [read |-> at, write |-> at + h.later])
                 sees == h.cpu # Unread /\ h.disks # Unread
                 total == IF sees THEN h.disks[1].read + h.disks[4].read ELSE 0
                 first == sees /\ acc.total = Unread
             IN  [at |-> at + h.later, entry |-> r.entry,
                  since   |-> IF sees THEN at + h.later ELSE acc.since,
                  total   |-> IF sees THEN total ELSE acc.total,
                  early   |-> acc.early \/ (first /\ r.answer.value.read > 0),
                  claimed |-> acc.claimed + IF sees THEN r.answer.value.read * (at - acc.since) ELSE 0,
                  grown   |-> acc.grown + IF sees /\ ~first /\ total > acc.total THEN total - acc.total ELSE 0]
           end == FoldLeft(next, [at |-> 1, entry |-> Unread, since |-> 1, total |-> Unread, early |-> FALSE,
                                  claimed |-> 0, grown |-> 0], looks)
       IN  /\ ~end.early /\ end.claimed <= end.grown
           /\ (\A i \in DOMAIN looks : looks[i].after = 1) => end.claimed = end.grown

\* What is listed as a feature is not listed as a limitation, and a version of
\* cgroups is found exactly where they are supported.
FeaturesAndLimitsAgree ==
  \A files \in SUBSET {"psi", "io", "diskstats", "cgroup1", "cgroup2", "container"}, root \in BOOLEAN :
    LET caps == detectSystemCapabilities(files, root)
        features == buildFeaturesList(caps)
        limits == buildLimitationsList(caps, root)
    IN  /\ "No Root Required" \in features <=> "Some features require root privileges" \notin limits
        /\ "CPU Pressure (PSI)" \in features <=> "PSI not available" \notin limits
        /\ "Limited process visibility" \in limits => "Some features require root privileges" \in limits
        /\ detectCgroupVersion(files) > 0 <=> "Cgroups" \in features

\* Wrapping an error never makes a hopeless one look recoverable, and makes
\* hopeless just the bare system errors that refuse permission; an aggregator
\* finds by kind exactly the wrapped ones.
ErrorsAreJudged ==
  /\ \A e \in SystemErrors \cup Sentinels :
       /\ isRecoverable(wrapError(e)) => isRecoverable(Bare(e))
       /\ isRecoverable(Bare(e)) /\ ~isRecoverable(wrapError(e)) <=> e \in {"EPERM", "EACCES"}
       /\ shouldRetry(wrapError(e)) = shouldRetry(Bare(e))
       /\ shouldRetry(Bare(e)) => isRecoverable(wrapError(e))
  /\ \A errs \in BoundedSeq({Bare("EIO"), wrapError("EIO"), wrapError("EPERM")}, 3) :
       Len(FilterByType(errs, "IO")) + Len(FilterByType(errs, "PERMISSION"))
         = Len(SelectSeq(errs, LAMBDA e : e # Bare("EIO")))

\* Every part that was asked for is in the result of a collection or among its
\* errors, never in both, and the counters tell how many: over any two
\* collections in a row, each failure is counted once.
CollectionsTell ==
  LET start == [initialized |-> TRUE, collections |-> 0, errors |-> 0, lastError |-> "none"]
      outcomes == [ToSet(Parts) -> {Answer(1), Failure("io")}]
  IN  \A wanted \in SUBSET ToSet(Parts), psi \in BOOLEAN, x, y \in outcomes :
        LET caps == [SupportsCPUPressure |-> psi]
            first == CollectAll(start, wanted, caps, x)
            second == CollectAll(first.counters, wanted, caps, y)
            failures(answers) == {p \in wanted \ (IF psi THEN {} ELSE {"pressure"}) : ~Succeeded(answers[p])}
            v == first.result.value
        IN  /\ ToSet(v.errors) = failures(x)
            /\ DOMAIN v.parts = {p \in wanted : Asked(wanted, caps, p)} \ failures(x)
            /\ second.counters.collections = 2
            /\ second.counters.errors = Cardinality(failures(x)) + Cardinality(failures(y))
            /\ second.counters.lastError = "none" <=>
                 (failures(x) \cup failures(y)) \subseteq {"pressure"}
            /\ CollectAll([start EXCEPT !.initialized = FALSE], wanted, caps, x).counters.collections = 0
            /\ Reset(second.counters).errors = 0

CollectorIsRight ==
  SystemIsRead /\ FeaturesAndLimitsAgree /\ ErrorsAreJudged /\ CollectionsTell
=============================================================================
