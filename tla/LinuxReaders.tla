----------------------------- MODULE LinuxReaders -----------------------------
(***************************************************************************)
(* What the Linux collector (infrastructure/collector/linux) makes of what *)
(* the kernel shows: pressure files, the stat line of a process, the list  *)
(* of processes, the disks and the whole system.  A reader computes its    *)
(* answer from one look, so the readers are functions; the samples they    *)
(* keep in between to compute rates are DiskRates' matter, except for the  *)
(* entry of one process, which is here.                                    *)
(*                                                                         *)
(* A fact the kernel does not let the program read is Unread.  An answer   *)
(* is Answer(value) or Failure(error); an error is the name of its kind.   *)
(***************************************************************************)
EXTENDS DomainValues, SliceSort

CONSTANT Unread

Answer(v) == [error |-> "none", value |-> v]
Failure(e) == [error |-> e, value |-> Unread]
Succeeded(r) == r.error = "none"

OrZero(v) == IF v \in {Refused, Unread} THEN 0 ELSE v
Percent(v) == IF v = Unread THEN 0 ELSE OrZero(NewPercentage(v))
Rate(v) == OrZero(NewByteRate(v))

-----------------------------------------------------------------------------
(***************************************************************************)
(* Pressure files: lines of a head and of <<key, value>> parts, the value  *)
(* Unread where it is not a number.                                        *)
(***************************************************************************)
Averages == {"avg10", "avg60", "avg300"}
Heads == {"some", "full"}
ZeroAverages == [k \in Averages |-> 0]

\* The last part with a key counts; parts with other keys are skipped.
LastWithKey(parts, key) ==
  LET at == {i \in DOMAIN parts : parts[i][1] = key}
  IN  IF at = {} THEN 0 ELSE parts[Max(at)][2]

\* A wrong parser: what is no number counts as zero.
parsePSILineLenient(line) ==
  IF Len(line.parts) < 4 THEN Failure("parsing")
  ELSE Answer([k \in Averages |-> OrZero(LastWithKey(line.parts, k))])

parsePSILine(line) ==
  IF \/ Len(line.parts) < 4
     \/ \E i \in DOMAIN line.parts :
          line.parts[i][1] \in Averages \cup {"total"} /\ line.parts[i][2] = Unread
  THEN Failure("parsing")
  ELSE Answer([k \in Averages |-> LastWithKey(line.parts, k)])

\* The averages of the last line with the head.
LineOf(lines, head) ==
  LET at == {i \in DOMAIN lines : lines[i].head = head}
  IN  IF at = {} THEN ZeroAverages ELSE parsePSILine(lines[Max(at)]).value

\* One file: it is missing where the kernel has no pressure information.
collectIOPressure(file) ==
  IF file.opens = "absent" THEN Failure("not_supported")
  ELSE IF file.opens = "refused" THEN Failure("io")
  ELSE IF \E i \in DOMAIN file.lines :
            file.lines[i].head \in Heads /\ ~Succeeded(parsePSILine(file.lines[i]))
       THEN Failure("parsing")
  ELSE IF ~file.complete THEN Failure("io")
  ELSE Answer([h \in Heads |-> [k \in Averages |-> Percent(LineOf(file.lines, h)[k])]])

\* The same code over another file.
collectMemoryPressure(file) == collectIOPressure(file)

\* For the CPU the "full" averages are set only if one is above zero.
collectCPUPressure(file) ==
  LET read == collectIOPressure(file)
      full == LineOf(file.lines, "full")
  IN  IF Succeeded(read) /\ \A k \in Averages : full[k] <= 0
      THEN Answer([read.value EXCEPT !["full"] = ZeroAverages]) ELSE read

-----------------------------------------------------------------------------
(***************************************************************************)
(* /proc/<pid>/stat: the characters up to the parenthesis that closes the  *)
(* name, which itself may hold blanks and parentheses, and the fields that *)
(* follow.                                                                 *)
(***************************************************************************)
parseStat(text, fields) ==
  LET opening == {i \in DOMAIN text : text[i] = "("}
      closing == {i \in DOMAIN text : text[i] = ")"}
  IN  IF opening = {} \/ closing = {} \/ Len(fields) < 20 THEN Failure("parsing")
      ELSE LET field(n) == IF Len(fields) > n THEN fields[n + 1] ELSE 0
           IN  Answer([pid   |-> SubSeq(text, 1, Min(opening) - 2),
                       comm  |-> SubSeq(text, Min(opening) + 1, Max(closing) - 1),
                       state |-> fields[1], ppid |-> fields[2], threads |-> fields[18],
                       vsize |-> field(20), rss |-> field(21)])

-----------------------------------------------------------------------------
(***************************************************************************)
(* Processes.  A name is a sequence of letters.                            *)
(***************************************************************************)
mapProcessStateToEntity(status) ==
  IF status # << >> /\ status[1] \in {"R", "S", "D", "Z", "T", "t", "I"}
  THEN IF status[1] = "t" THEN "T" ELSE status[1]
  ELSE "?"

\* The entry of a process: the bytes of either kind and when the last was
\* stored.  The first sample is stored under both kinds, so the first write
\* call answers with what was written beyond what was read.
calculateIORate(entry, kind, bytes, at) ==
  IF entry = Unread
  THEN [rate |-> 0, entry |-> [val |-> [k \in {"read", "write"} |-> bytes], at |-> at]]
  ELSE IF at <= entry.at THEN [rate |-> 0, entry |-> entry]
  ELSE [rate  |-> IF bytes < entry.val[kind] THEN 0
                  ELSE (bytes - entry.val[kind]) \div (at - entry.at),
        entry |-> [val |-> [entry.val EXCEPT ![kind] = bytes], at |-> at]]

\* A look asks for the reads first and, a moment later, for the writes.
IORates(entry, io, times) ==
  LET read  == calculateIORate(entry, "read", io.read, times.read)
      write == calculateIORate(read.entry, "write", io.write, times.write)
  IN  [read |-> Rate(read.rate), write |-> Rate(write.rate), entry |-> write.entry]

\* A process that ended, has an empty name or an impossible number is an
\* error; anything else about it that cannot be read is zero or unknown.  Zero
\* bytes go through the rates like any others, whatever then comes of the rest.
collectProcessMetrics(p, entry, times) ==
  LET rates == IORates(entry, IF p.io = Unread THEN [read |-> 0, write |-> 0] ELSE p.io, times)
  IN  IF ~p.exists THEN [answer |-> Failure("not_found"), entry |-> entry]
      ELSE [entry  |-> rates.entry,
            answer |->
              IF NewProcessID(p.pid) = Refused \/ ~IsValid(p.pid) \/ p.name = << >> THEN Failure("validation")
              ELSE Answer([pid    |-> p.pid,
                           name   |-> IF p.name = Unread THEN <<"?">> ELSE p.name,
                           cpu    |-> Percent(p.cpu),
                           memory |-> Percent(p.memory),
                           read   |-> rates.read,
                           write  |-> rates.write,
                           state  |-> mapProcessStateToEntity(p.status),
                           uid    |-> OrZero(p.uid)])]

\* strings.Contains.
HasPart(name, pattern) ==
  \E i \in 0..Len(name) : IsPrefix(pattern, SubSeq(name, i + 1, Len(name)))

matchesFilter(q, filter) ==
  /\ filter.include # {} => \E pattern \in filter.include : HasPart(q.name, pattern)
  /\ ~\E pattern \in filter.exclude : HasPart(q.name, pattern)
  /\ filter.minCPU > 0 => q.cpu >= filter.minCPU
  /\ filter.minMemory > 0 => q.memory >= filter.minMemory
  /\ filter.users # {} => q.uid \in filter.users

\* What a missing filter amounts to.
Everything == [kernelThreads |-> TRUE, include |-> {}, exclude |-> {}, minCPU |-> 0,
               minMemory |-> 0, users |-> {}, max |-> 0]

\* A kernel thread is known by its missing link to a program; one whose link
\* may not be read is not known.
isKernelThread(p) == p.exe = "absent"

\* The list, and the entries, by number, that the look leaves behind.
collectAllProcessMetricsWithStats(processes, filter, entries, times) ==
  LET unasked(p) == (~filter.kernelThreads /\ isKernelThread(p)) \/ p.pid = 0
      skip(acc) == [acc EXCEPT !.skipped = @ + 1]
      put(acc, read) ==
        IF \/ ~Succeeded(read)
           \/ ~matchesFilter(read.value, filter)
           \/ filter.max > 0 /\ Len(acc.list) >= filter.max
        THEN skip(acc)
        ELSE [acc EXCEPT !.list = Append(@, read.value)]
      look(acc, p) ==
        IF unasked(p) THEN skip(acc)
        ELSE LET read == collectProcessMetrics(p, acc.entries[p.pid], times)
             IN  [put(acc, read.answer) EXCEPT !.entries[p.pid] = read.entry]
  IN  IF processes = Unread THEN Failure("io")
      ELSE Answer(FoldLeft(look, [list |-> << >>, skipped |-> 0, entries |-> entries], processes))

\* The n with most of something, or all there are.
Top(seq, n, more(_, _)) ==
  LET sorted == SortSlice(seq, more)
  IN  SubSeq(sorted, 1, IF n > Len(sorted) THEN Len(sorted) ELSE n)

getTopByCPU(seq, n)    == Top(seq, n, LAMBDA a, b : a.cpu > b.cpu)
getTopByMemory(seq, n) == Top(seq, n, LAMBDA a, b : a.memory > b.memory)
getTopByDiskIO(seq, n) == Top(seq, n, LAMBDA a, b : a.read + a.write > b.read + b.write)

-----------------------------------------------------------------------------
(***************************************************************************)
(* Disks.  A device is a disk or one of its partitions: [disk, part,       *)
(* style], part 0 for the disk itself, style "p" where a p separates the   *)
(* number from the name of the disk (nvme0n1p1) and "plain" where nothing  *)
(* does (sda1).                                                            *)
(***************************************************************************)
\* The name without its last digit is looked up, or what stands before the p:
\* a plain partition of two digits passes for a disk.
isPartition(device) ==
  device.part > 0 /\ (device.style = "p" \/ device.part < 10)

shouldSkipDevice(device) == device.kind \in {"loop", "ram", "dm without a disk"} \/ isPartition(device)

getAvailableDevices(devices) == SelectSeq(devices, LAMBDA d : ~shouldSkipDevice(d))

\* The first line of the device that is long enough; newer kernels' further
\* fields are read if all are there.
readDiskStats(lines, name) ==
  LET at == {i \in DOMAIN lines : Len(lines[i].fields) >= 11 /\ lines[i].name = name}
  IN  IF at = {} THEN Failure("not_found")
      ELSE LET fields == lines[Min(at)].fields
           IN  Answer([reads |-> fields[1], writes |-> fields[5], ioTime |-> fields[10],
                       discards |-> IF Len(fields) >= 15 THEN fields[12] ELSE 0])

\* The latencies of a disk: the write latency is set with the read latency, so
\* a disk that was only written to has none.
DiskLatencies(readTime, reads, writeTime, writes) ==
  IF readTime = 0 \/ reads = 0 THEN <<0, 0>>
  ELSE <<readTime \div reads, IF writeTime = 0 \/ writes = 0 THEN 0 ELSE writeTime \div writes>>
-----------------------------------------------------------------------------
(***************************************************************************)
(* The answers, over small inputs.                                         *)
(***************************************************************************)
Good(x, y, z) == << <<"avg10", x>>, <<"avg60", y>>, <<"avg300", z>>, <<"total", 5>> >>
Lines == [head : {"some", "full", "other"},
          parts : {Good(10, 20, 30), Good(120, -1, 5), Good(0, Unread, 0), Tail(Good(1, 2, 3)),
                   Good(0, 0, 0) \o << <<"avg300", 7>>, <<"noise", Unread>> >>,
                   << <<"avg10", 4>>, <<"noise", 1>>, <<"avg300", 6>>, <<"total", 5>> >>}]
Files == [opens : {"yes", "absent", "refused"}, complete : BOOLEAN, lines : BoundedSeq(Lines, 2)]

WellFormed(line) ==
  Len(line.parts) >= 4 /\ \A i \in DOMAIN line.parts : line.parts[i][1] # "noise" => line.parts[i][2] # Unread

\* A pressure is an answer only where every line of it is well formed and the
\* file was read to its end: one malformed line, or a file that breaks off, is
\* an error.  An average is a percentage that the file shows, and what the last
\* line with a head shows once is told; an average which that line lacks, or
\* which is no percentage, is zero.  The CPU's reader, which goes another way,
\* answers as the others do.
PressuresAreWhole ==
  \A file \in Files :
    LET r == collectIOPressure(file)
        said == {line \in ToSet(file.lines) : line.head \in Heads}
        shows(line, k) == SelectSeq(line.parts, LAMBDA part : part[1] = k)
        isLast(i) == \A j \in DOMAIN file.lines : j > i => file.lines[j].head # file.lines[i].head
    IN  /\ collectCPUPressure(file) = r /\ collectMemoryPressure(file) = r
        /\ Succeeded(r) <=> file.opens = "yes" /\ file.complete /\ \A line \in said : WellFormed(line)
        /\ Succeeded(r) => \A h \in Heads, k \in Averages :
             /\ r.value[h][k] \in 0..100
             /\ r.value[h][k] # 0 =>
                  \E line \in said : line.head = h /\ <<k, r.value[h][k]>> \in ToSet(line.parts)
             /\ \A i \in DOMAIN file.lines :
                  file.lines[i].head = h /\ isLast(i) /\ Len(shows(file.lines[i], k)) = 1 =>
                    r.value[h][k] = Percent(shows(file.lines[i], k)[1][2])

\* The name of a process comes out of its stat line as it went in, whatever
\* parentheses and blanks are in it.
NamesSurvive ==
  \A comm \in BoundedSeq({"(", ")", " ", "x"}, 3), n \in {19, 20, 22} :
    LET r == parseStat(<<"7", " ", "(">> \o comm \o <<")">>, [i \in 1..n |-> i])
    IN  /\ Succeeded(r) <=> n >= 20
        /\ Succeeded(r) => r.value.comm = comm /\ r.value.pid = <<"7">>

Shown(pid, name, cpu, exe, uid) ==
  [pid |-> pid, exists |-> TRUE, name |-> name, cpu |-> cpu, memory |-> 40,
   io |-> [read |-> 2, write |-> 1], status |-> <<"R">>, uid |-> uid, exe |-> exe]
Looks == {Shown(1, <<"a">>, 50, "linked", 1), Shown(2, <<"k">>, 0, "absent", 0), Shown(0, <<"s">>, 0, "absent", 0),
          Shown(3, <<"a", "b">>, 120, "linked", Unread), Shown(4, Unread, Unread, "refused", 1),
          [Shown(5, <<"a">>, 0, "linked", 1) EXCEPT !.exists = FALSE],
          [Shown(6, << >>, 0, "linked", 1) EXCEPT !.io = Unread]}
NoEntries == [pid \in 0..6 |-> Unread]
FirstTimes == [read |-> 1, write |-> 1]
Filters == [kernelThreads : BOOLEAN, include : {{}, {<<"b">>}, {<<"a">>, <<"?">>}}, exclude : {{}, {<<"a", "b">>}},
            minCPU : {0, 50}, minMemory : {0, 41}, users : {{}, {1}}, max : {0, 1, 2}]

\* Every process found is listed or counted as skipped; listed are the first of
\* those that could be read and match, in the order of the kernel, and one that
\* matches is skipped only where the list is full.  Whoever was asked has an
\* entry from then on, listed or not, and nobody is shown to read at first.
ProcessesAreAccounted ==
  \A processes \in BoundedSeq(Looks, 3), filter \in Filters \cup {Everything} :
    filter.minMemory = 0 \/ Len(processes) = 1 =>
      LET r == collectAllProcessMetricsWithStats(processes, filter, NoEntries, FirstTimes).value
          asked == SelectSeq(processes, LAMBDA p : p.exists /\ p.pid > 0 /\ (p.exe = "absent" => filter.kernelThreads))
          wanted == SelectSeq(asked, LAMBDA p :
            p.name # << >> /\ matchesFilter(collectProcessMetrics(p, Unread, FirstTimes).answer.value, filter))
      IN  /\ Len(r.list) + r.skipped = Len(processes)
          /\ Len(r.list) = IF filter.max > 0 /\ Len(wanted) > filter.max THEN filter.max ELSE Len(wanted)
          /\ \A i \in DOMAIN r.list :
               r.list[i].pid = wanted[i].pid /\ r.list[i].cpu \in 0..100 /\ r.list[i].read = 0
          /\ {pid \in DOMAIN r.entries : r.entries[pid] # Unread} = {p.pid : p \in ToSet(asked)}

\* Of each of the three orders: nobody left out has more than somebody taken,
\* and nobody is taken twice.
TopsAreTop ==
  \A seq \in BoundedSeq([cpu : 1..2, memory : {1}, read : 0..1, write : {1}], 3), n \in 0..4 :
    LET top(f) == IF f = "cpu" THEN getTopByCPU(seq, n) ELSE IF f = "io" THEN getTopByDiskIO(seq, n)
                  ELSE getTopByMemory(seq, n)
        most(s, f, v) == Len(SelectSeq(s, LAMBDA q : (IF f = "io" THEN q.read + q.write ELSE q[f]) >= v))
    IN  \A f \in {"cpu", "memory", "io"} :
          /\ Len(top(f)) = IF n > Len(seq) THEN Len(seq) ELSE n
          /\ \A v \in 1..2 : most(top(f), f, v) = IF most(seq, f, v) > n THEN n ELSE most(seq, f, v)

\* However the counter of a process grows and restarts, whether its file could
\* be read and whatever the times of the looks: no reads are shown at first, and
\* the read rates, each times the interval it is over, never add up to more
\* than what it has read since; except that a look after one whose file could
\* not be read claims all that the process has ever read.
ProcessReadsConserved ==
  \A looks \in BoundedSeq([bytes : {Unread} \cup 0..2, after : 0..1, later : 0..1], 4) :
    LET next(acc, s) ==
          LET at == acc.at + s.after
              p == [Shown(1, <<"a">>, 0, "linked", 1) EXCEPT
                      !.io = IF s.bytes = Unread THEN Unread ELSE [read |-> s.bytes, write |-> 3]]
              r == collectProcessMetrics(p, acc.entry, [read |-> at, write |-> at + s.later])
              claim == r.answer.value.read * (at - acc.at)
          IN  [at |-> at + s.later, entry |-> r.entry, last |-> s.bytes,
               early   |-> acc.early \/ (acc.entry = Unread /\ r.answer.value.read > 0),
               claimed |-> acc.claimed + IF acc.entry = Unread THEN 0 ELSE claim,
               grown   |-> acc.grown + IF s.bytes = Unread \/ acc.entry = Unread THEN 0
                                       ELSE IF acc.last = Unread THEN s.bytes
                                       ELSE IF s.bytes > acc.last THEN s.bytes - acc.last ELSE 0]
        end == FoldLeft(next, [at |-> 1, entry |-> Unread, last |-> 0, early |-> FALSE, claimed |-> 0, grown |-> 0], looks)
    IN  ~end.early /\ end.claimed <= end.grown

\* The devices reported are the whole disks, while no partition has a number
\* of two digits; and latencies claim no more time than was spent.
DisksAreWhole ==
  /\ \A devices \in BoundedSeq([kind : {"disk", "loop"}, part : 0..2, style : {"p", "plain"}], 2) :
       \A d \in ToSet(devices) :
         d \in ToSet(getAvailableDevices(devices)) <=> d.kind = "disk" /\ d.part = 0
  /\ \A t, n, u, m \in 0..3 :
       LET l == DiskLatencies(t, n, u, m) IN l[1] * n <= t /\ l[2] * m <= u
  /\ \A lines \in BoundedSeq([name : {"sda", "sdb"}, fields : {[i \in 1..n |-> 10 + i] : n \in {10, 11, 15}}], 2) :
       Succeeded(readDiskStats(lines, "sda")) <=>
         \E line \in ToSet(lines) : line.name = "sda" /\ Len(line.fields) > 10

ReadersAreRight ==
  /\ PressuresAreWhole /\ NamesSurvive /\ ProcessesAreAccounted
  /\ TopsAreTop /\ ProcessReadsConserved /\ DisksAreWhole
=============================================================================
