# goiotop: verification development

TLA+ specifications of goiotop's core, the TLC runs that check them on small
instances and theorems about them that TLAPS proves for every instance.
Everything is translated from the Go source under `src/internal`; where a
document or a comment says something else, the code is what is modelled and the
difference is listed under [Divergences](#divergences).

Paths below are relative to `src/internal`.

- [The system](#the-system): components, their state, how they interact, what
  is hard about them and what makes them correct
- [The modules](#the-modules): which module models what, and how
- [The runs](#the-runs): what TLC checks, with which bounds and fairness
- [The proofs](#the-proofs): what TLAPS proves, and along which argument
- [Divergences](#divergences): where the code does something its text does not say
- [Not modelled](#not-modelled) and [The plan](#the-plan)

## The system

goiotop samples disk I/O, CPU pressure and process metrics, keeps them in
memory, raises alerts on them and shows or exports them.  It is layered:
collectors and stores (infrastructure), use cases and an orchestrator
(application), a TUI, a CLI and formatters (presentation), over immutable
values (domain).  Everything runs in one process, in goroutines that share
memory under mutexes; nothing is persisted but exported files.

```
 CLI / TUI ──► MetricsOrchestrator ──► use cases: collect, display, export, alerting
                │        ▲                 │             │             │
                │        │ callback        ▼             ▼             ▼
                │        │            collector     repository    alerting engine
                ├─ start, stop ─► collector's loop   (ring         └► notification
                │                      │              buffers)         manager
                │                 rate caches, readers
                └─ start, stop ─► Prometheus exporter's server, alerting loop,
                                  health and clean-up routines
```

There is no `cmd/` directory at this commit, and the repository's own
`BUILD_STATUS.md` says that it does not compile.  What is modelled is the code as
it is written; a package whose text leaves open what it would do is not (see
[Not modelled](#not-modelled)).

### Components that carry the program's logic

**Ring buffer** (`infrastructure/storage/ringbuffer.go`).
*State*: an array, `head`, `tail`, `size`, `capacity`, two counters.
*Operations*: push, pop, clear, resize, evict older than, read all / the latest
n / a time range.  *Used by*: every buffer of the repository.
*Hard*: index arithmetic modulo a capacity that changes, binary search over a
wrapped array, a counter updated under the read lock.
*Correct when*: it is a bounded log that drops its oldest entry when full,
reads return exactly the entries asked for, eviction never drops a young one.

**Memory repository** (`infrastructure/storage/memory.go`).
*State*: one buffer each for system, process, CPU pressure and disk samples, and
an index of one small buffer per process and per device.
*Operations*: save (single and batch), queries, latest, aggregate, delete,
purge, close.  *Used by*: collection, display, export, health check.
*Hard*: a sample lives in two buffers with different bounds and evictions; the
latest sample is read from a buffer looked up earlier, without the lock that
guards the index; samples of concurrent collections arrive out of order; samples
without counters make comparisons that are no order.
*Correct when*: index and history never tell different stories, an index entry
is never empty or shared, a read answers what was true at some moment of it, a
deletion takes only older samples and leaves an older one only behind a younger
one that was stored before it (which is less than its comment promises, see
[Divergences](#divergences)), an aggregate is of the samples asked for.

**Continuous collection** (`application/services/orchestrator.go`,
`infrastructure/collector/linux/collector.go`).
*State*: in the orchestrator `running`, the cancel function and `o.mu`; in the
collector `continuous`, `stopChan`, `doneChan` and `c.mu`; a goroutine.
*Operations*: start, stop, shut down, update the configuration, collect once or
in batches, cancel.
*Hard*: two locks taken in two orders, a wait for a goroutine with locks held,
channels closed and made anew, a context that ends from outside.
*Correct when*: there is at most one loop, none after a stop, no channel is
closed twice, every call returns, a cancelled loop ends.

**Orchestrator lifecycle** (`application/services/orchestrator.go`,
`infrastructure/export/prometheus.go`, `infrastructure/alerting/engine.go`).
*State*: the exporter's `server`, two goroutines per `Start` of it, the alerting
loop's ticker and stop channel, two routines of the orchestrator, one context.
*Operations*: initialize, shut down, `UpdateConfig` of the exporter, cancel.
*Hard*: the goroutines read `e.server` when they run, not when they were started;
a server is stopped before its goroutine listens; a stop signal is offered and
not waited for; `UpdateConfig` restarts on a context nobody cancels.
*Correct when*: nothing listens after the shutdown, and a cancelled context ends
every loop that was started with it.

**Collection statistics and health** (`application/services/orchestrator.go`).
*State*: counters of collections, the published health.
*Hard*: counting happens in separate critical sections before and after the
collection; the health check reads the counters in one critical section and
publishes them in another.
*Correct when*: every collection begun is accounted for; a published reading
was true at one moment; a later one never goes back.

**Collect use case** (`application/usecases/collect_metrics.go`).
*State*: of one request, the items, the result and a goroutine with a ticker.
*Operations*: single, continuous and batch collection.
*Hard*: two selects race the duration, the ticker, a channel and the context;
every call may fail at any point, and the collection of everything may fail in
parts without an error; a loop whose step comes from the request; what a result
counts, what it lists and what is saved are kept apart.
*Correct when*: every request returns; what its result counts and lists and what
the repository was handed agree, and a single or batch request leaves out no
process it found; success means that no collector call returned an error and, in
batch mode, no save of a process did (not that no part was lacking); nothing runs
on afterwards.

**Export use case** (`application/usecases/export_metrics.go`).
*State*: the files written, an offset of a stream.
*Operations*: one-shot exports in four formats to a file, an HTTP endpoint or S3,
and a stream in batches.
*Hard*: two queries beside collections that save and evict; a file truncated,
then written, without a lock; paging by offset over a log that loses its front.
*Correct when*: what is reported as exported is whole, an unspoiled file is one
whole export, a stream misses only what was evicted, and it ends.

**Alerting engine** (`infrastructure/alerting/engine.go`).
*State*: rules, active alerts, their history, the rate limiter.
*Operations*: add and remove rules, evaluate system or process samples, read
alerts, history and statistics.
*Hard*: an evaluation works on a snapshot of the rules while they change and
other evaluations run; pending, firing and resolved follow a clock; history and
rate limit are bounded in different places.
*Correct when*: nothing that is due stays pending, an alert never goes back and
never disappears without a trace in the history, notifications keep their
distance.

**Multi-level cache** (`infrastructure/optimization/cache.go`).
*State*: two LRU caches with time-outs.
*Operations*: get, set, delete, clear, clean up.
*Hard*: a `Get` moves entries between the levels in several calls under the
*read* lock; eviction callbacks put back what is being removed.
*Correct when*: nothing deleted comes back and a read finds the latest value or
nothing.

**Linux rates and readers** (`infrastructure/collector/linux/`).
*State*: per device and process the last counters and one time stamp; counters of
collections and errors.
*Operations*: the rates of a device's counters, the clean-up of old entries;
pressure files, process lists, disks, the system, one whole collection.
*Hard*: counters are sampled outside the lock, one time stamp serves several
counters, counters start again from zero, differences are unsigned; processes
die while they are listed, files are unreadable, lines are cut.
*Correct when*: no byte that was read is reported twice, a percentage is one,
a malformed file is reported, and a process that ends while it is read is counted
as skipped.  Counters that cannot be read are zeros on purpose, and the rate cache
takes them for a restart.

**Prometheus exporter's metrics** (`infrastructure/export/prometheus.go`).
*State*: gauges, counters, and the last values per process id and device.
*Hard*: a scrape between any two of the resets and sets of the gauges; reused
process ids, and processes that change their name and keep their counters; counters
that restart; a limit that moves processes in and out.
*Correct when*: the byte counters of a process id, and of a label none of whose
processes was renamed, say no more than was read; no gauge ever shows rows of two
updates.

**Notification manager** (`infrastructure/alerting/notifications.go`).
*State*: channels by name.  *Hard*: a channel is looked up once and tried several
times while it is removed or replaced; an attempt may have arrived although it
failed.  *Correct when*: what a send answers of a channel is true of it.

**Registries** (`storage/factory.go`, `collector/registry.go`).
*State*: constructors by type, instances by name, a default.  *Hard*: check and
act in two critical sections.  *Correct when*: an instance is shared by the
callers of its name unless they raced, a named one is open, the default answered
for was the default.

**TUI** (`presentation/tui/`).
*State*: filter, sort, selection, scroll offset, sizes, fetches on their way.
*Hard*: lists shrink under a selection; answers of fetches arrive in any order.
*Correct when*: no row is drawn that is not there; the selection stays in the
list, unless the terminal was too low for a row or a key asked for the end of an
empty list, which leaves it before the first process (see
[Divergences](#divergences)); the list is the last answer under the filter and the
order in force.

### The other components

| component | why it is (not) hard |
|---|---|
| display use case | pages, sorting and summaries over answers of queries that need not fit together |
| domain entities and value objects | range checks, arithmetic and grades; immutable |
| alerting use case | passes its arguments on, but for one trial of a rule |
| pools (`optimization/pools.go`) | wrappers of `sync.Pool` that nothing calls |
| Darwin collector and readers | as the Linux ones; names that are not declared |
| graphs and layout (`formatters/graphs.go`, `tui/utils.go`, `cli/utils.go`) | scaling, sampling, wrapping and cutting at their boundaries; no state |
| configuration, DTOs, the other formatters, the rest of the CLI | conversion and input or output |

## The modules

A component has a module and, where something is proved, a `Proofs` module that
extends it, or that extends the `MC` module of a run that puts several together.  `MC` modules give constants their values for TLC.  Modules are
separate because the code is: where two components meet, one is modelled with
the other's calls as its environment, as listed here.

| module | of the code | state and actions |
|---|---|---|
| `Subsequences` | loops that append what they keep of a slice to another | the subsequence at a set of indices, as a recursive function, which unlike `SelectSeq` can be reasoned about |
| `TimeSeries` | | operators on sequences of time-stamped entries that buffers are made of |
| `BoundedLog` | what a ring buffer promises | a sequence and a bound; `Append` drops the oldest, `DropOldest`, `Empty`, `Rebound` |
| `RingBuffer` | `storage/ringbuffer.go` | the array and its indices as the code has them; one action per exported method, and two for a read, which loads and stores its counter separately under the read lock; implements `BoundedLog` |
| `MemoryRepository` | `storage/memory.go` | the system and process buffers, a heap of index buffers (a reader keeps a pointer into it) and the index; disk samples are stored like process samples and CPU pressure like system samples; reading the latest sample is two steps |
| `RepositoryQueries` | `storage/memory.go` | functions of what the repository holds: queries by time, the processes with most of a metric, aggregation; the health check and its memory estimate, which no property asks about |
| `ContinuousCollection` | `services/orchestrator.go`, `collector/linux/collector.go` | callers with a place in their operation, the two locks, the flags, the channels as numbers, and the loop's goroutine; composes orchestrator and collector |
| `CollectionStats` | `services/orchestrator.go` | the counters, the readings the health check makes and publishes, one step per critical section |
| `Lifecycle` | `services/orchestrator.go`, `export/prometheus.go`, `alerting/engine.go` | one caller of `Initialize` and `Shutdown`, one of `UpdateConfig`, the HTTP servers made, the two goroutines of each, the alerting loop, the two routines, each loop in or outside its `select`; composes orchestrator, exporter and engine |
| `CollectMetrics` | `usecases/collect_metrics.go` | one request in its three modes; the collector and the repository succeed or fail as they like, and the collection of everything may succeed without some of its parts; `items` and `count` are computed where the code computes them, apart from `reported` and `handed` |
| `DisplayMetrics` | `usecases/display_metrics.go` | functions from the answers of the queries (a sequence or `Failed`, each on its own) to what the three displays show |
| `ExportMetrics` | `usecases/export_metrics.go`, `dto/operations.go` | a repository that saves and evicts; per exporter a step for the request, for the last so many samples or for a range it names, each query, the rendering (which may fail), the opening and the writing of the file; the stream one batch at a time, over a repository that honours pages or one that does not |
| `AlertingEngine` | `alerting/engine.go` | rules, alerts, history, limiter; an evaluation is a snapshot and a step per rule and target; the comparison of a value with a threshold is its outcome |
| `AlertQueries` | `alerting/engine.go`, `usecases/alerting.go` | that comparison, the loading and the trial of rules, the views of alerts and history, as functions |
| `Notifications` | `alerting/notifications.go` | channels, callers with the place in their list of names and the attempt they are at; an attempt by mail or HTTP may have arrived and fail all the same |
| `MultiLevelCache` | `optimization/cache.go` | the two levels as sequences in order of use (the LRU library is external), writers in one step under the lock, `Get` one step per call into a level |
| `DiskRates` | `collector/linux/diskstats.go`, `cache.go` | the kernel's counters, the cache's entry per device, and collectors that sample and then call the cache once per counter |
| `LinuxReaders` | `collector/linux/psi.go`, `procfs.go`, `diskstats.go`, `cache.go` | functions from one look at the machine, in which any fact may be `Unread`, to an answer or a failure; the entry of one process in the rate cache, which takes an unreadable `/proc/<pid>/io` for zeros |
| `LinuxCollector` | `collector/linux/collector.go`, `system.go`, `capabilities.go`, `errors.go` | one collection, under its lock, as a function of the counters and the readers' answers, the totals of the disks through the rate cache's entry for the system; the machine's features; how errors are judged |
| `ExporterCounters` | `export/prometheus.go` | rows of each gauge, counters, previous values, an update with a step for each reset and each set, and a system that starts another process under a process id or renames one |
| `Factories` | `storage/factory.go`, `collector/registry.go` | constructors, instances, the default, and callers between two lockings |
| `Tui` | `presentation/tui/` | the messages of the program, one at a time, the models of the list and of the help, and what is drawn after each message |
| `DomainValues` | `domain/` | what constructors refuse, arithmetic with its limits, grades and deltas, as functions |
| `GraphRenderer` | `presentation/formatters/graphs.go` | line graphs, several lines, bars, sparklines and heat maps, as functions from values to what is where on the screen; a truncated quotient that floating point may miss is both outcomes |
| `TextLayout` | `presentation/tui/utils.go`, `presentation/cli/utils.go` | tables, wrapping, cutting and padding, bars, the layout, filter and sort of the helpers, as functions |
| `SliceSort` | `sort.Slice` | the library's insertion sort, for orders that are not orders |

A critical section that cannot block is one step.  Where the code reads, unlocks
and uses what it read, there are two.  Samples carry a time and a key, and a
value only where a property depends on one; units, names and messages are left
out.  Ghost variables (marked in the modules) record what happened for properties
to compare with and never appear in a guard of the code.

Code that keeps no state (queries, displays, readers, values) is written as
functions and checked over every input of a small set.  Such a check is an
invariant guarded by "the clock is at its start" (and, where that leaves many
states, "nothing has begun"): nothing a step does enters into it.

Definitions whose name ends in what is wrong with them (`StartLockKept`,
`BatchRoundWhole`, `AddedUnbounded`, ...) are mutants: plausible mistakes in the
definition that follows them, no part of any specification.  Each property of each
run is listed in `PROJECT.json` with one mutant under which it fails.

## The runs

`tlc -config X.cfg M`, with `M` and `X` as `PROJECT.json` has them.  States are
distinct states; times are of two workers.

| run | states | what it asks |
|---|---|---|
| `ring_buffer` | 353 446, 40 s | every mix of five writes with pops, evictions, clears, resizes and two racing readers |
| `collection` | 27 800, 3 s | three callers starting, stopping, shutting down, updating, collecting and cancelling in any order, three starts |
| `alerting` | 397 775, 19 s | one rule with three contents (a disabled one, one that fires at once, one with a duration), one target, two evaluators, a clock of four and a window of two; and the answers of comparisons, loading and queries |
| `repository` | 1 301 915, 57 s | two keys and the system, two savers and a reader, buffers of three and two, four samples over three times; apart from it two exports of one path, each for the last samples or a range it names, and a stream with pages, beside collections that evict; and the answers of queries and aggregation |
| `caches` | 1 932 834, 80 s | two readers over one-entry levels with sets, deletions and a clock; apart from it two collectors of one device, a clean-up and counters that restart; and what the readers make of a small machine |
| `services` | 58 748, 16 s | one collection request in its three modes; apart from it the orchestrator starting and taking down what it starts while a configuration is updated and the context ends |
| `liveness` | 11 421, 30 s | a stream, with and without pages, and one export, beside collections, until it ends or is cancelled; apart from it two callers of the continuous collection: as long as nobody stops or updates, every call returns and a cancelled loop ends; and the answers of displays, graphs and layout |
| `parts` | 1 967 663, 90 s | seven small parts, each alone: statistics and health, the exporter's processes, its disks, notifications, registries, the process list, the help |
| `stop_returns` | violated | a stop that meets a collection in progress never returns |
| `stale_read` | violated | a `Get` finds a stale copy while another is moving the fresh one |
| `write_rate` | violated | the first sample of a device poisons its write rate |
| `stale_deletion` | violated | a deletion leaves an older sample behind a younger one |

Runs put together what shares no state: `MCCaches`, `MCServices`, `MCLiveness`,
`MCParts` and `MCMemoryRepository` have a variable that says which part moves and never changes,
and the others keep one value.  The exports are checked beside the repository, over
two logs of their own that keep of it what exports can tell apart.  Within a part nothing is left out; parts that do interact are one module.

### Properties

- *Ring buffer.* `ImplementsBoundedLog`: whatever the indices do, the buffer is a
  bounded log.  `RangeReadExact` (on samples in time order; no other order has a
  right answer above the linear limit).  `EvictionKeepsTheYoung`.
- *Continuous collection.* `AtMostOneLoop`, `NoDoubleClose`, `EveryCallReturns`,
  `CancelEndsLoop`.
- *Lifecycle.* `AfterShutdownNothingListens`: once `Shutdown` has stopped the
  exporter, nothing listens but what an update started since.
  `CancelEndsRoutines`: a cancelled context ends every loop started with it.
- *Statistics.* `Accounted`: started collections are ended ones and those under
  way.  `HealthWasTrue`: published counters were the counters at one moment.
- *Collect use case.* `ReportedWasHanded`: three accounts that the code keeps
  apart agree, what a result counts, what it lists and what the repository was
  handed, in order; and a single or batch request lists every process it found,
  once.  `SuccessIsTrue`: no call of the collector returned an error and, in batch
  mode, no save of a process failed; it does not say that a batch lacks no part.
  `NothingAfterReturn`, `Returns`.
- *Export use case.* `ExportedIsWhole`: an export misses nothing the repository
  held throughout.  `FilesAreWhole`: a file is one whole export that was reported as
  one, unless two exports overlapped on it or the last one into it failed.  `StreamSkipsOnlyEvicted`, `StreamEnds`.
- *Displays, graphs, layout.* `DisplaysAreRight`: pages partition the list, sorting loses nobody
  although its order is none, a display fails for a reason; every sample of a
  graph is marked in the row whose label it has, and a higher value never lower (the
  marks of a line may leave gaps above each other); bars stand;
  wrapping takes the fewest lines there can be; tables align.
- *Alerting.* `NothingOverdue`, `HistoryInOrder` (with how far the history can
  pass its maximum), `NotificationsSpaced`, `AlertLifecycle`, and
  `AlertAnswersAreRight` for what operators, loading, trials and views answer.
- *Repository.* `OneHistory`, `IndexIsTidy`, `LatestLinearizable`.
  `DeletesAllOlder`, of the system's, the main and each index buffer: a deletion
  takes older samples only, from the front, and leaves one only behind a younger one
  stored before it, so none where samples were stored in order.
  `AnswersAreRight` (of I/O metrics only where every sample has counters; the
  processes with most of one are asked for where some have none, but no order is
  promised then).
- *Caches.* `NothingResurrected`, `FreshReads` (while Gets do not meet).
- *Linux rates and readers.* `RatesAreHonest`: no byte twice, a utilization is a
  percentage.  `OverlapBounded`: a byte at most once per collector when collections
  overlap.  `ReadingsAreRight`: a pressure file that is malformed or broken off is an
  error, every process found is listed or counted as skipped, what a rate claims had
  been read and is claimed once (an unreadable look restarts the count), the system
  shows a rate of its disks only from the second look on, deltas add up, grades are
  monotone, errors are judged consistently.
- *The small parts.* `ScrapesAreHonest`: byte counters say no more than was read, per
  process id, and per label unless a process was renamed; no gauge mixes two
  updates.  Of time counters it says nothing, because they do say more
  (see
  [Divergences](#divergences)).  `SelectionStays`: nothing is drawn that is not there, and the
  selection is in the list, or exactly where its comment says it is not.
  `SendsAreTrue`, `RegistriesKeepTheirWord`, `ListIsCurrent`; what each promises
  stands with it in its module.

### Bounds, and why they are enough

- *Ring buffer*: capacities of two, three and four and five writes make the array
  wrap from every position; a linear limit of three instead of 100 exercises
  the scan and the binary search.  One item: entries are told apart by their time.
  Three times suffice for before, at and after a cutoff.
- *Collection*: three callers are one more than there are locks, so every wait
  cycle of the two locks and the loop fits; three starts reach a third pair of
  channels, so a stale pair is told from a fresh one.  `liveness`, where nobody
  stops, has two callers and two starts.
- *Lifecycle*: two servers, one from `Initialize` and one from `UpdateConfig`, are
  what goroutines can mistake for each other; the proof needs no bound.  The
  constructor of the exporter returns or panics (see below).
- *Alerting*: durations of zero and more, a window of two and a clock of four let
  an alert fire, resolve, be born again inside and outside the window; two
  evaluators give every race of two snapshots.  Alerts of different rules and
  targets only meet in the history, which is bounded by two.
- *Repository*: buffers of different sizes, more samples than either holds, so
  both bounds evict; two savers make the order of times and of saves differ.
- *Caches*: one entry per level makes every second set an eviction, which is what
  moves entries; two readers meet; `stale_read` needs two entries in L2.
- *Linux rates*: a word of 16 is larger than every counter and wraps a negative
  difference as 2^64 does; a tick is a millisecond.
- *Collect use case*: limits below, at and above the number of processes, and
  zero and negative ones; the clock passes the duration by more than an interval.
- *Exports*: a batch of two over a buffer of three and up to four collections: full,
  partial and empty batches, and evictions between them; two exporters on one path
  meet in every step (`repository`; `liveness`, which asks whether a stream ends,
  needs one).  The range that a request names begins and ends at the second of the
  times, which is before, at or after the moment of the request.  It never runs
  backwards: in a buffer beyond the linear limit a reversed range makes the code
  panic (`RangePanics` in `RingBuffer`).
- *Small parts*: two process ids and two names suffice for a reuse, a renaming and
  a label that is shared; ids, names and devices are treated alike by the code and
  are taken as symmetric; a process moves a bounded number of bytes.  A limit below
  what is there (one process of two pids shown), two
  callers between two lockings, two attempts and a change of channels between
  them; lists of up to three processes, two of which match the filter and two of
  which rank equal under one key, in terminals without a row and of one and two
  rows; texts of a help lower, as high and higher than the terminal.
- *Functions*: lists of up to three, every combination of equal, smaller and larger
  values, and limits below, at and above the length; each domain stands in its
  module.

Clocks, counters of sets, starts and saves are bounded in guards by constants
named `Max...`.  Deadlock is checked except where such a bound stops the system or
where it may stop by nature (a request that has returned, a program that has quit
or panicked, callers that are blocked for good by the self-deadlock described below).

### Fairness

Fairness is stated where liveness is asked.  Go's scheduler runs every goroutine
that can run (weak fairness: the goroutines of a request, of the orchestrator, the
stream); `sync.Mutex` in starvation mode hands over to a waiter that has waited for a
millisecond, and `select` chooses uniformly among ready cases, so a lock, or a
case such as `ctx.Done()`, that is available again and again is eventually taken (strong
fairness: locks in `ContinuousCollection`, the end of the loops in `Lifecycle`).
Collector and repository calls return, and time passes.  So does the health check
in the orchestrator's routine, which `Lifecycle` takes for one step: it takes `o.mu`
(`orchestrator.go:651, 676`), which a stop that hangs (`stop_returns`) holds for
ever, so `CancelEndsRoutines` is about orchestrators where no stop hangs.  Nothing is assumed of the
callers: they need not call.  `EveryCallReturns` leaves stops, shutdowns and
updates out because they do not return: see the first two divergences.

## The proofs

`tlapm X.tla` checks every module below from nothing.  The theorems hold for all
values of the constants that the named assumptions allow (`RingAssumption`,
`CollectionAssumption`, ...: sets are finite where they are counted, capacities
positive, model values distinct); nothing else is assumed.  Each invariant that
a proof needed was first checked by TLC as an invariant of the component's run.

| module | theorems | argument |
|---|---|---|
| `SubsequenceProofs` | lemmas only | induction over the naturals from the least number of a set (the library's theorems take an operator and cannot be cited); that a function defined by recursion over an interval exists; then what `Kept` keeps: an order-preserving enumeration of the indices, all, none, a stretch, a part of both halves; the largest of some numbers with a bound |
| `RingBufferProofs` | `TypeCorrect`, `IndicesAlwaysAgree`, `LatestAlwaysNewest`, `Implementation`, `RangeReadsExact`, `EvictionsKeepTheYoung`, `NeverOvercounted` | three lemmas on positions that wrap at most once; `IndicesAgree`, head is size places after tail, is what makes the sequence between them well-defined: with it a push is an append that may drop the first entry, and each of the others drops a prefix, empties or shortens, so each step is one of `BoundedLog` or a stutter; reads leave the contents alone.  `sort.Search` halves a range whose ends keep bounding the first entry that holds and is done after as many rounds as there are entries, so the two searches bound a stretch, which is what the scan keeps of entries in order; an eviction cuts a prefix of old entries |
| `ContinuousCollectionProofs` | `Invariance`, `OneLoop`, `Quiet`, `ClosedOnce`, `Locked`, `Matched` | `CollectionInv`: that there is one loop rests on the channels it listens to being those the next stop closes (`ChannelsMatch`), that on who holds which lock (`LocksAreHeld`), and these on which operation can be at which place (`Bookkeeping`); one lemma for steps that only move a caller, one for each step that does more |
| `ServicesProofs` | `AlwaysAwaited`, `SuccessIsAlwaysTrue`, `NothingEverAfterReturn`, `ReportedIsAlwaysHanded`; `NothingListens` | `Awaited`: the goroutine lives only while `Execute` waits, and as long as no error is counted none has happened.  `Accounted`: what is listed are the processes handed over, then those still to be saved; of a batch they are the first of those found, as many as the loop's start says, and the counts are the lengths of both.  For the orchestrator: servers before the current one are closed and those after it are not made (`OneAtATime`), and the current one is closed once the exporter is stopped; so what listens was made by an update since |
| `PartsProofs` | `AlwaysAccounted`, `HealthAlwaysWasTrue`, `HealthAlwaysMovesOn`; `SendsAlwaysTrue`; `WordsAreKept`; `ScrapesAlwaysHonest`; `SelectionAlwaysStays`, `ListIsAlwaysCurrent` | Statistics: executing callers counted as a cardinality; `InOrder`, the published reading is behind the one being published, which is behind the counters.  Notifications: `CallInv`, no channel is named twice by what a call has answered and has yet to, and what arrived is at most what was tried.  Registries: `Met`, two calls for a name know of each other, so one that knows of none finds its name free (`Alone`); what is about to be stored is open and nobody else's (`Open`).  Exporter: what is counted under a process id, or for a disk, and what the next update would add to it have been read (`PidCounted`, `DiskCounted`); under a label also, unless a process of it was renamed (`NameCounted`); a gauge an update has still to reset has the rows of the last, any other those due less the ones still owed (`RowsFit`), and the update sets what its sample has (`UpdateIsCurrent`).  Terminal: `TerminalInv`; every key, filter, sort, answer and size keeps the selection in the window (`Keeps`), before the first process exactly while nothing was selected since a key asked for the end of an empty list (`strayed`), and what is shown an arrangement of what was filtered (`IsCurrent`), which rests on every list having an order (`OrderExists`: by induction, one more goes before the first that is smaller) |
| `AlertingEngineProofs` | `NeverOverdue`, `AlwaysSpaced`, `HistoryAlwaysInOrder`, `AlwaysLivesOn`; `AnswersAlwaysRight` | `Stamped`: whatever was notified left a stamp at least as late in the limiter, which therefore refuses the next one within a window; `HistoryInv`: an entry is added with the time of its addition, so order is kept by appending and by trimming the front, and each one that passes the maximum was an active alert before.  Answers, for every value, list of rules and length of the history: comparisons by their cases; a load reaches the rules before the first one without an id (`LoadReaches`) and keeps the last of each id; what two processes are alerted of differs in the process, and of two rules in the rule |
| `MemoryRepositoryProofs` | `RepositoryInvariance`, `RepositoryTypes`, `AlwaysTidy`, `AlwaysOneHistory`, `AlwaysDeletesAllOlder`, `AlwaysLinearizable`; `ExportsInvariance`, `AlwaysExportedWhole`, `AlwaysWholeFiles`, `AlwaysSkipsOnlyEvicted`; `AnswersAlwaysRight` | `RepositoryInv`: a buffer that a reader holds is still the index's for his key, or nobody writes to it any more; in the first case what he would answer now is an answer of now, in the second it is the one of the moment before the index dropped it.  `HistoryInv`: what the main buffer keeps of a key and what the index has of it agree from their ends backwards; a save adds to both ends, an eviction takes from either front.  An eviction stops at the first entry that is not older, which is therefore in front of every older one it leaves (`EvictedCleansUp`), in each of the buffers.  Exports: `ExportsInv`, four invariants in one.  `LogsInv`: the log of the system holds consecutive times up to the clock, so what was evicted never comes back.  `JobsInv`: what an export has found by now includes everything that was stored when it was asked for and is stored still, is of the parts and the time asked for, and its rendering tells that.  `FilesInv`: a path that nobody spoiled has at most one writer, is empty as long as there is one and then holds what that one wrote.  `StreamInv`: a stream over pages has written as many samples as its offset says, in order, none of them beyond the sample that its offset counted from the log's front would be; evictions only move that front on.  Answers, for any samples, limit and length: after each round of the library's insertion sort what it has seen stands in falling order, each sample once, so the first of it outdo those left out; a total lies between the least and the largest taken as often as there are values, and so does its quotient |
| `CachesProofs` | `CacheSafe`, `CacheAnswersFresh`, `RatesHonest`, `RepeatsAlwaysBounded`; `ProcessReadsAlwaysConserved`, `PressuresAlwaysWhole`, `NamesAlwaysSurvive`, `GradesAlwaysMonotone` | `CacheInv`: a removal finds no `Get` with an entry in its hands, and takes every copy.  `FreshInv`: L1 has what was given last, and a stale copy in L2 that has not expired hides behind an entry of its key that lives at least as long, in L1 or on its way down.  `ReadsInv`: what a device has read and no rate has claimed covers what the next call would claim, with the sample a collection holds or one taken now.  `OverlapInv`: where collections overlap, every one with a sample in its hands may have its call report what was read since again, and the next call what was read since the entry's sample (`Pending`, `Behind`, counted as a cardinality): one reader more than there are collectors when all have sampled, and then what the sample least behind has missed makes up for it.  The four last ones say of the functions behind `ReadingsAreRight`, for anything the kernel shows, what TLC checks on small inputs: what was reported last and the entry has not been told is still to be claimed (`StillToClaim`), where a look that could not read the counters is one at a process that starts at zero; the last part with a key on the last line with a head, both largest indices; the first left and the last right mark of a line enclose the name; a severity is the last grade whose threshold is reached |

What is proved of a component and not run any more (`TypeCorrect` and the
like, `LatestIsNewest`, `ReadsNeverOvercounted`, `QuietWhenStopped`, `HealthMovesOn`)
is in these modules; the run of the component asks what its proof leaves open.

Only model-checked, and why:

- liveness (`EveryCallReturns`, `CancelEndsLoop`, `Returns`, `CancelEndsRoutines`,
  `StreamEnds`): the prover has no rules for fairness and `ENABLED`;
- two of the four properties about the answers of functions (`ReadingsAreRight`,
  for the parts that the theorems about readers above leave, and
  `DisplaysAreRight`): they compare algorithms written with folds and selections
  over data, which the prover has no induction for.  The algorithms whose answers
  are proved (`Kept`, `SortSearch`, `SortSlice` and `Total` of `RepositoryQueries`)
  are recursive functions instead, proved about by an induction of our own.

## Divergences

Shown by a run that fails (`findings` in `PROJECT.json`):

1. *A stop can wait for ever* (`stop_returns`).  `StopContinuousCollection` holds
   `o.mu` while it waits on `doneChan` (`orchestrator.go:441`,
   `linux/collector.go:270-281`); the loop's callback takes `o.mu`
   (`orchestrator.go:386`).  `Shutdown` inherits it.
2. *A `Get` can find an older value* (`stale_read`).  Promotion runs under the
   read lock and evicts an entry before its callback has stored it below.
3. *The first write rate of a device is wrong* (`write_rate`).  The call for the
   reads makes the entry and stores its value for both counters
   (`linux/cache.go:130`).  The paths of a process and of the system have the same
   shape (`cache.go:75-118, 213-253`): the read call also stores the time, so the
   interval of the write that follows is microseconds long.
4. *A deletion can leave older samples* (`stale_deletion`).  `DeleteOldMetrics`
   "removes metrics older than the specified time" (`memory.go:335`), but
   `EvictOlderThan` stops at the first that is not older (`ringbuffer.go:266`), and
   concurrent saves store samples out of order (`memory.go:82`).

The rest is visible in the modules and not run as a property of its own, because
nothing in the repository states the opposite precisely or because a property
could only repeat the code.

*It does not compile.*  `BUILD_STATUS.md` says so: constructors that are called
with other types or are missing (`NewProcessID`, `NewCPUInfo`), a misuse of
`strings.Cut` in `checkKernelVersion`, undeclared names in
`darwin/collector.go`, an unused variable in `graphs.go`, formatters that read
fields the entities and DTOs lack.  The modules take such code by its evident
intent where there is only one; what has none is not modelled.
`registerMetrics` registers the Go collector twice (`prometheus.go:393, 440`),
which the client library of `go.mod` refuses with a panic: `Lifecycle`
takes both a constructor that returns and one that panics.

*Orchestration.*

- `UpdateConfiguration` calls `StopContinuousCollection` with `o.mu` held, which
  locks it again (`orchestrator.go:554`): a caller at `"relocking"` never leaves.
- A cancelled loop leaves `continuous` and `running` set, so `IsCollecting`
  answers for a loop that is gone (`linux/collector.go:253, 317`).
- A failed cycle of the loop counts as failed but not in the total, so the error
  rate can pass 100 % (`orchestrator.go:391, 659`).
- `Initialize` with the historical store disabled keeps a nil repository and
  panics where it is pinged.
- The exporter's `UpdateConfig` starts the new server on a background context
  that nobody cancels.
- Nothing validates the periods of the health check, the clean-up and the
  evaluation, and `NewTicker` panics at zero (`orchestrator.go:705, 724`,
  `memory.go:445`, `cache.go:222`, `engine.go:480`).

*Use cases.*

- In `CollectMetrics`, the fall-backs of interval and batch size to the
  configuration are dead, because `Validate` runs first; a continuous request
  drops the system metrics it has when the processes fail; failed saves count as
  errors only for the processes of batch requests; a request whose context ends
  returns no result for what it has saved.
- The repository ignores `Limit` and `Offset`, so a streamed export of at least a
  batch of samples repeats itself until it is cancelled.
- A batch is a success although parts of it failed: the Linux `CollectAll` answers
  what it has, with the errors of the parts in the result and none returned
  (`collector.go:104-156`), and `executeBatchCollection` looks at the returned one
  only (`collect_metrics.go:295-316, 352`).
- `DisplayMetrics` says "Use the latest for summary" and takes the element at 0,
  which is the oldest.
- Filters and methods of `memory.go` are absent from the repository interface of
  the domain; the exporter's updates, `StreamExport`, `GetOrCreate` and
  `AutoDetect` have no callers but tests.

*Storage.*

- `totalReads` loses counts of racing readers (`ringbuffer.go:165`).
- Where concurrent saves have stored samples out of time order, a read by time
  above the linear limit (`ringbuffer.go:119`) may miss samples or panic; it panics
  for a range that ends before it begins, too.
- `GetTopProcesses` takes the newest samples for the current processes, so one
  process can appear several times (`memory.go:280`).  A negative count panics.
- The clean-up goroutine ranges over a ticker that nobody stops (`memory.go:444`).
- Promotion gives a cache entry a new time-out (`cache.go:207-210`).
- `GetHitRate` counts a read that misses L1 and hits L2 as a hit and as a miss:
  reads that are all answered by L2 have a hit rate of 50 %.

*Alerting.*

- `RemoveRule` appends to the history without trimming it (`engine.go:156`);
  `HistoryInOrder` says by how much it can grow.
- A rule removed during an evaluation still opens alerts that no later evaluation
  visits (`engine.go:191`), against the comment at `engine.go:151`.
- An alert of a process that has exited, or of a disabled rule, is evaluated no
  more and stays active (`engine.go:257`).
- `Stop` offers its signal without waiting (`engine.go:506`): outside its
  `select`, the loop misses it, and a second `Start` makes a second loop.
- `GetAlertHistory` hands out the engine's own alerts (`engine.go:471`).
- `ChannelConfig.Enabled` is never read, an email without a recipient panics, and
  zero attempts answer an error without trying.

*Collectors and the exporter's counters.*

- The utilization is computed from a time stamp that was set within the same
  collection, so its interval is almost always under a millisecond and it is
  reported as zero (`diskstats.go:391`); the clamp below zero never applies to
  unsigned differences (`diskstats.go:411`).
- The write latency is set only when the disk was also read (`diskstats.go:97`);
  partitions from number 10 on count as disks (`diskstats.go:304`).
- One unreadable `/proc/<pid>/io` is stored as zeros, and the next success reports
  the process's whole life as one interval (`procfs.go:78`).
- `SetProcessCount(active, total)` is handed the numbers of processes and of
  threads (`system.go:114`); the status letters of the readers no longer match the words
  the process library answers, so states are shown as `?`.
- `Reset` empties a cache no reader uses and keeps `lastError`
  (`linux/collector.go:341`); successful collections are the collections less the
  errors, which wraps when a collection has several.
- `UpdateDiskIO` adds the whole `ReadTime` and `WriteTime` to the time counters with
  every update (`prometheus.go:667`), where the comment at line 629 speaks of the
  delta and the help at line 329 of the total time; the previous values it would need
  are kept as zeros (line 664).  So these counters say more than was read, and are
  left out of the model.
- A process that takes another name (`exec`, `prctl`) keeps its counters, and what
  it did since the last update is added to the label of the new name; if its id
  was out of the limit meanwhile, what it did under the old (`prometheus.go:577-583`).
- `DiskIO.AverageLatency` leaves out a kind of access whose latency is zero, so it
  can fall when a latency rises (`diskio.go:148`).
- `"MEDIUM"` is unreachable among the grades of a process (`processmetrics.go:246`).

*Presentation.*

- The help fills its view in a loop that never ends when fewer lines remain than
  are visible (`help.go:219`), and its drawing panics on terminals lower than four lines; the pages of
  the list move the selection out of it on terminals of up to eight lines.
- `end` and `pgdown` in an empty list put the selection before its first process
  (`processlist.go:167, 178`), and "Reset selection if needed" (line 354) looks at the
  other end only: when the next answer fills the list no process is selected until a
  key selects again.  `SelectionStays` says that this is the one way to lose the
  selection in a terminal with rows.
- The filter dialog swallows the global keys, `Enter` in it leaves the order of
  arrival until the next sort, and answers of fetches that arrive late replace
  newer ones.
- The summary shows network bytes as disk reads.
- The legend of a graph of several lines ranges over the map a second time, in
  another order than the lines were drawn in, and may name the wrong style.
- Without automatic scaling a value just below the minimum is drawn in the lowest
  row; a single sample leaves no mark; sampling may lose the last value to
  rounding; `RenderLineGraph` raises the renderer's own size for later graphs.
- `RenderMultiLineGraph` has no guard on its size and `RenderHeatmap` none on an
  empty first row: both panic there.
- `padString` cuts a text that exactly fits; a table row with a blank first cell
  moves to the left; a progress bar that finishes within 100 ms of its last
  drawing is not drawn finished, and a total of zero divides by zero.

## Not modelled

| component | why |
|---|---|
| `DarwinCollector` | its text uses names that are declared nowhere: there is no one program to translate |
| `DarwinReaders` | output of system tools, `cgo` and `sysctl`; the shapes that decide are those of the Linux readers |
| `Pools` | wrappers of `sync.Pool` that nothing calls |
| `DTOs` | field by field conversion; the validation of requests is modelled with the use cases |
| `Configuration` | loading and defaults; the values it may hold are constants of the modules |

Of parts that are modelled:

- *Formatters*: JSON, CSV and text are layout, and two graph renderers read fields
  that do not exist.
- *CLI*: flags, prompts, the spinner and the validators nothing calls.
- *TUI*: colours, the summary view, the state behind `shared`.
- *Domain*: accessors, units, JSON.
- *Linux readers*: the details of CPU and memory, `sysfs`, kernel versions.
- *Exports*: a stream's own range (`export_metrics.go:636-645`), and CSV writers whose
  only error is that of the last flush of a header.
- *Multi-level cache*: hit statistics and the typed wrappers.
- *Alerting use case*: what only passes its arguments on.

Outside every model: memory itself (the leaks at `memory.go:444` and
`factory.go:129` are listed as hazards), data races on Go maps that abort the
program (`memory.go:389`), logging and wording.

## The plan

Done, in the order of importance: ring buffer, repository, continuous collection,
statistics, alerting, cache, rates, collect; then exports, displays and queries,
the lifecycle, notifications, factories and registry, the exporter's counters, the
readers, domain values, the TUI, graphs and layout; proofs of the safety of every
component that keeps state.

Next:

1. The hit statistics of the cache, and the configuration's validation against the
   periods the loops use.
2. The Darwin collector, once its names are declared.
