------------------------------ MODULE MCParts ------------------------------
(***************************************************************************)
(* Small instances, for TLC, of parts that share no state: what the        *)
(* orchestrator counts, the metrics of the exporter, the notification      *)
(* manager, the registries of constructors and the terminal interface.     *)
(* The initial state says which of them moves (the metrics of processes    *)
(* and those of disks, the process list and the help of the terminal each  *)
(* apart); the variables of the others keep one value.                     *)
(***************************************************************************)
EXTENDS CollectionStats, TLC

CONSTANTS
  Off, Absent,
  Pids, Names, Devices, ProcessLimit, MaxBytes, MaxExported,  \* of ExporterCounters
  Channels, Senders, RetryAttempts, MaxChanges,               \* of Notifications
  RepoNames, Types, OS, MaxRepos,                             \* of Factories
  Processes, Matching, Rank, Heights, FirstVisible, HelpLines, MaxFetches, MaxIndex  \* of Tui

VARIABLES
  part,
  process, disk, processRead, pidRead, diskRead, renamed,
  prevProcessIO, prevDiskIO, processIORead, diskReadBytes, counted, rows, exporterUpdate, sample, metricsExported,
  channels, send, changes,
  registry, defaultType, instances, repos, made, call, raced,
  life, view, err, fetching, list, help, cramped, strayed

metrics == <<process, disk, processRead, pidRead, diskRead, renamed, prevProcessIO, prevDiskIO,
              processIORead, diskReadBytes, counted, rows, exporterUpdate, sample, metricsExported>>
notifications == <<channels, send, changes>>
factories == <<registry, defaultType, instances, repos, made, call, raced>>
terminal == <<life, view, err, fetching, list, help, cramped, strayed>>
MCvars == <<part, vars, metrics, notifications, factories, terminal>>

E == INSTANCE ExporterCounters WITH None <- Absent, update <- exporterUpdate
N == INSTANCE Notifications WITH Callers <- Senders
F == INSTANCE Factories WITH Names <- RepoNames, None <- Absent
T == INSTANCE Tui

ASSUME PartsAssumption ==
  /\ IsFiniteSet(Pids) /\ IsFiniteSet(Devices) /\ IsFiniteSet(Channels)
  /\ ProcessLimit \in Nat /\ RetryAttempts \in Nat /\ MaxRepos \in Nat
  /\ Absent \notin Nat \cup RepoNames \cup Types \cup N!Made \cup {N!NotFound, N!GaveUp}
  /\ OS \in Types

ASSUME TerminalAssumption ==
  /\ IsFiniteSet(Processes) /\ Heights \subseteq Nat /\ FirstVisible \in Nat \ {0}
  /\ HelpLines \in Nat /\ MaxFetches \in Nat
  /\ "cpu" \in DOMAIN Rank /\ \A key \in DOMAIN Rank : Rank[key] \in [Processes -> Int]

MetricsOff ==
  /\ process = Off /\ disk = Off /\ processRead = Off /\ pidRead = Off
  /\ diskRead = Off /\ renamed = Off /\ counted = Off
  /\ prevProcessIO = Off /\ prevDiskIO = Off /\ processIORead = Off
  /\ diskReadBytes = Off
  /\ rows = Off /\ exporterUpdate = Off /\ sample = Off /\ metricsExported = Off
NotificationsOff == channels = Off /\ send = Off /\ changes = Off
FactoriesOff ==
  /\ registry = Off /\ defaultType = Off /\ instances = Off /\ repos = Off
  /\ made = Off /\ call = Off /\ raced = Off

TerminalOff ==
  /\ life = Off /\ view = Off /\ err = Off /\ fetching = Off
  /\ list = Off /\ help = Off /\ cramped = Off /\ strayed = Off

Symmetry == Permutations(Pids) \cup Permutations(Names) \cup Permutations(Devices)

MCRank == [cpu |-> <<2, 1, 2>>, pid |-> <<1, 2, 3>>]

Parts == {"stats", "processes", "disks", "notifications", "factories", "list", "help"}

MCInit ==
  /\ part \in Parts
  /\ Init
  /\ IF part \in {"processes", "disks"} THEN E!Init ELSE MetricsOff
  /\ IF part = "notifications" THEN N!Init ELSE NotificationsOff
  /\ IF part = "factories" THEN F!Init ELSE FactoriesOff
  /\ IF part \in {"list", "help"} THEN T!Init ELSE TerminalOff

MCNext ==
  \/ part = "stats" /\ Next /\ UNCHANGED <<part, metrics, notifications, factories, terminal>>
  \/ /\ part = "processes" /\ E!Next /\ UNCHANGED <<part, vars, notifications, factories, terminal>>
     /\ UNCHANGED disk /\ exporterUpdate'.kind # "disks"
  \/ /\ part = "disks" /\ E!Next /\ UNCHANGED <<part, vars, notifications, factories, terminal>>
     /\ UNCHANGED process /\ exporterUpdate'.kind # "processes"
  \/ part = "notifications" /\ N!Next /\ UNCHANGED <<part, vars, metrics, factories, terminal>>
  \/ part = "factories" /\ F!Next /\ UNCHANGED <<part, vars, metrics, notifications, terminal>>
  \/ /\ part = "list" /\ T!Next /\ UNCHANGED <<part, vars, metrics, notifications, factories>>
     /\ help'.scroll = 0
  \/ /\ part = "help" /\ T!Next /\ UNCHANGED <<part, vars, metrics, notifications, factories>>
     /\ list'.processes = << >>

MCSpec == MCInit /\ [][MCNext]_MCvars

-----------------------------------------------------------------------------
\* ExporterCounters: a scrape at any moment sees byte counters that were read,
\* under their label unless a process took another name, and in each gauge rows
\* of one update alone.
ScrapesAreHonest == part \in {"processes", "disks"} => E!ScrapesAreHonest

\* Notifications: what a send answers of each channel is true.
SendsAreTrue == part = "notifications" => N!SendsAreTrue

\* Factories: instances are shared by name unless their makers raced, and the
\* default answered for was the default.
RegistriesKeepTheirWord == [][part = "factories" => F!KeepsItsWord]_MCvars

\* Tui: the process list draws rows that are there, and keeps its selection in
\* the list, and its window at it or above, unless the terminal was too low for
\* a row or a key went to the end of an empty list.
SelectionStays == part \in {"list", "help"} => T!SelectionStays

\* Tui: the list shows the last answer under the filter and the sort key in
\* force.
ListIsCurrent == part \in {"list", "help"} => T!ListIsCurrent
=============================================================================
