------------------------- MODULE MCMemoryRepository -------------------------
(***************************************************************************)
(* Small instances, for TLC, of the repository and of the exports of what  *)
(* a repository holds, which are modelled over two logs of their own.  The *)
(* initial state says which of them moves.  The queries on what the        *)
(* repository holds change nothing.                                        *)
(***************************************************************************)
EXTENDS MemoryRepository, RepositoryQueries

CONSTANTS
  Exporters, Paths, Formats, Destinations, PartsAsked, Since, Until, BatchSize, BusyTimes,
  MaxStreamTime

ASSUME ExportsAssumption ==
  /\ BatchSize \in Nat \ {0} /\ MaxStreamTime \in Nat
  /\ PartsAsked \subseteq SUBSET {"system", "processes"} /\ BusyTimes \subseteq Nat
  /\ Since \subseteq Nat /\ Until \subseteq Nat

VARIABLES part, systems, processes, clock, paged, job, disk, spoiled, stream

exports == <<systems, processes, clock, paged, job, disk, spoiled, stream>>
MCvars == <<part, vars, exports>>

X == INSTANCE ExportMetrics WITH now <- clock

MCInit ==
  /\ part \in {"repository", "exports"}
  /\ Init /\ X!Init
  /\ part = "repository" => stream.pc = "absent"

MCNext ==
  \/ part = "repository" /\ Next /\ UNCHANGED <<part, exports>>
  \/ part = "exports" /\ X!Next /\ UNCHANGED <<part, vars>>

MCSpec == MCInit /\ [][MCNext]_MCvars

Symmetry == Permutations(Keys) \cup Permutations(Savers) \cup Permutations(Exporters)

-----------------------------------------------------------------------------
\* What the repository answers from its samples is right for every short
\* history: asked once, before the clock moves, since no state enters into it.
AnswersAreRight == part = "repository" /\ now = 0 => EveryAnswerIsRight

\* ExportMetrics: an export that succeeded tells what there was, and one that
\* did not says why.
ExportedIsWhole == X!ExportedIsWhole

\* ExportMetrics: a file that nobody spoiled is one whole export that was
\* reported as one.
FilesAreWhole == X!FilesAreWhole

\* ExportMetrics: a stream over pages repeats nothing, keeps the order and misses
\* no more than was evicted under it.
StreamSkipsOnlyEvicted == X!StreamSkipsOnlyEvicted
=============================================================================
