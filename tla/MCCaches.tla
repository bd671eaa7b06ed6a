------------------------------ MODULE MCCaches ------------------------------
(***************************************************************************)
(* Small instances, for TLC, of two caches that share no state: the        *)
(* two-level cache of the optimization package, and the samples that the   *)
(* Linux collector keeps to compute rates.  The initial state says which   *)
(* of them moves.                                                          *)
(***************************************************************************)
EXTENDS MultiLevelCache, TLC

CONSTANTS
  Devices, Collectors, TicksPerMilli, MaxAge, Word, NoEntry, Growing, MaxGrowth, MaxResets,  \* of DiskRates
  Unread, Refused                                                                           \* of LinuxCollector

VARIABLES part, time, counters, resets, cache, collector, grown, credited, overlapped, stalled

rates == <<time, counters, resets, cache, collector, grown, credited, overlapped, stalled>>
MCvars == <<part, vars, rates>>

D == INSTANCE DiskRates WITH now <- time
L == INSTANCE LinuxCollector

ASSUME RatesAssumption ==
  /\ TicksPerMilli \in Nat \ {0} /\ Word \in Nat \ {0} /\ Growing \subseteq D!Kinds
  /\ MaxResets \in Nat /\ NoEntry \notin D!Entry /\ IsFiniteSet(Collectors)

\* Unread is told from the entry of a process.
ASSUME ReadersAssumption == Unread \notin [val : [{"read", "write"} -> Nat], at : Int]

MCTTL == [k \in Keys |-> L1TTL]
Symmetry == Permutations(Keys) \cup Permutations(Readers) \cup Permutations(Collectors)

MCInit ==
  /\ part \in {"levels", "rates"}
  /\ Init
  /\ IF part = "rates" THEN D!Init ELSE
       /\ time = Nothing /\ counters = Nothing /\ resets = Nothing /\ cache = Nothing /\ collector = Nothing
       /\ grown = Nothing /\ credited = Nothing /\ overlapped = Nothing /\ stalled = Nothing

MCNext ==
  \/ part = "levels" /\ Next /\ UNCHANGED <<part, rates>>
  \/ part = "rates" /\ D!Next /\ UNCHANGED <<part, vars>>

MCSpec == MCInit /\ [][MCNext]_MCvars

-----------------------------------------------------------------------------
\* DiskRates: unless two collections of the device overlapped, the read rates
\* reported account for no byte twice; and whatever was attached again under
\* the same name, a utilization is a percentage.
RatesAreHonest == part = "rates" => D!ReadsConserved /\ D!UtilizationIsPercent

\* DiskRates: collections that overlap report a byte at most once each.
OverlapBounded == part = "rates" => D!OverlapBounded

\* LinuxReaders, LinuxCollector, DomainValues: pressures, processes, disks and
\* the system are read right or reported as failed; every process found is
\* listed or counted; read rates claim no byte twice; a collection tells of
\* every part; errors and grades are judged consistently.  They are functions:
\* they are looked at in the initial states only.
ReadingsAreRight ==
  part = "rates" /\ D!Init =>
    /\ L!ReadersAreRight /\ L!CollectorIsRight
    /\ L!ArithmeticStaysInRange /\ L!GradesAreMonotone /\ L!DeltasAddUp
=============================================================================
