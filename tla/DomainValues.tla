----------------------------- MODULE DomainValues -----------------------------
(***************************************************************************)
(* The values and entities of the domain (domain/valueobjects and          *)
(* domain/entities): which numbers they accept, what their arithmetic      *)
(* answers, and how entities are graded and compared.  They hold no        *)
(* pointers to one another and are changed by nobody once collected, so    *)
(* they are functions here.                                                *)
(*                                                                         *)
(* Percentages and rates are whole numbers.  An entity is a record of the  *)
(* fields a grade depends on; latencies are in milliseconds, rates in      *)
(* megabytes per second.                                                   *)
(***************************************************************************)
EXTENDS Integers, Sequences

CONSTANT Refused   \* the answer of an operation that returns an error

-----------------------------------------------------------------------------
(***************************************************************************)
(* Value objects.                                                          *)
(***************************************************************************)
NewPercentage(v) == IF v < 0 \/ v > 100 THEN Refused ELSE v

NewPercentageFromRatio(n, d) == IF d = 0 THEN Refused ELSE NewPercentage((n * 100) \div d)

\* Add, Subtract, Multiply and Divide compute and check anew.
PercentageArithmetic(op, p, x) ==
  CASE op = "Add"      -> NewPercentage(p + x)
    [] op = "Subtract" -> NewPercentage(p - x)
    [] op = "Multiply" -> NewPercentage(p * x)
    [] op = "Divide"   -> IF x = 0 THEN Refused
                          ELSE NewPercentage(IF x > 0 THEN p \div x ELSE -(p \div (-x)))

IsCritical(p) == p >= 90
IsWarning(p)  == p >= 70 /\ p < 90

\* The cells of a progress bar that are filled.
FilledCells(p, width) ==
  LET filled == (p * width) \div 100
  IN  IF width <= 0 THEN 0 ELSE IF filled > width THEN width ELSE filled

NewByteRate(v) == IF v < 0 THEN Refused ELSE v

ByteRateArithmetic(op, r, x) ==
  CASE op = "Add"      -> r + x
    [] op = "Subtract" -> NewByteRate(r - x)
    [] op = "Multiply" -> IF x < 0 THEN Refused ELSE r * x
    [] op = "Divide"   -> IF x = 0 \/ (x < 0 /\ r > 0) THEN Refused
                          ELSE IF x < 0 THEN 0 ELSE r \div x

MaxPID == 4194304
NewProcessID(n) == IF n <= 0 THEN Refused ELSE n
IsValid(pid) == pid > 0 /\ pid <= MaxPID

\* A sample may be up to two seconds ahead of the clock of whoever reads it.
MaxFutureSkew == 2
NewTimestamp(t, clock) == IF t = 0 \/ t > clock + MaxFutureSkew THEN Refused ELSE t

-----------------------------------------------------------------------------
(***************************************************************************)
(* How busy a system and a process are.                                    *)
(***************************************************************************)
GetPressureLevel(cpu, memory) ==
  IF IsCritical(cpu) \/ IsCritical(memory) THEN "CRITICAL"
  ELSE IF IsWarning(cpu) \/ IsWarning(memory) THEN "WARNING" ELSE "NORMAL"

IsHighIO(io) == io > 10

\* Since 50 percent of the CPU and 30 of the memory already are high, a
\* warning, which starts at 70, never makes a process merely MEDIUM.
GetResourceIntensity(p) ==
  IF IsCritical(p.cpu) \/ IsCritical(p.memory) THEN "CRITICAL"
  ELSE IF p.cpu >= 50 \/ p.memory >= 30 \/ IsHighIO(p.io) THEN "HIGH"
  ELSE IF IsWarning(p.cpu) \/ IsWarning(p.memory) THEN "MEDIUM" ELSE "LOW"

\* Ten times the score: the I/O counts for at most 20, reached at 100 MB/s.
CalculateResourceScore(p) ==
  LET io == 2 * p.io
  IN  4 * p.cpu + 4 * p.memory + IF io > 200 THEN 200 ELSE io

CompareTo(p, q) ==
  LET a == CalculateResourceScore(p)
      b == CalculateResourceScore(q)
  IN  IF a > b THEN 1 ELSE IF a < b THEN -1 ELSE 0

\* What changed between two samples of one thing, the later one given first:
\* a difference is formed only of samples that are of the same and in order.
CalculateDelta(later, earlier, fields) ==
  IF later.id # earlier.id \/ later.at <= earlier.at THEN Refused
  ELSE [f \in fields |-> later[f] - earlier[f]]

SystemDelta(later, earlier)   == CalculateDelta(later, earlier, {"cpu", "memory", "read", "write", "in", "out"})
ProcessDelta(later, earlier)  == CalculateDelta(later, earlier, {"cpu", "memory", "read", "write"})
DiskDelta(later, earlier)     == CalculateDelta(later, earlier, {"read", "write", "readLatency", "writeLatency", "utilization"})
PressureDelta(later, earlier) == CalculateDelta(later, earlier, {"some10", "some60", "some300", "stalls", "events"})

\* Improving is that all of some fields fall, deteriorating that one of them
\* rises by more than the limit.
Trend(delta, fields, limit) ==
  IF \A f \in fields : delta[f] < 0 THEN "IMPROVING"
  ELSE IF \E f \in fields : delta[f] > limit THEN "DETERIORATING" ELSE "STABLE"

ProcessTrend(delta)  == Trend(delta, {"cpu", "memory"}, 5)
DiskTrend(delta)     == Trend(delta, {"readLatency", "writeLatency", "utilization"}, 10)
PressureTrend(delta) == Trend(delta, {"some10", "some60", "some300"}, 5)

-----------------------------------------------------------------------------
(***************************************************************************)
(* CPU pressure: the percentages of the last 10, 60 and 300 seconds.       *)
(***************************************************************************)
Severities == <<"NONE", "LOW", "MEDIUM", "HIGH", "CRITICAL">>

\* From NONE, which takes nothing, upwards: one average that has reached its
\* threshold is enough.
Thresholds == << <<0, 0, 0>>, <<20, 15, 10>>, <<40, 30, 25>>, <<60, 50, 40>>, <<80, 70, 60>> >>

SeverityRank(averages) ==
  CHOOSE r \in 1..5 :
    /\ \E i \in 1..3 : averages[i] >= Thresholds[r][i]
    /\ \A s \in (r + 1)..5, i \in 1..3 : averages[i] < Thresholds[s][i]

GetOverallSeverity(some, full) ==
  IF SeverityRank(full) > SeverityRank(some) THEN Severities[SeverityRank(full)]
  ELSE Severities[SeverityRank(some)]

GetTrend(some) ==
  IF some[1] > some[2] /\ some[2] > some[3] THEN "INCREASING"
  ELSE IF some[1] < some[2] /\ some[2] < some[3] THEN "DECREASING" ELSE "STABLE"

-----------------------------------------------------------------------------
(***************************************************************************)
(* Disks.                                                                  *)
(***************************************************************************)
\* A latency of zero means that there is none, and does not count.
AverageLatency(read, write) ==
  IF read = 0 THEN write ELSE IF write = 0 THEN read ELSE (read + write) \div 2

GetPerformanceLevel(utilization, latency) ==
  IF IsCritical(utilization) \/ latency > 100 THEN "CRITICAL"
  ELSE IF IsWarning(utilization) \/ latency > 50 THEN "POOR"
  ELSE IF utilization >= 50 \/ latency > 20 THEN "FAIR"
  ELSE IF latency < 5 /\ utilization <= 30 THEN "EXCELLENT" ELSE "GOOD"

-----------------------------------------------------------------------------
(***************************************************************************)
(* Checked over the values at and below every threshold.                   *)
(***************************************************************************)
Edges(i) == {0} \cup UNION {{Thresholds[r][i] - 1, Thresholds[r][i]} : r \in 2..5}
Usages == {0, 29, 30, 49, 50, 69, 70, 89, 90, 100}
Latencies == {0, 4, 5, 20, 21, 50, 51, 100, 101}
IntensityRank == [LOW |-> 1, MEDIUM |-> 2, HIGH |-> 3, CRITICAL |-> 4]
PerformanceRank == [EXCELLENT |-> 1, GOOD |-> 2, FAIR |-> 3, POOR |-> 4, CRITICAL |-> 5]

\* No arithmetic on percentages and rates leaves their range: what would is
\* refused.
ArithmeticStaysInRange ==
  \A op \in {"Add", "Subtract", "Multiply", "Divide"}, p \in Usages, x \in -2..3 \cup Usages :
    /\ PercentageArithmetic(op, p, x) \in 0..100 \cup {Refused}
    /\ ~(op = "Add" /\ x < 0) =>
         \/ ByteRateArithmetic(op, p, x) = Refused
         \/ ByteRateArithmetic(op, p, x) >= 0

\* More use never makes for a better grade: raising one average, one usage,
\* the I/O or the latency leaves the severity of a pressure, the intensity and
\* the score of a process and the level of a disk where they are or worse.
GradesAreMonotone ==
  /\ \A a \in Edges(1), b \in Edges(2), c \in Edges(3), i \in 1..3 :
       LET averages == <<a, b, c>>
       IN  \A v \in Edges(i) :
             v >= averages[i] => SeverityRank([averages EXCEPT ![i] = v]) >= SeverityRank(averages)
  /\ \A u, v, w \in Usages, x, y \in {0, 10, 11, 101} :
       v <= w /\ x <= y =>
         LET lighter == [cpu |-> u, memory |-> v, io |-> x]
             heavier == [cpu |-> u, memory |-> w, io |-> y]
         IN  /\ IntensityRank[GetResourceIntensity(lighter)] <= IntensityRank[GetResourceIntensity(heavier)]
             /\ CompareTo(lighter, heavier) <= 0 /\ CompareTo(heavier, lighter) >= 0
  /\ \A u, v \in Usages, x, y \in Latencies :
       u <= v /\ x <= y =>
         PerformanceRank[GetPerformanceLevel(u, x)] <= PerformanceRank[GetPerformanceLevel(v, y)]

Sampled(id, at, cpu, memory) == [id |-> id, at |-> at, cpu |-> cpu, memory |-> memory, read |-> 0, write |-> 0]

\* Of any three samples: what changed over the whole is what changed over the
\* parts, formed exactly for samples of one process in the order of their
\* times; and what improves in one direction does not in the other.
DeltasAddUp ==
  \A a, b, c \in {Sampled(i, t, u, v) : i \in 1..2, t \in 1..3, u \in {0, 6}, v \in {0, 6}} :
    LET ab == ProcessDelta(b, a)
        bc == ProcessDelta(c, b)
        ac == ProcessDelta(c, a)
    IN  /\ ab # Refused /\ bc # Refused =>
             ac # Refused /\ \A f \in DOMAIN ac : ac[f] = ab[f] + bc[f]
        /\ ab # Refused => ProcessDelta(a, b) = Refused
        /\ ab # Refused /\ bc # Refused /\ ProcessTrend(ab) = "IMPROVING" /\ ProcessTrend(bc) = "IMPROVING" =>
             ProcessTrend(ac) = "IMPROVING"
=============================================================================
