--------------------------- MODULE DisplayMetrics ---------------------------
(***************************************************************************)
(* What DisplayMetrics (application/usecases/display_metrics.go) shows,    *)
(* given what the repository answered to its queries.  An answer is a      *)
(* sequence of samples or Failed; the queries of one display are made one  *)
(* after another and the repository may move between them, so the answers  *)
(* need not fit together: the code never assumes they do.                  *)
(*                                                                         *)
(* A system sample is its values [cpu, disks]; a process sample is a       *)
(* record [pid, cpu, user].  Percentages are small integers, and the means *)
(* the code takes over disks are rounded down.                             *)
(***************************************************************************)
EXTENDS SliceSort, FiniteSets

CONSTANTS
  Failed,      \* a query that returned an error
  Nothing,     \* a part of the view that is left out
  AnyUser,     \* a filter that asks for no user
  MaxRowsShown, MaxPercent   \* bounds on the inputs of the checks below

-----------------------------------------------------------------------------
(***************************************************************************)
(* DisplayOptionsDTO and its Validate: a mode outside the three is an      *)
(* error, everything else that is missing gets a default.                  *)
(***************************************************************************)
Modes == {"realtime", "historical", "summary"}

ValidOptions(o) == o.mode \in Modes

Validated(o) ==
  [o EXCEPT !.sortOrder = IF @ \in {"asc", "desc"} THEN @ ELSE "desc",
            !.maxRows   = IF @ <= 0 THEN 20 ELSE @,
            !.pageSize  = IF @ <= 0 THEN 20 ELSE @]

-----------------------------------------------------------------------------
(***************************************************************************)
(* The list of processes.                                                  *)
(***************************************************************************)
\* A minimum of zero asks for nothing.
shouldIncludeProcessForDisplay(p, o) ==
  /\ o.minCPU > 0 => p.cpu >= o.minCPU
  /\ o.user # AnyUser => p.user = o.user

\* The repository cuts the list to the rows shown; the filter comes after it.
getTopProcesses(ranked, o) ==
  SelectSeq(SubSeq(ranked, 1, IF o.maxRows < Len(ranked) THEN o.maxRows ELSE Len(ranked)),
            LAMBDA p : shouldIncludeProcessForDisplay(p, o))

\* Descending is the negation of less: of two equal processes each goes before
\* the other, which is no order.
Before(a, b, sortBy, sortOrder) ==
  LET less == IF sortBy = "pid" THEN a.pid < b.pid ELSE a.cpu < b.cpu
  IN  IF sortOrder = "asc" THEN less ELSE ~less

convertAndSortProcesses(rows, sortBy, sortOrder) ==
  SortSlice(rows, LAMBDA a, b : Before(a, b, sortBy, sortOrder))

\* A wrong page: the first row of each page is the last of the page before.
PageOverlapping(rows, page, size) ==
  LET number == IF page <= 0 THEN 1 ELSE page
      start  == (number - 1) * size
      end    == IF start + size + 1 > Len(rows) THEN Len(rows) ELSE start + size + 1
  IN  [rows |-> IF start >= Len(rows) THEN << >> ELSE SubSeq(rows, start + 1, end),
       page |-> number, total |-> Len(rows)]

paginateProcesses(rows, page, size) ==
  LET number == IF page <= 0 THEN 1 ELSE page
      start  == (number - 1) * size
      end    == IF start + size > Len(rows) THEN Len(rows) ELSE start + size
  IN  [rows |-> IF start >= Len(rows) THEN << >> ELSE SubSeq(rows, start + 1, end),
       page |-> number, total |-> Len(rows)]

-----------------------------------------------------------------------------
(***************************************************************************)
(* Summaries and graphs.                                                   *)
(***************************************************************************)
MeanOf(values) ==
  IF values = << >> THEN 0 ELSE FoldLeft(LAMBDA x, y : x + y, 0, values) \div Len(values)

createSystemSummary(sample) == [cpu |-> sample.cpu, disk |-> MeanOf(sample.disks)]

\* One point of the line for every sample the query returned, in its order.
generateGraphs(samples) ==
  IF samples = Failed THEN Nothing ELSE [i \in DOMAIN samples |-> samples[i].cpu]

generateHistoricalGraphs(samples) == [i \in DOMAIN samples |-> samples[i].cpu]

\* The pie is of the first aggregate; the bars are left out when the second
\* query fails, the whole when the first does.
generateSummaryGraphs(aggregated, top) ==
  IF aggregated = Failed THEN Nothing
  ELSE [pie  |-> IF aggregated = << >> THEN Nothing
                 ELSE <<aggregated[1].cpu, MeanOf(aggregated[1].disks)>>,
        bars |-> IF top \in {Failed, << >>} THEN Nothing ELSE [i \in DOMAIN top |-> top[i].cpu]]

-----------------------------------------------------------------------------
(***************************************************************************)
(* The three displays: the view, or Failed.  o.show names the parts asked  *)
(* for; a query is made only for a part that is.                           *)
(***************************************************************************)
Page(rows, o) == paginateProcesses(rows, o.page, o.pageSize)

\* A query that was asked for and failed.
Broken(part, answer, o) == part \in o.show /\ answer = Failed

\* The sample of the summary is the first of the answer.
Summarized(samples, o) ==
  IF "system" \notin o.show \/ samples = << >> THEN Nothing ELSE createSystemSummary(samples[1])

displayRealtime(o, latest, ranked, lastMinute) ==
  IF Broken("system", latest, o) \/ Broken("processes", ranked, o) THEN Failed
  ELSE [summary |-> Summarized(latest, o),
        list    |-> IF "processes" \in o.show THEN Page(getTopProcesses(ranked, o), o) ELSE Nothing,
        graphs  |-> IF "graphs" \in o.show THEN generateGraphs(lastMinute) ELSE Nothing]

\* The graphs of the history are of the samples of the summary.
displayHistorical(o, samples, rows) ==
  IF Broken("system", samples, o) \/ Broken("processes", rows, o) THEN Failed
  ELSE [summary |-> Summarized(samples, o),
        list    |-> IF "processes" \notin o.show THEN Nothing
                    ELSE Page(convertAndSortProcesses(
                           SelectSeq(rows, LAMBDA p : shouldIncludeProcessForDisplay(p, o)),
                           o.sortBy, o.sortOrder), o),
        graphs  |-> IF ~({"system", "graphs"} \subseteq o.show) \/ samples = << >> THEN Nothing
                    ELSE generateHistoricalGraphs(samples)]

\* Only the aggregation may stop a summary; what else fails is left out of it.
displaySummary(o, aggregate, latest, top, count, aggregated, bars) ==
  IF aggregate = Failed THEN Failed
  ELSE [summary |-> [cpu   |-> aggregate,
                     load  |-> IF latest \in {Failed, << >>} THEN 0 ELSE latest[1].cpu,
                     top   |-> IF top = Failed THEN << >> ELSE top,
                     count |-> IF count = Failed THEN 0 ELSE count],
        list    |-> Nothing,
        graphs  |-> IF "graphs" \in o.show THEN generateSummaryGraphs(aggregated, bars) ELSE Nothing]

Display(options, answers) ==
  LET o == Validated(options) IN
  IF ~ValidOptions(options) THEN Failed
  ELSE CASE o.mode = "realtime"   -> displayRealtime(o, answers.samples, answers.rows, answers.samples)
         [] o.mode = "historical" -> displayHistorical(o, answers.samples, answers.rows)
         [] o.mode = "summary"    ->
              displaySummary(o, answers.aggregate, answers.samples, answers.rows,
                             answers.aggregate, answers.samples, answers.rows)

-----------------------------------------------------------------------------
Users == {"root", "guest"}
Rows == [pid : 1..2, cpu : 0..MaxPercent, user : Users]
Lists == UNION {[1..n -> Rows] : n \in 0..MaxRowsShown}
SystemSamples == [cpu : 0..MaxPercent, disks : {<< >>, <<0, MaxPercent>>}]
Answers ==
  [samples : {Failed, << >>} \cup {<<s>> : s \in SystemSamples}, rows : {Failed, << >>, <<[pid |-> 1, cpu |-> 1, user |-> "root"]>>},
   aggregate : {Failed} \cup 0..MaxPercent]
Options ==
  [mode : Modes \cup {"live"}, show : SUBSET {"system", "processes", "graphs"},
   sortOrder : {""}, sortBy : {"cpu"}, maxRows : {0, 1}, page : {0}, pageSize : {0},
   minCPU : 0..MaxPercent, user : Users \cup {AnyUser}]

\* Turning the pages one after another shows every process once, and the page
\* after the last is empty with the right total.
PagesPartition(rows) ==
  \A size \in 1..MaxRowsShown + 1 :
    LET page(n) == paginateProcesses(rows, n, size)
    IN  /\ FlattenSeq([n \in 1..MaxRowsShown + 1 |-> page(n).rows]) = rows
        /\ page(0) = page(1)
        /\ \A n \in 0..MaxRowsShown + 1 :
             page(n).total = Len(rows) /\ Len(page(n).rows) <= size

\* Sorting loses nobody and never shows a smaller value above a larger one (or
\* the reverse, when ascending), although descending is not an order of equals.
SortKeepsEverybody(rows) ==
  \A by \in {"cpu", "pid"}, order \in {"asc", "desc"} :
    LET sorted == convertAndSortProcesses(rows, by, order)
        key(p) == IF by = "pid" THEN p.pid ELSE p.cpu
    IN  /\ SamePopulation(sorted, rows)
        /\ \A i, j \in DOMAIN sorted : i < j =>
             IF order = "asc" THEN key(sorted[i]) <= key(sorted[j]) ELSE key(sorted[i]) >= key(sorted[j])

\* A display fails for an unknown mode and when a query it cannot do without
\* fails, and for no other reason; the rows shown pass the filter.
FailsForAReason(o, answers) ==
  LET view == Display(o, answers)
      needed == IF o.mode = "summary" THEN {answers.aggregate}
                ELSE {answers.samples : part \in o.show \cap {"system"}}
                       \cup {answers.rows : part \in o.show \cap {"processes"}}
  IN  /\ (view = Failed) = (o.mode \notin Modes \/ Failed \in needed)
      /\ view # Failed /\ o.mode # "summary" /\ "processes" \in o.show =>
           \A i \in DOMAIN view.list.rows :
             shouldIncludeProcessForDisplay(view.list.rows[i], o)

\* What is displayed is complete, in the order asked for, and fails only when
\* it must.
EveryDisplayIsRight ==
  /\ \A rows \in Lists : PagesPartition(rows) /\ SortKeepsEverybody(rows)
  /\ \A o \in Options, answers \in Answers : FailsForAReason(o, answers)
=============================================================================
