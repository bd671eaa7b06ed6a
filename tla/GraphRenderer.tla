---------------------------- MODULE GraphRenderer ----------------------------
(***************************************************************************)
(* The graphs of presentation/formatters/graphs.go, as functions from the  *)
(* values to what is where on the screen.                                  *)
(*                                                                         *)
(* Values are integers and everything computed from them is exact, but for *)
(* one thing: a product of a quotient, when it is a whole number that      *)
(* floating point need not hit, may fall below it and is then truncated to *)
(* the number before.  slip (0 or 1) says whether that happens.  The       *)
(* vertical axis is in tenths, because scaling pads it by a tenth.  Colons *)
(* and rules of the frame, numbers and times are left out.                 *)
(***************************************************************************)
EXTENDS SliceSort

-----------------------------------------------------------------------------
(***************************************************************************)
(* Arithmetic: int(float64(n)/float64(d)*float64(f)), for d > 0.           *)
(***************************************************************************)
Truncated(n, d) == IF n >= 0 THEN n \div d ELSE -((-n) \div d)

Product(n, d, f, slip) ==
  Truncated(n * f, d) - (IF n * f > 0 /\ (n * f) % d = 0 /\ n % d # 0 THEN slip ELSE 0)

findMinMax(values) == <<Min(ToSet(values)), Max(ToSet(values))>>

\* Row 0 is the highest.
scaleValue(value, min, max, height, slip) ==
  IF max = min THEN Truncated(height, 2)
  ELSE height - 1 - Product(value - min, max - min, height - 1, slip)

\* Which of the values are kept when there are more than columns.
sampleData(values, target, slip) ==
  IF Len(values) <= target THEN values
  ELSE LET index(i) == Product(Len(values) - 1, target - 1, i, slip)
       IN  [i \in 1..target |->
              values[1 + (IF index(i - 1) >= Len(values) THEN Len(values) - 1 ELSE index(i - 1))]]

-----------------------------------------------------------------------------
(***************************************************************************)
(* The line graph, on a canvas of columns and rows.                        *)
(***************************************************************************)
Blank(columns, rows) == [c \in (0..columns - 1) \X (0..rows - 1) |-> " "]

\* What lies outside the canvas is not drawn; both ends are marked.
drawLine(canvas, x1, y1, x2, y2) ==
  LET rise   == y2 - y1
      run    == x2 - x1
      stroke == CASE run = 0  -> {x1} \X (Min({y1, y2})..Max({y1, y2}))
                  [] rise = 0 -> (x1..x2) \X {y1}
                  [] OTHER    -> {<<x, y1 + Truncated(rise * (x - x1), run)>> : x \in x1..x2}
      rune   == CASE run = 0  -> "|"
                  [] rise = 0 -> "-"
                  [] OTHER    -> IF rise > 0 THEN "\\" ELSE "/"
  IN  [c \in DOMAIN canvas |->
         IF c \in {<<x1, y1>>, <<x2, y2>>} THEN "o"
         ELSE IF c \in stroke THEN rune ELSE canvas[c]]

\* A tenth of the range is added at both ends.
Padded(values) ==
  LET lo == findMinMax(values)[1]
      hi == findMinMax(values)[2]
  IN  <<10 * lo - (hi - lo), 10 * hi + (hi - lo)>>

\* The label of each row, in tenths and multiplied by the rows less one.
AxisLabels(lo, hi, rows) == [i \in 0..rows - 1 |-> hi * (rows - 1) - i * (hi - lo)]

\* A single sample has no line and leaves no mark.
Plotted(samples, lo, hi, columns, rows, slip) ==
  LET y(i) == scaleValue(10 * samples[i], lo, hi, rows, slip)
      join(canvas, i) == drawLine(canvas, i - 1, y(i), i, y(i + 1))
  IN  FoldLeft(join, Blank(columns, rows), [i \in 1..Len(samples) - 1 |-> i])

\* Too small a size is raised to 20 by 5; the frame takes ten columns and three
\* rows.  values is not empty.
RenderLineGraph(values, o, slip) ==
  LET columns == (IF o.width < 20 THEN 20 ELSE o.width) - 10
      rows    == (IF o.height < 5 THEN 5 ELSE o.height) - 3
      lo      == IF o.autoScale THEN Padded(values)[1] ELSE 10 * o.minY
      hi      == IF o.autoScale THEN Padded(values)[2] ELSE 10 * o.maxY
  IN  [columns |-> columns, rows |-> rows, lo |-> lo, hi |-> hi,
       labels |-> AxisLabels(lo, hi, rows),
       canvas |-> Plotted(sampleData(values, columns, slip), lo, hi, columns, rows, slip)]

-----------------------------------------------------------------------------
(***************************************************************************)
(* Several lines on one canvas.  A map of series is drawn in an order of   *)
(* the runtime's, and its legend is written in another one.  Only steps of *)
(* at most a row are drawn, at the height of their first value, and only   *)
(* where nothing is yet.  A cell tells the place, in the order, of the     *)
(* series it belongs to (the styles repeat after six); 0 is blank.         *)
(***************************************************************************)
DrawSeries(canvas, place, samples, lo, hi, rows, slip) ==
  LET y(i) == scaleValue(10 * samples[i], lo, hi, rows, slip)
      flat == {i \in 1..Len(samples) - 1 : y(i) - y(i + 1) \in -1..1}
      mine == {<<i - 1, y(i)>> : i \in flat} \cup {<<i, y(i)>> : i \in flat}
  IN  [c \in DOMAIN canvas |-> IF canvas[c] = 0 /\ c \in mine THEN place ELSE canvas[c]]

\* series is the order drawn in, a sequence of non-empty sequences of values.
RenderMultiLineGraph(series, o, slip) ==
  LET all     == FlattenSeq(series)
      columns == o.width - 10
      rows    == o.height - 3
      lo      == IF o.autoScale THEN Padded(all)[1] ELSE 10 * findMinMax(all)[1]
      hi      == IF o.autoScale THEN Padded(all)[2] ELSE 10 * findMinMax(all)[2]
      draw(canvas, place) ==
        DrawSeries(canvas, place, sampleData(series[place], columns, slip), lo, hi, rows, slip)
  IN  [rows |-> rows, lo |-> lo, hi |-> hi,
       canvas |-> FoldLeft(draw, [c \in (0..columns - 1) \X (0..rows - 1) |-> 0],
                           [place \in DOMAIN series |-> place])]

-----------------------------------------------------------------------------
(***************************************************************************)
(* Bars, sparklines and heat maps.                                         *)
(***************************************************************************)
truncateString(text, maxLen) ==
  IF Len(text) <= maxLen THEN text
  ELSE IF maxLen > 3 THEN SubSeq(text, 1, maxLen - 3) \o <<".", ".", ".">>
  ELSE SubSeq(text, 1, maxLen)

BarWidth(width, count) ==
  LET w == Truncated(width - 20, count) IN IF w < 1 THEN 1 ELSE IF w > 8 THEN 8 ELSE w

\* Row i is filled for a value of at least i of height parts of the largest;
\* without a positive value the scale is 1.  A label fills its bar's place.
RenderBarChart(labels, values, o) ==
  LET top   == IF Max(ToSet(values)) > 0 THEN Max(ToSet(values)) ELSE 1
      bar   == BarWidth(o.width, Len(values))
      shown(j) == truncateString(labels[j], bar)
  IN  [bar    |-> bar,
       filled |-> [i \in 1..o.height |-> {j \in DOMAIN values : values[j] * o.height >= i * top}],
       axis   |-> Len(values) * (bar + 1),
       labels |-> [j \in DOMAIN labels |->
                     Len(shown(j)) + (IF Len(shown(j)) < bar THEN bar - Len(shown(j)) ELSE 0) + 1]]

\* One of count marks, the first for the smallest value and the last for the
\* largest.
Mark(value, lo, hi, count, slip) ==
  LET i == Product(value - lo, hi - lo, count - 1, slip)
  IN  IF i < 0 THEN 0 ELSE IF i >= count THEN count - 1 ELSE i

RenderSparkline(values, slip) ==
  LET lo == findMinMax(values)[1]
      hi == findMinMax(values)[2]
  IN  [i \in DOMAIN values |-> Mark(values[i], lo, IF hi = lo THEN lo + 1 ELSE hi, 8, slip)]

\* It looks at the first value of the first row before anything else: no data
\* row may be empty there.  Equal values divide by zero, which every platform
\* turns into the coldest mark.
RenderHeatmap(data, slip) ==
  LET lo == findMinMax(FlattenSeq(data))[1]
      hi == findMinMax(FlattenSeq(data))[2]
  IN  [i \in DOMAIN data |-> [j \in DOMAIN data[i] |->
         IF hi = lo THEN 0 ELSE Mark(data[i][j], lo, hi, 10, slip)]]

-----------------------------------------------------------------------------
(***************************************************************************)
(* The inputs of the checks, and what is checked of them.                  *)
(***************************************************************************)
Slips == {0, 1}
Levels == -1..2
Values == UNION {[1..n -> Levels] : n \in 1..3}
LineOptions ==
  [width : {0}, height : {0, 8}, autoScale : {TRUE}, minY : {0}, maxY : {0}]
    \cup [width : {0}, height : {7}, autoScale : {FALSE}, minY : {0}, maxY : {0, 1}]

\* A graph of two samples or more marks exactly the samples that lie on its
\* canvas, higher values never lower, and the label of a row is at most the value
\* of a sample marked in it, that of the next higher row more, unless the value
\* lies below an axis that was given.
LinesTell(values, o, slip) ==
  LET g == RenderLineGraph(values, o, slip)
      marks == {c \in DOMAIN g.canvas : g.canvas[c] = "o"}
      row(i) == scaleValue(10 * values[i], g.lo, g.hi, g.rows, slip)
  IN  /\ Len(values) > 1 =>
           marks = {<<i - 1, row(i)>> : i \in DOMAIN values} \cap DOMAIN g.canvas
      /\ o.autoScale => \A i \in DOMAIN values : row(i) \in 0..g.rows - 1
      /\ \A i \in DOMAIN values : row(i) \in 0..g.rows - 1 /\ 10 * values[i] >= g.lo =>
           LET value == 10 * values[i] * (g.rows - 1)
           IN  /\ g.labels[row(i)] <= value
               /\ row(i) > 0 /\ g.lo < g.hi => value < g.labels[row(i) - 1] + slip
      /\ g.lo < g.hi => \A i, j \in DOMAIN values : values[i] <= values[j] => row(i) >= row(j)

\* A sampled line begins with the first value, keeps their order and skips
\* evenly; the last value may only be lost to the one before it.
SamplesKeepTheEnds(count, target, slip) ==
  LET kept == sampleData([i \in 1..count |-> i], target, slip)
  IN  /\ Len(kept) = Min({count, target}) /\ kept[1] = 1
      /\ kept[Len(kept)] \in {count - slip, count}
      /\ \A i \in 1..Len(kept) - 1 :
           kept[i + 1] - kept[i] \in 1..2 + Truncated(count - 1, target - 1)

\* A series drawn among others is never shown more than a row away from one of
\* its values next to the column.
SeriesStayNear(series, o, slip) ==
  LET g == RenderMultiLineGraph(series, o, slip)
      row(s, i) == scaleValue(10 * s[i], g.lo, g.hi, g.rows, slip)
  IN  \A c \in DOMAIN g.canvas : g.canvas[c] # 0 =>
        LET s == series[g.canvas[c]]
        IN  \E i \in {c[1], c[1] + 1} \cap DOMAIN s : row(s, i) - c[2] \in -1..1

\* A bar stands on the axis, is as high as its value is large, and the largest
\* is full; a label is as wide as its bar, so that the columns are below each
\* other.
BarsStand(labels, values, o) ==
  LET chart == RenderBarChart(labels, values, o)
      height(j) == Cardinality({i \in 1..o.height : j \in chart.filled[i]})
  IN  /\ \A i \in 1..o.height - 1 : chart.filled[i + 1] \subseteq chart.filled[i]
      /\ \A j, k \in DOMAIN values : values[j] <= values[k] => height(j) <= height(k)
      /\ \A j \in DOMAIN values :
           /\ values[j] = Max(ToSet(values)) /\ values[j] > 0 => height(j) = o.height
           /\ values[j] <= 0 => height(j) = 0
      /\ \A j \in DOMAIN labels : chart.labels[j] = chart.bar + 1
      /\ Len(labels) = Len(values) => chart.axis = FoldLeft(LAMBDA x, y : x + y, 0, chart.labels)

\* Larger values never get a smaller mark, the smallest the first and, unless
\* they are all equal, the largest the last.
MarksAreMonotone(values, slip) ==
  LET spark == RenderSparkline(values, slip)
      heat  == RenderHeatmap(<<values, values>>, slip)
      lo    == findMinMax(values)[1]
      hi    == findMinMax(values)[2]
  IN  \A i, j \in DOMAIN values :
        /\ values[i] <= values[j] => spark[i] <= spark[j] /\ heat[1][i] <= heat[2][j]
        /\ values[i] = lo => spark[i] = 0 /\ heat[1][i] = 0
        /\ values[i] = hi /\ lo < hi => spark[i] = 7 /\ heat[2][i] = 9

\* Every graph tells the values it was given.
EveryGraphTells ==
  /\ \A values \in Values, slip \in Slips :
       /\ \A o \in LineOptions : LinesTell(values, o, slip)
       /\ MarksAreMonotone(values, slip)
       /\ \A length \in {0, 1, 5, 9}, width \in {0, 30, 60}, height \in {0, 3} :
            BarsStand([i \in DOMAIN values |-> [j \in 1..length |-> "x"]], values,
                      [width |-> width, height |-> height])
  /\ \A count \in 1..12, target \in 2..5, slip \in Slips : SamplesKeepTheEnds(count, target, slip)
  /\ \A a, b \in [1..3 -> 0..2], slip \in Slips, scaled \in BOOLEAN :
       SeriesStayNear(<<a, b>>, [width |-> 14, height |-> 7, autoScale |-> scaled], slip)
=============================================================================
