------------------------------ MODULE TextLayout ------------------------------
(***************************************************************************)
(* How the terminal view and the command line lay out what they show       *)
(* (presentation/tui/utils.go, presentation/cli/utils.go), as functions.   *)
(* A text is a sequence of characters of one byte each; a word to be       *)
(* wrapped is its length, a process the values it is filtered and sorted   *)
(* by.  Colours and number formats are left out; a part of a bar is taken  *)
(* as exact where floating point may round it to a cell less.              *)
(***************************************************************************)
EXTENDS SliceSort

Blanks(n) == [i \in 1..n |-> " "]
Dots == <<".", ".", ".">>
Total(numbers) == FoldLeft(LAMBDA x, y : x + y, 0, numbers)

-----------------------------------------------------------------------------
(***************************************************************************)
(* Processes, as the helpers of the terminal view filter and sort them.    *)
(***************************************************************************)
Traffic(p) == p.disk + p.net

\* A threshold of zero asks for nothing, and so does an empty text; a text is
\* looked for in the name, the command and the user.
FilterProcesses(processes, o) ==
  SelectSeq(processes, LAMBDA p :
    /\ o.filter # "" => o.filter \in {p.name, p.command, p.user}
    /\ o.cpu > 0 => p.cpu >= o.cpu
    /\ o.io > 0  => Traffic(p) >= o.io)

\* Descending is the negation of less here too; an unknown key is "cpu".
SortProcesses(processes, sortBy, ascending) ==
  LET key(p) == CASE sortBy = "io"  -> Traffic(p)
                  [] sortBy = "pid" -> p.pid
                  [] OTHER          -> p.cpu
  IN  SortSlice(processes, LAMBDA a, b : (key(a) < key(b)) = ascending)

-----------------------------------------------------------------------------
(***************************************************************************)
(* Texts and tables.                                                       *)
(***************************************************************************)
\* A text that is as long as the place it gets is cut like a longer one.
padString(text, width) ==
  IF Len(text) < width THEN text \o Blanks(width - Len(text))
  ELSE IF width > 3 THEN SubSeq(text, 1, width - 3) \o Dots
  ELSE SubSeq(text, 1, width)

TruncateString(text, maxLen) ==
  IF Len(text) <= maxLen THEN text
  ELSE IF maxLen <= 3 THEN SubSeq(text, 1, maxLen)
  ELSE SubSeq(text, 1, maxLen - 3) \o Dots

PadString(text, length) ==
  IF Len(text) >= length THEN text ELSE text \o Blanks(length - Len(text))

TrimSpace(text) ==
  LET solid == {i \in DOMAIN text : text[i] # " "}
  IN  IF solid = {} THEN << >> ELSE SubSeq(text, Min(solid), Max(solid))

\* Cells beyond the widths are dropped; blanks are trimmed at both ends of a
\* line, so a blank first cell moves the others to the left.
TableLine(cells, widths) ==
  TrimSpace(FlattenSeq([i \in 1..Min({Len(cells), Len(widths)}) |->
                          Append(padString(cells[i], widths[i]), " ")]))

\* Widths that do not fit the headers are replaced by 15 for each.
CreateTable(headers, rows, widths) ==
  LET used == IF Len(widths) = Len(headers) THEN widths ELSE [i \in DOMAIN headers |-> 15]
      head == TableLine(headers, used)
  IN  IF headers = << >> \/ rows = << >> THEN << >>
      ELSE <<head, [i \in DOMAIN head |-> "-"]>> \o [r \in DOMAIN rows |-> TableLine(rows[r], used)]

\* Words are put on a line as long as they fit behind a blank; a word longer
\* than the width gets a line of its own.
LineWidth(line) == Total(line) + Len(line) - 1

WrapText(words, width) ==
  LET put(lines, word) ==
        IF lines # << >> /\ LineWidth(Last(lines)) + 1 + word <= width
        THEN Append(Front(lines), Append(Last(lines), word))
        ELSE Append(lines, <<word>>)
  IN  IF width <= 0 THEN << >> ELSE FoldLeft(put, << >>, words)

-----------------------------------------------------------------------------
(***************************************************************************)
(* Sizes.                                                                  *)
(***************************************************************************)
\* Low terminals give one line instead of two to header and footer, wide ones
\* have a sidebar behind a border.
CalculateLayout(width, height) ==
  LET frame == IF height < 20 THEN 1 ELSE 2
      side  == IF width > 120 THEN 30 ELSE 0
  IN  [header |-> frame, footer |-> frame, content |-> height - 2 * frame,
       sidebar |-> side, columns |-> IF side > 0 THEN width - side - 1 ELSE width]

\* The filled part and the empty one; percent may be anything.
RenderProgressBar(percent, width) ==
  LET filled == (width * (IF percent < 0 THEN 0 ELSE IF percent > 100 THEN 100 ELSE percent)) \div 100
  IN  IF width <= 0 THEN <<0, 0>> ELSE <<filled, width - filled>>

\* Half of the terminal, but neither too short nor too long; 40 without one.
NewProgressBar(total, columns) ==
  [total |-> total, current |-> 0, drawn |-> -1, filled |-> -1,
   width |-> IF columns = 0 THEN 40
             ELSE IF columns \div 2 > 60 THEN 60 ELSE IF columns \div 2 < 20 THEN 20 ELSE columns \div 2]

\* In tenths of a second: a bar that was drawn within the last one is left as it
\* is, the last drawing of Finish included.  current and total are positive.
Draw(bar, current, now) ==
  LET filled == (bar.width * current) \div bar.total
  IN  IF bar.drawn >= 0 /\ now - bar.drawn < 1 THEN [bar EXCEPT !.current = current]
      ELSE [bar EXCEPT !.current = current, !.drawn = now,
                       !.filled = IF filled > bar.width THEN bar.width ELSE filled]

\* The power of the unit (1024) that a number of bytes is shown in.
FormatBytes(bytes, unit) ==
  LET steps[n \in 0..bytes] == IF n < unit THEN 0 ELSE 1 + steps[n \div unit]
  IN  IF bytes < unit THEN 0 ELSE 1 + steps[bytes \div unit]

-----------------------------------------------------------------------------
(***************************************************************************)
(* What is checked.                                                        *)
(***************************************************************************)
\* Wrapping keeps the words in their order, exceeds the width only by a word
\* that does, and takes no more lines than any other way to do so.
WrapsTightly(words, width) ==
  LET lines == WrapText(words, width)
      fits(line) == Len(line) = 1 \/ LineWidth(line) <= width
      \* the line that ends at each of the ends, from behind the end before
      cut(ends) == {SubSeq(words, 1 + Max({0} \cup {e \in ends : e < end}), end) : end \in ends}
  IN  /\ FlattenSeq(lines) = words
      /\ \A line \in ToSet(lines) : fits(line)
      /\ \A ends \in SUBSET DOMAIN words :
           Len(words) \in ends /\ (\A line \in cut(ends) : fits(line)) =>
             Len(lines) <= Cardinality(ends)

\* Every line of a table whose first cell shows something has its cells below
\* those of the header, each as wide as its column.
TablesAlign(headers, row, widths) ==
  LET table == CreateTable(headers, <<row>>, widths)
      from(i) == Total(SubSeq(widths, 1, i - 1)) + i - 1
      shows(line, cells) ==
        \A i \in 1..Min({Len(cells), Len(widths)}) : \A k \in 1..widths[i] :
          LET at == from(i) + k
          IN  padString(cells[i], widths[i])[k] = IF at <= Len(line) THEN line[at] ELSE " "
  IN  /\ shows(table[1], headers)
      /\ TrimSpace(row[1]) = row[1] /\ row[1] # << >> => shows(table[3], row)
      /\ Len(table[1]) = Len(table[2])

\* Filtering keeps the order and drops exactly what the filter rules out;
\* sorting loses nobody and puts no larger value on the wrong side of a smaller.
ListsAreSorted(processes) ==
  \A by \in {"cpu", "io", "pid"}, ascending \in BOOLEAN :
    LET sorted == SortProcesses(processes, by, ascending)
        key(p) == CASE by = "io" -> Traffic(p) [] by = "pid" -> p.pid [] OTHER -> p.cpu
    IN  /\ SamePopulation(sorted, processes)
        /\ \A i, j \in DOMAIN sorted : i < j =>
             IF ascending THEN key(sorted[i]) <= key(sorted[j]) ELSE key(sorted[i]) >= key(sorted[j])
        /\ \A io \in 0..2, filter \in {"", "a"} :
             LET o == [filter |-> filter, cpu |-> 0, io |-> io]
             IN  SamePopulation(FilterProcesses(sorted, o),
                                SortProcesses(FilterProcesses(processes, o), by, ascending))

\* A bar is never longer than its place, grows with what it shows, and a drawn
\* one is full only when everything is done.
BarsFit(width, total) ==
  /\ \A percent \in -10..110 :
       LET bar == RenderProgressBar(percent, width)
       IN  /\ bar[1] >= 0 /\ bar[2] >= 0 /\ bar[1] + bar[2] = (IF width < 0 THEN 0 ELSE width)
           /\ percent < 110 => bar[1] <= RenderProgressBar(percent + 1, width)[1]
  /\ \A columns \in {0, 30, 90, 200}, current \in 0..total + 1 :
       LET bar == Draw(NewProgressBar(total, columns), current, 0)
       IN  bar.filled \in 0..bar.width /\ (bar.filled = bar.width) = (current >= total)

\* What is laid out fits its place.
LayoutsFit ==
  /\ \A n \in 1..4, width \in 1..6 : \A words \in [1..n -> {1, 2, 4, 7}] : WrapsTightly(words, width)
  /\ \A n, m, k \in 0..6, w, v \in 0..5 :
       LET text(length) == [i \in 1..length |-> "x"]
       IN  TablesAlign(<<text(k + 1), text(m)>>, <<text(n), text(m), text(1)>>, <<w + 1, v>>)
  /\ \A length, width \in 0..8 :
       LET text == [i \in 1..length |-> "x"]
       IN  /\ Len(padString(text, width)) = width
           /\ Len(PadString(TruncateString(text, width), width)) = width
  /\ \A n \in 0..3 :
       \A rows \in [1..n -> [pid : 1..2, cpu : {0}, disk : 0..1, net : {1},
                             name : {"a"}, command : {"b"}, user : {"b"}]
                              \cup [pid : {1}, cpu : {1}, disk : {1}, net : {0},
                                    name : {"b"}, command : {"b"}, user : {"b"}]] :
         ListsAreSorted(rows)
  /\ \A width \in {119, 120, 121}, height \in 2..25 :
       LET l == CalculateLayout(width, height)
       IN  /\ l.header + l.content + l.footer = height /\ l.content >= 0
           /\ l.columns + l.sidebar + (IF l.sidebar > 0 THEN 1 ELSE 0) = width
  /\ \A width \in {-1, 0, 1, 7, 20}, total \in 1..5 : BarsFit(width, total)
  \* seven powers hold every int64, and the number shown is below the unit
  /\ \A bytes \in 0..127 :
       LET e == FormatBytes(bytes, 2)
       IN  e <= 6 /\ bytes < 2^(e + 1) /\ (bytes >= 2 => bytes >= 2^e)
=============================================================================
