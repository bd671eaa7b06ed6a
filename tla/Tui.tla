-------------------------------- MODULE Tui --------------------------------
(***************************************************************************)
(* The terminal interface (presentation/tui): the messages the program     *)
(* handles one at a time (keys, the size of the terminal, ticks, answers   *)
(* of fetches that run beside it) and what it draws after each.            *)
(*                                                                         *)
(* A process is an id: whether it matches the filter text and its rank     *)
(* under each sort key are constants.  Rows and lines are counted from 0,  *)
(* as in the source.                                                       *)
(***************************************************************************)
EXTENDS Integers, Sequences, SequencesExt, Subsequences

CONSTANTS
  Processes,    \* ids
  Matching,     \* those whose name or command contains the filter text
  Rank,         \* of each sort key: the rank of every process, a number
  Heights,      \* heights the terminal may take
  FirstVisible, \* rows drawn before the first size is known (20)
  HelpLines,    \* lines of the help text
  MaxFetches,   \* bound: fetches running at once
  MaxIndex      \* bound: how far pages of a negative size are followed

VARIABLES
  life,      \* "running", "quit", and how a drawing failed: "panicked", "hung"
  view,      \* currentView
  err,       \* a.err is set
  fetching,  \* fetches that have not answered
  list,      \* ProcessListModel
  help,      \* HelpModel: scrollOffset, visibleLines
  cramped,   \* ghost: there was a moment without a row for processes
  strayed    \* ghost: a key for the end of an empty list was pressed, and none since that selects

vars == <<life, view, err, fetching, list, help, cramped, strayed>>

Sorts == DOMAIN Rank
Filters == {"all", "text"}  \* the empty text, and one

NewProcessListModel ==
  [processes |-> << >>, filtered |-> << >>, sortBy |-> "cpu", filter |-> "all", input |-> "all",
   filterActive |-> FALSE, selected |-> 0, scroll |-> 0, visibleRows |-> FirstVisible]

\* Init of the program: without an orchestrator it ends at once.
Init ==
  /\ life \in {"running", "quit"}
  /\ view = "processes"
  /\ err = (life = "quit")
  /\ fetching = (IF life = "quit" THEN 0 ELSE 1)
  /\ list = NewProcessListModel
  /\ help = [scroll |-> 0, visibleLines |-> FirstVisible]
  /\ cramped = FALSE /\ strayed = FALSE

-----------------------------------------------------------------------------
\* ProcessListModel

\* The loop of applyFilters over the last answer.
Filtered(l) ==
  Kept(l.processes, {i \in DOMAIN l.processes : l.filter = "all" \/ l.processes[i] \in Matching})

\* A wrong filter that keeps the scroll of a selection it resets.
applyFiltersUnscrolled(l) ==
  LET kept == Filtered(l)
  IN  [l EXCEPT !.filtered = kept, !.selected = IF @ >= Len(kept) THEN 0 ELSE @]

applyFilters(l) ==
  LET kept == Filtered(l)
      lost == l.selected >= Len(kept)
  IN  [l EXCEPT !.filtered = kept, !.selected = IF lost THEN 0 ELSE @, !.scroll = IF lost THEN 0 ELSE @]

\* The sequences of the same elements: an f onto the places takes each once.
Arrangements(s) == {[i \in DOMAIN s |-> s[f[i]]] : f \in Surjection(DOMAIN s, DOMAIN s)}

Falling(s, key) == \A i, j \in DOMAIN s : i < j => Rank[key][s[i]] >= Rank[key][s[j]]

\* sort.Slice, by falling rank.  It is not stable, but sorts equal input alike.
Sorted(s, key) == CHOOSE t \in Arrangements(s) : Falling(t, key)

sortProcesses(l) == [l EXCEPT !.filtered = Sorted(@, l.sortBy)]

SetData(l, answer) == sortProcesses(applyFilters([l EXCEPT !.processes = answer]))

\* The window follows a selection that left it downwards.
Followed(l) ==
  IF l.selected >= l.scroll + l.visibleRows THEN [l EXCEPT !.scroll = l.selected - l.visibleRows + 1] ELSE l

Moved(l, key) ==
  LET n == Len(l.filtered)
  IN  CASE key = "up" ->
             IF l.selected > 0
             THEN [l EXCEPT !.selected = @ - 1, !.scroll = IF l.selected - 1 < @ THEN l.selected - 1 ELSE @]
             ELSE l
        [] key = "down" -> IF l.selected < n - 1 THEN Followed([l EXCEPT !.selected = @ + 1]) ELSE l
        [] key = "pgup" ->
             LET to == IF l.selected < l.visibleRows THEN 0 ELSE l.selected - l.visibleRows
             IN  [l EXCEPT !.selected = to, !.scroll = to]
        [] key = "pgdown" ->
             Followed([l EXCEPT !.selected = IF @ + l.visibleRows >= n THEN n - 1 ELSE @ + l.visibleRows])
        [] key = "home" -> [l EXCEPT !.selected = 0, !.scroll = 0]
        [] key = "end" ->
             [l EXCEPT !.selected = n - 1, !.scroll = IF n - 1 >= l.visibleRows THEN n - l.visibleRows ELSE @]

Moves == {"up", "down", "pgup", "pgdown", "home", "end"}

\* In an empty list "end" and "pgdown" select what is before its first process;
\* there is no way up from it, and in an empty list none down.
Strays(l, stray, key) ==
  IF Len(l.filtered) = 0 THEN key \in {"end", "pgdown"} \/ (stray /\ key \notin {"home", "pgup"})
  ELSE stray /\ key = "up"

\* Update of ProcessListModel, but for the moves.  While the dialog is open the
\* list gets no key.
Dialog(l) ==
  {applyFilters([l EXCEPT !.filter = l.input, !.filterActive = FALSE]),    \* enter
   [l EXCEPT !.filterActive = FALSE, !.input = l.filter]}                  \* esc
  \cup {[l EXCEPT !.input = text] : text \in Filters}                      \* anything else

Browsing(l) ==
  {sortProcesses([l EXCEPT !.sortBy = key]) : key \in Sorts}
  \cup {[l EXCEPT !.filterActive = TRUE, !.input = l.filter]}              \* f

\* A wrong dialog whose escape leaves what was typed in force.
ListKeysCommitting(l) ==
  IF l.filterActive THEN Dialog(l) \cup {[l EXCEPT !.filterActive = FALSE, !.filter = l.input]} ELSE Browsing(l)

ListKeys(l) == IF l.filterActive THEN Dialog(l) ELSE Browsing(l)

\* The rows View draws, by their index in the filtered list.
RowsDrawn(l) ==
  {i \in l.scroll..(l.scroll + l.visibleRows - 1) : i < Len(l.filtered)}

-----------------------------------------------------------------------------
\* HelpModel
Least(a, b) == IF a < b THEN a ELSE b
AtLeast(a, b) == IF a < b THEN b ELSE a

HelpKeys(h) ==
  LET maxScroll == AtLeast(HelpLines - h.visibleLines, 0)
      to == {AtLeast(h.scroll - 1, 0),
             IF h.scroll < maxScroll THEN h.scroll + 1 ELSE h.scroll,
             AtLeast(h.scroll - h.visibleLines, 0),
             Least(h.scroll + h.visibleLines, maxScroll),
             0, maxScroll}
  IN  {[h EXCEPT !.scroll = s] : s \in to}

\* View slices the text at endIdx, and pads it in a loop whose condition the
\* padding does not change.
HelpDrawn(h) ==
  LET endIdx == Least(h.scroll + h.visibleLines, HelpLines)
  IN  CASE endIdx < h.scroll \/ h.scroll < 0 -> "panicked"
        [] endIdx >= h.scroll /\ endIdx - h.scroll < h.visibleLines -> "hung"
        [] OTHER -> "running"

-----------------------------------------------------------------------------
\* View of the program, after every message it handles.
Drawn(v, failing, l, h) ==
  CASE failing -> "running"
    [] ~failing /\ v = "help" -> HelpDrawn(h)
    [] ~failing /\ v = "processes" /\ ~l.filterActive ->
         IF RowsDrawn(l) \subseteq Nat THEN "running" ELSE "panicked"
    [] OTHER -> "running"

Redraw == life' = Drawn(view', err', list', help')

Running == life = "running"

Quit ==
  /\ Running
  /\ life' = "quit"
  /\ UNCHANGED <<view, err, fetching, list, help, cramped, strayed>>

\* The keys the program takes before any view, an open filter dialog included.
HelpKey ==
  /\ Running
  /\ view' = IF view = "help" THEN "processes" ELSE "help"
  /\ UNCHANGED <<err, fetching, list, help, cramped, strayed>>
  /\ Redraw

NextView == [processes |-> "summary", summary |-> "help", help |-> "processes"]

SwitchView ==
  /\ Running
  /\ view' \in {NextView[view], "processes", "summary"}
  /\ UNCHANGED <<err, fetching, list, help, cramped, strayed>>
  /\ Redraw

Refresh ==
  /\ Running /\ fetching < MaxFetches
  /\ fetching' = fetching + 1
  /\ UNCHANGED <<view, err, list, help, cramped, strayed>>
  /\ Redraw

\* A tick fetches and asks for the next tick.
Tick == Refresh

ListKey ==
  /\ Running /\ view = "processes"
  /\ \/ list' \in ListKeys(list) /\ UNCHANGED strayed
     \/ /\ ~list.filterActive
        /\ \E key \in Moves : list' = Moved(list, key) /\ strayed' = Strays(list, strayed, key)
  /\ list'.selected \in -MaxIndex..MaxIndex /\ list'.scroll \in -MaxIndex..MaxIndex
  /\ UNCHANGED <<view, err, fetching, help, cramped>>
  /\ Redraw

HelpViewKey ==
  /\ Running /\ view = "help"
  /\ help' \in HelpKeys(help)
  /\ help'.scroll \in -MaxIndex..MaxIndex
  /\ UNCHANGED <<view, err, fetching, list, cramped, strayed>>
  /\ Redraw

WindowSize(height) ==
  /\ Running
  /\ list' = [list EXCEPT !.visibleRows = height - 8]
  /\ help' = [help EXCEPT !.visibleLines = height - 4]
  /\ cramped' = (cramped \/ height <= 8)
  /\ UNCHANGED <<view, err, fetching, strayed>>
  /\ Redraw

\* Fetches answer in any order, each with what it read: processes in the
\* order of the key that was chosen when it ran, or an error.
DataMsg ==
  /\ Running /\ fetching > 0
  /\ fetching' = fetching - 1
  /\ \E answer \in {Sorted(SetToSeq(ps), key) : ps \in SUBSET Processes, key \in Sorts} :
       list' = SetData(list, answer)
  /\ err' = FALSE
  /\ UNCHANGED <<view, help, cramped, strayed>>
  /\ Redraw

DataError ==
  /\ Running /\ fetching > 0
  /\ fetching' = fetching - 1
  /\ err' = TRUE
  /\ UNCHANGED <<view, list, help, cramped, strayed>>
  /\ Redraw

Next ==
  \/ Quit \/ HelpKey \/ SwitchView \/ Tick
  \/ ListKey \/ HelpViewKey
  \/ \E height \in Heights : WindowSize(height)
  \/ DataMsg \/ DataError

Spec == Init /\ [][Next]_vars

-----------------------------------------------------------------------------
\* Whatever is filtered, refreshed, sorted and resized under it, the process
\* list never draws a row that is not there.  Unless the terminal was ever too
\* low for a row, the window does not begin below the selection, and the
\* selection is in the list, or zero where that is empty; except that a key for
\* the end of an empty list puts it before the first process, where it stays,
\* whatever answers and filters fill the list, until a key selects again.
SelectionStays ==
  /\ life = "panicked" => view = "help"
  /\ RowsDrawn(list) \subseteq 0..(Len(list.filtered) - 1)
  /\ ~cramped =>
       /\ IF strayed THEN list.selected = -1
          ELSE list.selected \in 0..(Len(list.filtered) - 1) \/ (list.filtered = << >> /\ list.selected = 0)
       /\ list.scroll \in 0..AtLeast(list.selected, 0)

\* The list shows each process of the last answer that matches the filter in
\* force, once, in an order of the sort key in force (several are, of processes
\* that rank equal), or, after a filter was entered, as they came.
IsCurrent(l) ==
  /\ l.filtered \in Arrangements(Filtered(l))
  /\ l.filtered = Filtered(l) \/ Falling(l.filtered, l.sortBy)

ListIsCurrent == IsCurrent(list)
=============================================================================
