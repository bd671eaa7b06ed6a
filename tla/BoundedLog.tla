----------------------------- MODULE BoundedLog -----------------------------
(***************************************************************************)
(* What a ring buffer promises its clients, without slots and indices: a   *)
(* sequence of the entries written and not yet removed, oldest first, that *)
(* never outgrows its bound and gives up its oldest entries first.         *)
(***************************************************************************)
EXTENDS TimeSeries

CONSTANTS Entry,    \* the entries that can be written, records with a time
          Bound     \* the bounds a log can be given, all positive

VARIABLES log, bound

logVars == <<log, bound>>

LogInit ==
  /\ log = << >>
  /\ bound \in Bound

Write(entry) ==
  /\ log' = Pushed(log, bound, entry)
  /\ UNCHANGED bound

TakeOldest ==
  /\ log # << >>
  /\ log' = Tail(log)
  /\ UNCHANGED bound

\* Entries leave from the old end only, however many.
ForgetOldest ==
  /\ \E n \in 0..Len(log) : log' = Newest(log, n)
  /\ UNCHANGED bound

Rebound(n) ==
  /\ bound' = n
  /\ log' = Newest(log, n)

LogNext ==
  \/ \E entry \in Entry : Write(entry)
  \/ TakeOldest
  \/ ForgetOldest
  \/ \E n \in Bound : Rebound(n)

LogSpec == LogInit /\ [][LogNext]_logVars
=============================================================================
