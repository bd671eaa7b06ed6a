----------------------------- MODULE MCLiveness -----------------------------
(***************************************************************************)
(* Small instances, for TLC, of two parts that are asked what must happen  *)
(* in the end, and share no state: a stream beside exports and             *)
(* collections, and the continuous collection as long as nobody stops or   *)
(* updates it.  The initial state says which of them moves.  With them,    *)
(* the displays, the graphs and the layout of texts, which change nothing. *)
(***************************************************************************)
EXTENDS ExportMetrics, DisplayMetrics, GraphRenderer, TextLayout

CONSTANTS Callers, Ops, MaxStarts, Free

VARIABLES part, omu, running, cancelOf, cmu, continuous, gen, stopClosed, doneClosed,
          cancelled, started, loop, caller, panicked

collection == <<omu, running, cancelOf, cmu, continuous, gen, stopClosed, doneClosed,
                cancelled, started, loop, caller, panicked>>
MCvars == <<part, vars, collection>>

C == INSTANCE ContinuousCollection

\* An export part in which nothing was saved and nothing will be.
NothingExported == Init /\ stream.pc = "absent"

MCInit ==
  /\ part \in {"exports", "collection"}
  /\ C!Init
  /\ IF part = "exports" THEN Init ELSE NothingExported

MCNext ==
  \/ part = "exports" /\ Next /\ UNCHANGED <<part, collection>>
  \/ part = "collection" /\ C!Next /\ UNCHANGED <<part, vars>>

\* The part that does not move enables none of the actions of its fairness.
MCSpec == MCInit /\ [][MCNext]_MCvars /\ Fairness /\ C!Fairness

-----------------------------------------------------------------------------
\* ContinuousCollection: every call returns, as long as nobody stops or updates.
EveryCallReturns == C!EveryCallReturns

\* ContinuousCollection: a cancelled context ends its goroutine.
CancelEndsLoop == C!CancelEndsLoop

\* What is displayed is complete, in the order asked for, and fails only when
\* it must; every graph tells the values it was given, and texts, tables and
\* bars fit their places.  Asked before a stream begins, since no state enters
\* into it.
DisplaysAreRight ==
  part = "exports" /\ now = 0 /\ stream.pc = "idle" =>
    EveryDisplayIsRight /\ EveryGraphTells /\ LayoutsFit
=============================================================================
