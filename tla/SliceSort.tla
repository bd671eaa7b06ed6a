------------------------------ MODULE SliceSort ------------------------------
(***************************************************************************)
(* sort.Slice of the Go library on up to twelve elements: an insertion     *)
(* sort, which moves an element towards the front as long as it is less    *)
(* than its neighbour.  What it returns is sorted only when less is a      *)
(* strict weak order; several of the orders this program passes are not.   *)
(***************************************************************************)
EXTENDS Integers, SequencesExt

SortSlice(seq, less(_, _)) ==
  LET insert(sorted, x) ==
        LET stops == {j \in DOMAIN sorted : ~less(x, sorted[j])}
        IN  InsertAt(sorted, IF stops = {} THEN 1 ELSE Max(stops) + 1, x)
      sorted[i \in 0..Len(seq)] ==
        IF i = 0 THEN << >> ELSE insert(sorted[i - 1], seq[i])
  IN  sorted[Len(seq)]

\* Both hold the same values equally often.
SamePopulation(a, b) ==
  /\ Len(a) = Len(b)
  /\ \A x \in ToSet(a) \cup ToSet(b) :
       Len(SelectSeq(a, LAMBDA y : y = x)) = Len(SelectSeq(b, LAMBDA y : y = x))
=============================================================================
