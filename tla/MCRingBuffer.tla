---------------------------- MODULE MCRingBuffer ----------------------------
(***************************************************************************)
(* Small instances of RingBuffer for TLC.                                  *)
(***************************************************************************)
EXTENDS RingBuffer, TLC

MCTimes == 1..3
MCRequested == {0, 2, 3}

\* Readers do the same things and no property tells one from another.
ReaderSymmetry == Permutations(Readers)
=============================================================================
