----------------------- MODULE MCContinuousCollection -----------------------
(***************************************************************************)
(* Small instances of ContinuousCollection for TLC.                        *)
(***************************************************************************)
EXTENDS ContinuousCollection, TLC

CallerSymmetry == Permutations(Callers)
=============================================================================
