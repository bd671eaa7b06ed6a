-------------------------- MODULE MCMultiLevelCache --------------------------
(***************************************************************************)
(* A small instance of MultiLevelCache for TLC.                            *)
(***************************************************************************)
EXTENDS MultiLevelCache, TLC

MCTTL == [k \in Keys |-> L1TTL]
Symmetry == Permutations(Keys) \cup Permutations(Readers)
=============================================================================
