---------------------------- MODULE MCDiskRates ----------------------------
(***************************************************************************)
(* A small instance of DiskRates for TLC: one collector.                   *)
(***************************************************************************)
EXTENDS DiskRates
=============================================================================
