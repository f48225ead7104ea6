----------------------------- MODULE PartitionsMC -----------------------------
(***************************************************************************)
(* Small instances of Partitions for TLC.                                  *)
(***************************************************************************)
EXTENDS Partitions

CONSTANTS m1, m2
=============================================================================
