---------------------------- MODULE InputManagerMC ----------------------------
(***************************************************************************)
(* Small instances of InputManager for TLC.                                *)
(***************************************************************************)
EXTENDS InputManager

CONSTANTS r1, r2, d, s

(* A delta input from the start, a snapshot input that is added. *)
DeltaAndSnapshot == [i \in {d, s} |-> IF i = d THEN "delta" ELSE "snapshot"]
=============================================================================
