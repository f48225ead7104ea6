----------------------------- MODULE SchedulerMC -----------------------------
(***************************************************************************)
(* Small instances of Scheduler for TLC.                                   *)
(***************************************************************************)
EXTENDS Scheduler, TLC

CONSTANTS n1, n2

(* The first group is heavy, the second has the weight 0 that counts as 1. *)
Weights == [g \in Groups |-> IF g = 1 THEN 2 ELSE 0]

(* The first node is limited in groups, the second in weight. *)
GroupLimits == n1 :> 1 @@ n2 :> 2
WeightLimits == n1 :> 0 @@ n2 :> 2

(* No limits. *)
Unlimited == [n \in Nodes |-> 0]
==============================================================================
