---------------------------- MODULE PaginationMC ----------------------------
(***************************************************************************)
(* Small instances of Pagination for TLC.                                  *)
(***************************************************************************)
EXTENDS Pagination

(* Five rows an endpoint: three of one instant, and one on either side, the *)
(* last at the end of the longest window.                                   *)
FewKeys ==
  [e \in Endpoints |->
     IF e = "klines"
     THEN {<<0, 1, 1>>, <<1, 1, 1>>, <<1, 1, 2>>, <<1, 2, 1>>, <<2, 1, 1>>}
     ELSE {<<0, 3>>, <<1, 1>>, <<1, 2>>, <<1, 4>>, <<2, 0>>}]
=============================================================================
