------------------------------- MODULE KlinesMC -------------------------------
(***************************************************************************)
(* A small instance of Klines for TLC.                                     *)
(***************************************************************************)
EXTENDS Klines

CONSTANTS p1, p2, c1, c2

Update(k, rev, closed) == [ok |-> TRUE, candle |-> k, revision |-> rev, closed |-> closed]

(* Everything about one candle, one record of another, and records that a   *)
(* dead letter takes the place of.                                          *)
SomeMessages ==
  {Update(c1, rev, closed) : rev \in {Nil, 1}, closed \in BOOLEAN}
  \cup {Update(c1, 2, TRUE), Update(c2, Nil, FALSE), Update(c1, -1, TRUE),
        [Update(c1, 1, TRUE) EXCEPT !.ok = FALSE]}
=============================================================================
