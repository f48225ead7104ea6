---------------------------- MODULE FactIngestMC ----------------------------
(***************************************************************************)
(* Small instances of FactIngest for TLC.                                  *)
(***************************************************************************)
EXTENDS FactIngest, TLC

CONSTANTS w1, w2, p1, p2

Delta(seq) == [ok |-> TRUE, id |-> [raw |-> Nil, first |-> Nil, last |-> Nil, seq |-> seq]]
Trade(raw) == [ok |-> TRUE, id |-> [ZeroDelta EXCEPT !.raw = raw]]
Bad == [ok |-> FALSE, id |-> ZeroDelta]

(* A delta, one that does not decode, a newer one and its repetition. *)
DeltaLog == p1 :> <<Delta(1), Bad, Delta(2), Delta(2)>>

(* Two partitions, each with a record that does not decode. *)
TwoPartitionLog == p1 :> <<Delta(1), Bad, Delta(2)>> @@ p2 :> <<Bad, Delta(1)>>

(* Trades with and without raw ids, one id twice and across partitions. *)
TradeLog == p1 :> <<Trade(7), Trade(Nil), Trade(7)>> @@ p2 :> <<Trade(7), Bad, Trade(8)>>

(* The same stream without records that do not decode. *)
CleanLog == p1 :> <<Delta(1), Delta(2), Delta(3)>>

(* A book that took a reference snapshot while the delta input was paused. *)
BookAhead == {[last |-> Nil, seq |-> 2]}

WorkerSymmetry == Permutations(Workers)
=============================================================================
