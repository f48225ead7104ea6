----------------------------- MODULE OrderBookMC -----------------------------
(***************************************************************************)
(* Small instances of OrderBook for TLC.                                   *)
(***************************************************************************)
EXTENDS OrderBook, TLC

CONSTANTS bid, ask

NoIds == [first |-> Nil, last |-> Nil, prev |-> Nil, seq |-> Nil]

Change(ids, q) == ids @@ [qty |-> q]

(* Four deltas: both levels appear, one goes and comes back. *)
Quantities ==
  << bid :> 1 @@ ask :> 2, bid :> 0 @@ ask :> Nil,
     bid :> Nil @@ ask :> 3, bid :> 4 @@ ask :> 0 >>

(* The stream numbers its deltas, with update ids of another scale beside. *)
SequencedDeltas ==
  [n \in 1 .. 4 |-> Change([NoIds EXCEPT !.seq = n, !.first = 10 * n, !.last = 10 * n + 9],
                            Quantities[n])]

(* The exchange's books, computed from the deltas. *)
Books(ds) ==
  LET b[n \in 0 .. Len(ds)] ==
        IF n = 0 THEN EmptyBook ELSE ApplyLevels(b[n - 1], ds[n])
  IN b

SequencedBooks == Books(SequencedDeltas)

Ref(kind, n) == [kind |-> kind, seq |-> n, after |-> n]

(* An early snapshot, one that does not decode, a newer one, and one that   *)
(* is out of price order.                                                   *)
MixedSnapshots ==
  <<Ref("good", 1), Ref("bad", 2), Ref("good", 3), Ref("unordered", 4)>>
==============================================================================
