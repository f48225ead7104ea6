---------------------------- MODULE DeltaSequence ----------------------------
(***************************************************************************)
(* Sequence information of an order-book delta and the monotonicity gate   *)
(* that fact ingestion applies to it (internal/runtime/sequence.go).       *)
(*                                                                         *)
(* Optional ids are naturals or Nil: decoding rejects negative ids, so -1  *)
(* is free to stand for a nil pointer, and for an empty raw_event_id.      *)
(***************************************************************************)
EXTENDS Integers

Nil == -1

OptId == Nat \cup {Nil}

(* The fields of model.OrderBookDelta that sequence decisions look at. *)
DeltaId == [raw : OptId, first : OptId, last : OptId, seq : OptId]

(* The zero value of model.OrderBookDelta: no sequence information at all. *)
ZeroDelta == [raw |-> Nil, first |-> Nil, last |-> Nil, seq |-> Nil]

deltaTerminal(d) == IF d.last # Nil THEN d.last ELSE d.seq

sameDeltaIdentity(a, b) ==
  \/ a.raw # Nil /\ a.raw = b.raw
  \/ /\ <<a.first, a.last, a.seq>> = <<b.first, b.last, b.seq>>
     /\ a.first # Nil \/ a.last # Nil \/ a.seq # Nil

(* TRUE when the current delta is new data after the previous one.  The    *)
(* absent previous delta of the code behaves as ZeroDelta does.  The error *)
(* result of the Go function is always nil, so it has no counterpart.      *)
checkDeltaContinuity(previous, current) ==
  /\ ~sameDeltaIdentity(previous, current)
  /\ \/ deltaTerminal(previous) = Nil
     \/ deltaTerminal(current) = Nil
     \/ deltaTerminal(current) > deltaTerminal(previous)

==============================================================================
