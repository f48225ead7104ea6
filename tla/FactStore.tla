------------------------------ MODULE FactStore ------------------------------
(***************************************************************************)
(* What the ingestion of one input promises to those who read its facts    *)
(* and to Kafka, without workers, batches, retries or failures: the log of *)
(* every partition is copied to the fact table front to back, each record  *)
(* at most once, and only what is copied is acknowledged or shown to the   *)
(* order book.                                                             *)
(***************************************************************************)
EXTENDS Integers

CONSTANTS
  Partitions,          \* partitions of the input's topic
  Offsets(_),          \* offsets of a partition's log
  Decodes(_),          \* the records that are facts
  Supersedes(_, _)     \* a stored record that makes another one superfluous

VARIABLES
  durable,    \* offset up to which a partition is copied
  facts,      \* rows of each record
  committed,  \* offset from which Kafka delivers again
  delivered   \* records the order book was shown

vars == <<durable, facts, committed, delivered>>

Coords == UNION {{p} \X Offsets(p) : p \in Partitions}

(* The records of a partition after one offset, up to another. *)
Span(p, from, to) == {c \in Coords : c[1] = p /\ from < c[2] /\ c[2] <= to}

Init ==
  /\ durable = [p \in Partitions |-> -1]
  /\ facts = [c \in Coords |-> 0]
  /\ committed = [p \in Partitions |-> 0]
  /\ delivered = {}

(* The copy goes on to offset n and leaves no fact out. *)
Copy(p, n, rows) ==
  /\ durable[p] < n
  /\ rows \subseteq Span(p, durable[p], n)
  /\ \A c \in Span(p, durable[p], n) \ rows :
       Decodes(c) => \E d \in Coords : (facts[d] > 0 \/ d \in rows) /\ Supersedes(d, c)
  /\ facts' = [c \in Coords |-> IF c \in rows THEN 1 ELSE facts[c]]
  /\ durable' = [durable EXCEPT ![p] = n]
  /\ UNCHANGED <<committed, delivered>>

(* Kafka need not deliver what is before offset n again. *)
Acknowledge(p, n) ==
  /\ \A c \in Span(p, -1, n - 1) : Decodes(c) => c[2] <= durable[p]
  /\ committed' = [committed EXCEPT ![p] = n]
  /\ UNCHANGED <<durable, facts, delivered>>

(* The order book is shown durable records. *)
Deliver(shown) ==
  /\ \A c \in shown : c[2] <= durable[c[1]]
  /\ delivered' = delivered \cup shown
  /\ UNCHANGED <<durable, facts, committed>>

Next ==
  \/ \E p \in Partitions : \E n \in Offsets(p) :
       \/ \E rows \in SUBSET Coords : Copy(p, n, rows)
       \/ Acknowledge(p, n + 1)
  \/ \E shown \in SUBSET Coords : Deliver(shown)

Spec == Init /\ [][Next]_vars

=============================================================================
