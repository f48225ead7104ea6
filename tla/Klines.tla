-------------------------------- MODULE Klines --------------------------------
(***************************************************************************)
(* Candles: how the records of a kline input become rows of the klines     *)
(* table, one row per open time that later records revise.                 *)
(*                                                                         *)
(* A batch is one transaction of single-row upserts.  Batches of one       *)
(* partition exclude each other by the lock on its progress row; batches   *)
(* of different partitions interleave and wait for each other's candles.   *)
(* Which batches arrive is what FactIngest shows: they may repeat durable  *)
(* records, start anywhere below the first one that is not durable, and    *)
(* end anywhere.                                                           *)
(***************************************************************************)
EXTENDS Integers, Sequences, FiniteSets

CONSTANTS
  Partitions,  \* partitions of the input's topic
  Candles,     \* open times, with the group, source and interval of the input
  Nil,         \* a field the producer left out
  Messages,    \* the records the producer may send
  BatchSize,   \* BatchConfig.Size
  MaxRecords   \* bound on the records sent

(* What a record says, and whether it passes the checks that look at        *)
(* nothing the upsert uses: its JSON, interval, source, times and prices.   *)
Message ==
  [ok : BOOLEAN, candle : Candles, revision : Int \cup {Nil}, closed : BOOLEAN]

ASSUME MessagesAssumption == Messages \subseteq Message
ASSUME PartitionsAssumption == IsFiniteSet(Partitions)
ASSUME NilAssumption == Nil \notin Int
ASSUME BoundAssumption == BatchSize \in Nat \ {0} /\ MaxRecords \in Nat

VARIABLES
  log,      \* the records of each partition, from offset 0
  durable,  \* stream_write_progress.durable_offset, -1 when there is no row
  candles,  \* the klines table
  tx        \* the open transaction of each partition

vars == <<log, durable, candles, tx>>

Offsets(p) == 0 .. Len(log[p]) - 1
Coords == UNION {{p} \X Offsets(p) : p \in Partitions}
Msg(p, o) == log[p][o + 1]

(* A row, identified by the record that wrote it. *)
Row == [at : Partitions \X Nat, rev : Nat, closed : BOOLEAN]
NoRow == [rev |-> -1]

(* A transaction: the offset it is at, its last one, and the candles it has *)
(* locked, as they will be.                                                 *)
Tx == [next : Nat, last : Nat, rows : [Candles -> Row \cup {NoRow}]]
NoTx == [next |-> -1]

(* Types, and transactions that stay inside the log. *)
TypeOK ==
  /\ log \in [Partitions -> Seq(Messages)]
  /\ durable \in [Partitions -> Nat \cup {-1}]
  /\ candles \in [Candles -> Row \cup {NoRow}]
  /\ tx \in [Partitions -> Tx \cup {NoTx}]
  /\ \A p \in Partitions : tx[p] # NoTx =>
       tx[p].last \in Offsets(p) /\ tx[p].next <= tx[p].last + 1

Init ==
  /\ log = [p \in Partitions |-> <<>>]
  /\ durable = [p \in Partitions |-> -1]
  /\ candles = [k \in Candles |-> NoRow]
  /\ tx = [p \in Partitions |-> NoTx]

-----------------------------------------------------------------------------
(* flexInt64 decodes a missing revision to 0. *)
Revision(m) == IF m.revision = Nil THEN 0 ELSE m.revision

(* Mutant: a negative revision is taken for a revision. *)
ValidatesAnyRevision(m) == m.ok

(* validate: the record becomes a candle and not a dead letter. *)
Validates(m) == m.ok /\ Revision(m) >= 0

Decodes(p, o) == Validates(Msg(p, o))

(* toKline *)
buildKline(p, o) ==
  [at |-> <<p, o>>, rev |-> Revision(Msg(p, o)), closed |-> Msg(p, o).closed]

Produce(p, m) ==
  /\ Cardinality(Coords) < MaxRecords
  /\ log' = [log EXCEPT ![p] = Append(@, m)]
  /\ UNCHANGED <<durable, candles, tx>>

(* klinesAfterOffset: the first row of the batch that is not durable. *)
klinesAfterOffset(p, from) == IF from > durable[p] THEN from ELSE durable[p] + 1

(* Mutant: a batch that is durable already is not taken for a replay. *)
WriteBeginReplay(p, from, last) ==
  /\ tx[p] = NoTx
  /\ from <= last
  /\ last - from < BatchSize
  /\ \A o \in Offsets(p) : durable[p] < o /\ o <= last => (Decodes(p, o) <=> from <= o)
  /\ tx' = [tx EXCEPT ![p] = [next |-> klinesAfterOffset(p, from), last |-> last,
                              rows |-> [k \in Candles |-> NoRow]]]
  /\ UNCHANGED <<log, durable, candles>>

(* A batch that ends after the durable offset locks the progress row.  Its  *)
(* records after that offset decode, and no such record before it is        *)
(* missing.                                                                 *)
WriteBegin(p, from, last) ==
  /\ tx[p] = NoTx
  /\ from <= last
  /\ last - from < BatchSize
  /\ last > durable[p]
  /\ \A o \in Offsets(p) : durable[p] < o /\ o <= last => (Decodes(p, o) <=> from <= o)
  /\ tx' = [tx EXCEPT ![p] = [next |-> klinesAfterOffset(p, from), last |-> last,
                              rows |-> [k \in Candles |-> NoRow]]]
  /\ UNCHANGED <<log, durable, candles>>

(* ON CONFLICT DO UPDATE locks the row also when it does not update it. *)
Locked(p, k) == \E q \in Partitions \ {p} : tx[q] # NoTx /\ tx[q].rows[k] # NoRow

(* Mutant: an open candle takes any revision. *)
AcceptsAnyRevision(old, new) == old.closed => new.rev > old.rev /\ new.closed

(* The WHERE of the upsert. *)
Accepts(old, new) ==
  \/ ~old.closed /\ new.rev >= old.rev
  \/ old.closed /\ new.rev > old.rev /\ new.closed

Upsert(old, new) == IF old = NoRow \/ Accepts(old, new) THEN new ELSE old

(* One statement of writeKlinesTx. *)
UpsertRow(p) ==
  /\ tx[p] # NoTx
  /\ tx[p].next <= tx[p].last
  /\ LET k == Msg(p, tx[p].next).candle
         old == IF tx[p].rows[k] = NoRow THEN candles[k] ELSE tx[p].rows[k]
     IN /\ ~Locked(p, k)
        /\ tx' = [tx EXCEPT ![p].next = @ + 1,
                            ![p].rows[k] = Upsert(old, buildKline(p, tx[p].next))]
  /\ UNCHANGED <<log, durable, candles>>

(* Candles and progress together. *)
CommitTx(p) ==
  /\ tx[p] # NoTx
  /\ tx[p].next > tx[p].last
  /\ candles' = [k \in Candles |->
                   IF tx[p].rows[k] = NoRow THEN candles[k] ELSE tx[p].rows[k]]
  /\ durable' = [durable EXCEPT ![p] = tx[p].last]
  /\ tx' = [tx EXCEPT ![p] = NoTx]
  /\ UNCHANGED log

(* An error, a crash, or the victim of two batches that wait for each other. *)
Rollback(p) ==
  /\ tx[p] # NoTx
  /\ tx' = [tx EXCEPT ![p] = NoTx]
  /\ UNCHANGED <<log, durable, candles>>

Next ==
  \E p \in Partitions :
    \/ \E m \in Messages : Produce(p, m)
    \/ \E from, last \in Offsets(p) : WriteBegin(p, from, last)
    \/ UpsertRow(p) \/ CommitTx(p) \/ Rollback(p)

Spec == Init /\ [][Next]_vars

-----------------------------------------------------------------------------
(* The durable records of a candle. *)
Records(k) ==
  {c \in Coords :
     c[2] <= durable[c[1]] /\ Decodes(c[1], c[2]) /\ Msg(c[1], c[2]).candle = k}

(* A row that a record has nothing to add to. *)
Covers(row, new) ==
  /\ row # NoRow
  /\ IF new.closed
     THEN new.rev < row.rev \/ (row.closed /\ new.rev = row.rev)
     ELSE new.rev <= row.rev \/ row.closed

(* The newest word on a candle is kept, in whatever order the batches of    *)
(* its partitions commit: no durable record has a higher revision than the  *)
(* row, but for an open one after the candle is closed, and a candle stays  *)
(* open after a durable closing record only if an open record had a higher  *)
(* revision (the guard of writeKlinesTx).                                   *)
NewestKept ==
  \A k \in Candles : \A c \in Records(k) : Covers(candles[k], buildKline(c[1], c[2]))

(* Rows in log order, each once: the open row is the last of the highest    *)
(* revision; the first closing record of a revision no lower than all       *)
(* before it closes the candle, and of the closing records from there on    *)
(* the first of the highest revision stays.                                 *)
CandleOfLog(k) ==
  LET R == {buildKline(c[1], c[2]) : c \in Records(k)}
      off(r) == r.at[2]
      Closers == {r \in R : r.closed /\ \A s \in R : off(s) < off(r) => s.rev <= r.rev}
      Closing == {r \in R : r.closed /\ \E s \in Closers : off(s) <= off(r)}
  IN IF R = {} THEN NoRow
     ELSE IF Closers = {}
     THEN CHOOSE r \in R : \A s \in R :
            s.rev < r.rev \/ (s.rev = r.rev /\ off(s) <= off(r))
     ELSE CHOOSE r \in Closing : \A s \in Closing :
            s.rev < r.rev \/ (s.rev = r.rev /\ off(r) <= off(s))

(* However the log is cut into batches, repeated, rolled back and begun     *)
(* again, a candle whose records are of one partition is what one pass over *)
(* them gives: no record acts twice, none is left out and none overtakes.   *)
OnePassOverLog ==
  \A k \in Candles :
    Cardinality({c[1] : c \in Records(k)}) <= 1 => candles[k] = CandleOfLog(k)

=============================================================================
