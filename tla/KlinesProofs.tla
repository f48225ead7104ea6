----------------------------- MODULE KlinesProofs -----------------------------
(***************************************************************************)
(* Proofs about Klines, for any partitions, candles, records and bounds.   *)
(***************************************************************************)
EXTENDS Klines, TLAPS, FiniteSetTheorems

(* The record at o is one of candle k. *)
Holds(p, o, k) == o \in Offsets(p) /\ Decodes(p, o) /\ Msg(p, o).candle = k

(* A candle locked by a transaction. *)
Locks(p, k) == tx[p] # NoTx /\ tx[p].rows[k] # NoRow

(* Every durable record is covered by the table, ... *)
TableInv ==
  \A k \in Candles, p \in Partitions, o \in Nat :
    Holds(p, o, k) /\ o <= durable[p] => Covers(candles[k], buildKline(p, o))

(* ... a transaction's rows cover the same ones, ... *)
TxCoversTable ==
  \A k \in Candles, q \in Partitions : Locks(q, k) =>
    \A p \in Partitions, o \in Nat :
      Holds(p, o, k) /\ o <= durable[p] => Covers(tx[q].rows[k], buildKline(p, o))

(* ... and the records it has been through, ... *)
TxCoversBatch ==
  \A k \in Candles, p \in Partitions, o \in Nat :
    tx[p] # NoTx /\ Holds(p, o, k) /\ durable[p] < o /\ o < tx[p].next =>
      Covers(tx[p].rows[k], buildKline(p, o))

(* ... and no candle is in two transactions. *)
LocksExclude ==
  \A k \in Candles, p, q \in Partitions : Locks(p, k) /\ Locks(q, k) => p = q

(* Offsets stay inside the log. *)
InLog ==
  \A p \in Partitions :
    /\ durable[p] < Len(log[p])
    /\ tx[p] # NoTx => durable[p] < tx[p].next

(* The records of a transaction decode, as far as they are not durable. *)
BatchDecodes ==
  \A p \in Partitions : tx[p] # NoTx =>
    \A o \in tx[p].next .. tx[p].last : Decodes(p, o)

IInv ==
  /\ TypeOK /\ BatchDecodes /\ InLog
  /\ TableInv /\ TxCoversTable /\ TxCoversBatch /\ LocksExclude

-----------------------------------------------------------------------------
(* What validate and toKline give: a row. *)
LEMMA BuiltRow ==
  ASSUME TypeOK, NEW p \in Partitions, NEW o \in Offsets(p), Decodes(p, o)
  PROVE  /\ Msg(p, o) \in Messages
         /\ Msg(p, o).candle \in Candles
         /\ buildKline(p, o) \in Row
<1>1. Msg(p, o) \in Messages
  BY DEF TypeOK, Offsets, Msg
<1>2. Msg(p, o) \in Message
  BY <1>1, MessagesAssumption
<1>3. Revision(Msg(p, o)) \in Nat
  BY <1>2, NilAssumption DEF Decodes, Validates, Revision, Message
<1>4. o \in Nat
  BY DEF TypeOK, Offsets
<1> QED
  BY <1>1, <1>2, <1>3, <1>4 DEF buildKline, Row, Message

(* A marker is no row. *)
LEMMA MarkersDiffer == NoRow \notin Row /\ NoTx \notin Tx
<1>1. NoRow.rev = -1 /\ NoTx.next = -1
  BY DEF NoRow, NoTx
<1> QED
  BY <1>1 DEF Row, Tx

(* The upsert covers the new record and all that the old row covered. *)
LEMMA UpsertCovers ==
  ASSUME NEW old \in Row \cup {NoRow}, NEW new \in Row
  PROVE  /\ Upsert(old, new) \in Row
         /\ Covers(Upsert(old, new), new)
         /\ \A x \in Row : Covers(old, x) => Covers(Upsert(old, new), x)
  BY MarkersDiffer DEF Upsert, Accepts, Covers, Row

(* Facts that do not depend on the log's growth. *)
LEMMA AppendKeeps ==
  ASSUME TypeOK, NEW p \in Partitions, NEW m \in Messages,
         log' = [log EXCEPT ![p] = Append(@, m)]
  PROVE  \A q \in Partitions :
           /\ log'[q] \in Seq(Messages)
           /\ Len(log[q]) <= Len(log'[q])
           /\ \A o \in Offsets(q) : o \in Offsets(q)' /\ Msg(q, o)' = Msg(q, o)
<1> TAKE q \in Partitions
<1>1. log[q] \in Seq(Messages)
  BY DEF TypeOK
<1>2. CASE q = p
  <2>1. log'[q] = Append(log[q], m)
    BY <1>2 DEF TypeOK
  <2>2. /\ log'[q] \in Seq(Messages)
        /\ Len(log'[q]) = Len(log[q]) + 1
        /\ \A i \in 1 .. Len(log[q]) : log'[q][i] = log[q][i]
    BY <1>1, <2>1
  <2> QED
    BY <1>1, <2>2 DEF Offsets, Msg
<1>3. CASE q # p
  <2>1. log'[q] = log[q]
    BY <1>3 DEF TypeOK
  <2> QED
    BY <1>1, <2>1 DEF Offsets, Msg
<1> QED
  BY <1>2, <1>3

(* What begins, takes and ends a transaction, spelled out. *)
LEMMA BeginTyped ==
  ASSUME TypeOK, NEW p \in Partitions, NEW from \in Offsets(p), NEW last \in Offsets(p),
         WriteBegin(p, from, last)
  PROVE  /\ tx'[p] \in Tx
         /\ tx'[p].last = last
         /\ tx'[p].next = klinesAfterOffset(p, from)
         /\ tx'[p].rows = [k \in Candles |-> NoRow]
         /\ klinesAfterOffset(p, from) \in Nat
         /\ klinesAfterOffset(p, from) <= last + 1
         /\ durable[p] < klinesAfterOffset(p, from)
         /\ \A q \in Partitions : q # p => tx'[q] = tx[q]
<1>1. from \in Nat /\ last \in Nat /\ durable[p] \in Nat \cup {-1}
  BY DEF Offsets, TypeOK
<1>2. /\ klinesAfterOffset(p, from) \in Nat
      /\ klinesAfterOffset(p, from) <= last + 1
      /\ durable[p] < klinesAfterOffset(p, from)
  BY <1>1 DEF klinesAfterOffset, WriteBegin
<1>3. /\ tx'[p] = [next |-> klinesAfterOffset(p, from), last |-> last,
                   rows |-> [k \in Candles |-> NoRow]]
      /\ \A q \in Partitions : q # p => tx'[q] = tx[q]
  BY DEF WriteBegin, TypeOK
<1> QED
  BY <1>1, <1>2, <1>3 DEF Tx

(* The row an upsert starts from, and the candle it is about. *)
Candle(p) == Msg(p, tx[p].next).candle
Old(p) == IF tx[p].rows[Candle(p)] = NoRow THEN candles[Candle(p)] ELSE tx[p].rows[Candle(p)]
New(p) == buildKline(p, tx[p].next)

LEMMA UpsertTyped ==
  ASSUME TypeOK, BatchDecodes, NEW p \in Partitions, UpsertRow(p)
  PROVE  /\ tx[p] \in Tx
         /\ tx[p].next \in Offsets(p)
         /\ Decodes(p, tx[p].next)
         /\ Candle(p) \in Candles
         /\ Old(p) \in Row \cup {NoRow}
         /\ New(p) \in Row
         /\ Upsert(Old(p), New(p)) \in Row
         /\ tx'[p] = [next |-> tx[p].next + 1, last |-> tx[p].last,
                      rows |-> [tx[p].rows EXCEPT ![Candle(p)] = Upsert(Old(p), New(p))]]
         /\ tx'[p] \in Tx
         /\ \A q \in Partitions : q # p => tx'[q] = tx[q]
<1>1. tx[p] \in Tx
  BY DEF TypeOK, UpsertRow
<1>2. tx[p].next \in Offsets(p)
  BY <1>1 DEF TypeOK, UpsertRow, Offsets, Tx
<1>3. Decodes(p, tx[p].next)
  BY <1>1, <1>2 DEF BatchDecodes, UpsertRow, Tx
<1>4. Candle(p) \in Candles /\ New(p) \in Row
  BY <1>2, <1>3, BuiltRow DEF Candle, New
<1>5. Old(p) \in Row \cup {NoRow}
  BY <1>1, <1>4 DEF Old, TypeOK, Tx
<1>6. Upsert(Old(p), New(p)) \in Row
  BY <1>4, <1>5, UpsertCovers
<1>7. /\ tx'[p] = [next |-> tx[p].next + 1, last |-> tx[p].last,
                   rows |-> [tx[p].rows EXCEPT ![Candle(p)] = Upsert(Old(p), New(p))]]
      /\ \A q \in Partitions : q # p => tx'[q] = tx[q]
  <2>1. tx' = [tx EXCEPT ![p].next = @ + 1,
                         ![p].rows[Candle(p)] = Upsert(Old(p), New(p))]
    BY DEF UpsertRow, Candle, Old, New
  <2> HIDE DEF Candle, Old, New
  <2> QED
    BY <1>1, <2>1 DEF TypeOK, Tx
<1>8. tx'[p] \in Tx
  BY <1>1, <1>4, <1>6, <1>7 DEF Tx
<1> QED
  BY <1>1, <1>2, <1>3, <1>4, <1>5, <1>6, <1>7, <1>8

-----------------------------------------------------------------------------
LEMMA InitInv == Init => IInv
<1> SUFFICES ASSUME Init PROVE IInv
  OBVIOUS
<1>1. TypeOK
  BY DEF Init, TypeOK, Offsets
<1>2. \A p \in Partitions : log[p] = <<>> /\ durable[p] = -1 /\ tx[p] = NoTx
  BY DEF Init
<1>3. BatchDecodes /\ InLog /\ LocksExclude /\ TxCoversTable /\ TxCoversBatch
  BY <1>2 DEF BatchDecodes, InLog, LocksExclude, TxCoversTable, TxCoversBatch, Locks
<1>4. TableInv
  BY <1>2 DEF TableInv, Holds, Offsets
<1> QED
  BY <1>1, <1>3, <1>4 DEF IInv

LEMMA ProduceInv ==
  ASSUME IInv, NEW p \in Partitions, NEW m \in Messages, Produce(p, m)
  PROVE  IInv'
<1>1. TypeOK /\ InLog /\ BatchDecodes
  BY DEF IInv
<1>2. /\ log' = [log EXCEPT ![p] = Append(@, m)]
      /\ durable' = durable /\ candles' = candles /\ tx' = tx
  BY DEF Produce
<1>3. \A q \in Partitions :
        /\ log'[q] \in Seq(Messages)
        /\ Len(log[q]) <= Len(log'[q])
        /\ \A o \in Offsets(q) : o \in Offsets(q)' /\ Msg(q, o)' = Msg(q, o)
  BY <1>1, <1>2, AppendKeeps
<1>4. \A q \in Partitions, o \in Nat :
        o <= durable[q] \/ (tx[q] # NoTx /\ o <= tx[q].last) => o \in Offsets(q)
  <2> TAKE q \in Partitions, o \in Nat
  <2>1. Len(log[q]) \in Nat /\ durable[q] \in Nat \cup {-1} /\ durable[q] < Len(log[q])
    BY <1>1 DEF TypeOK, InLog
  <2>2. tx[q] # NoTx => tx[q].last \in 0 .. Len(log[q]) - 1
    BY <1>1 DEF TypeOK, Offsets
  <2> QED
    BY <2>1, <2>2 DEF Offsets
<1>5. \A q \in Partitions : \A o \in Offsets(q) :
        /\ Decodes(q, o)' <=> Decodes(q, o)
        /\ buildKline(q, o)' = buildKline(q, o)
  BY <1>3 DEF Decodes, buildKline
<1>6. TypeOK'
  <2>1. log' \in [Partitions -> Seq(Messages)]
    BY <1>1, <1>2 DEF TypeOK
  <2> QED
    BY <1>1, <1>2, <1>3, <2>1 DEF TypeOK
<1>7. InLog'
  BY <1>1, <1>2, <1>3 DEF InLog, TypeOK
<1>8. BatchDecodes'
  <2> SUFFICES ASSUME NEW q \in Partitions, tx[q] # NoTx,
                      NEW o \in tx[q].next .. tx[q].last
               PROVE  Decodes(q, o)'
    BY <1>2 DEF BatchDecodes
  <2>1. tx[q] \in Tx
    BY <1>1 DEF TypeOK
  <2>2. o \in Nat /\ o <= tx[q].last
    BY <2>1 DEF Tx
  <2> QED
    BY <1>1, <1>4, <1>5, <2>2 DEF BatchDecodes
<1>9. \A k \in Candles, q \in Partitions : \A o \in Offsets(q) :
        Holds(q, o, k)' => Holds(q, o, k)
  BY <1>3, <1>5 DEF Holds
<1>10. TableInv'
  <2> SUFFICES ASSUME NEW k \in Candles, NEW q \in Partitions, NEW o \in Nat,
                      Holds(q, o, k)', o <= durable[q]
               PROVE  Covers(candles[k], buildKline(q, o)')
    BY <1>2 DEF TableInv, Covers
  <2>1. o \in Offsets(q)
    BY <1>4
  <2> QED
    BY <1>5, <1>9, <2>1 DEF IInv, TableInv
<1>11. TxCoversTable'
  <2> SUFFICES ASSUME NEW k \in Candles, NEW r \in Partitions, Locks(r, k),
                      NEW q \in Partitions, NEW o \in Nat,
                      Holds(q, o, k)', o <= durable[q]
               PROVE  Covers(tx[r].rows[k], buildKline(q, o)')
    BY <1>2 DEF TxCoversTable, Covers, Locks
  <2>1. o \in Offsets(q)
    BY <1>4
  <2> QED
    BY <1>5, <1>9, <2>1 DEF IInv, TxCoversTable
<1>12. TxCoversBatch'
  <2> SUFFICES ASSUME NEW k \in Candles, NEW q \in Partitions, NEW o \in Nat,
                      tx[q] # NoTx, Holds(q, o, k)', durable[q] < o, o < tx[q].next
               PROVE  Covers(tx[q].rows[k], buildKline(q, o)')
    BY <1>2 DEF TxCoversBatch, Covers
  <2>1. tx[q] \in Tx /\ tx[q].next <= tx[q].last + 1
    BY <1>1 DEF TypeOK
  <2>2. o \in Offsets(q)
    BY <1>4, <2>1 DEF Tx
  <2> QED
    BY <1>5, <1>9, <2>2 DEF IInv, TxCoversBatch
<1>13. LocksExclude'
  BY <1>2 DEF IInv, LocksExclude, Locks
<1> QED
  BY <1>6, <1>7, <1>8, <1>10, <1>11, <1>12, <1>13 DEF IInv

(* The other actions leave the log alone. *)
LEMMA SameLog ==
  ASSUME log' = log
  PROVE  /\ \A q \in Partitions : Offsets(q)' = Offsets(q)
         /\ \A q \in Partitions, o \in Nat :
              /\ Decodes(q, o)' <=> Decodes(q, o)
              /\ Msg(q, o)' = Msg(q, o)
              /\ buildKline(q, o)' = buildKline(q, o)
         /\ \A k \in Candles, q \in Partitions, o \in Nat : Holds(q, o, k)' <=> Holds(q, o, k)
  BY DEF Offsets, Decodes, Msg, buildKline, Holds

(* The row of a record that holds. *)
LEMMA HeldRow ==
  ASSUME TypeOK, NEW k \in Candles, NEW q \in Partitions, NEW o \in Nat, Holds(q, o, k)
  PROVE  buildKline(q, o) \in Row
  BY BuiltRow DEF Holds

LEMMA BeginInv ==
  ASSUME IInv, NEW p \in Partitions, NEW from \in Offsets(p), NEW last \in Offsets(p),
         WriteBegin(p, from, last)
  PROVE  IInv'
<1>1. TypeOK
  BY DEF IInv
<1>2. /\ log' = log /\ durable' = durable /\ candles' = candles
      /\ tx[p] = NoTx
  BY DEF WriteBegin
<1>3. /\ tx'[p] \in Tx
      /\ tx'[p].last = last
      /\ tx'[p].next = klinesAfterOffset(p, from)
      /\ tx'[p].rows = [k \in Candles |-> NoRow]
      /\ klinesAfterOffset(p, from) \in Nat
      /\ klinesAfterOffset(p, from) <= last + 1
      /\ durable[p] < klinesAfterOffset(p, from)
      /\ \A q \in Partitions : q # p => tx'[q] = tx[q]
  BY <1>1, BeginTyped
<1>4. \A q \in Partitions, k \in Candles : Locks(q, k)' => q # p /\ Locks(q, k)
  BY <1>3 DEF Locks
<1>5. TypeOK'
  <2>1. tx' \in [Partitions -> Tx \cup {NoTx}]
    BY <1>1, <1>3 DEF WriteBegin, TypeOK
  <2>2. \A q \in Partitions : tx'[q] # NoTx =>
          tx'[q].last \in Offsets(q) /\ tx'[q].next <= tx'[q].last + 1
    BY <1>1, <1>3 DEF TypeOK
  <2> QED
    BY <1>1, <1>2, <2>1, <2>2, SameLog DEF TypeOK
<1>6. InLog'
  BY <1>2, <1>3 DEF IInv, InLog
<1>7. BatchDecodes'
  <2> SUFFICES ASSUME NEW q \in Partitions, tx'[q] # NoTx,
                      NEW o \in tx'[q].next .. tx'[q].last
               PROVE  Decodes(q, o)
    BY <1>2 DEF BatchDecodes, Decodes, Msg
  <2>1. CASE q # p
    BY <1>3, <2>1 DEF IInv, BatchDecodes
  <2>2. CASE q = p
    <3>1. o \in Offsets(p) /\ durable[p] < o /\ o <= last /\ from <= o
      BY <1>1, <1>3, <2>2 DEF TypeOK, Offsets, klinesAfterOffset
    <3> QED
      BY <2>2, <3>1 DEF WriteBegin
  <2> QED
    BY <2>1, <2>2
<1>8. TableInv'
  BY <1>2, SameLog DEF IInv, TableInv, Covers
<1>9. TxCoversTable'
  <2> SUFFICES ASSUME NEW k \in Candles, NEW r \in Partitions, Locks(r, k)',
                      NEW q \in Partitions, NEW o \in Nat,
                      Holds(q, o, k), o <= durable[q]
               PROVE  Covers(tx'[r].rows[k], buildKline(q, o))
    BY <1>2, SameLog DEF TxCoversTable, Covers
  <2> QED
    BY <1>3, <1>4 DEF IInv, TxCoversTable
<1>10. TxCoversBatch'
  <2> SUFFICES ASSUME NEW k \in Candles, NEW q \in Partitions, NEW o \in Nat,
                      tx'[q] # NoTx, Holds(q, o, k), durable[q] < o, o < tx'[q].next
               PROVE  Covers(tx'[q].rows[k], buildKline(q, o))
    BY <1>2, SameLog DEF TxCoversBatch, Covers
  <2>1. q # p
    <3> SUFFICES ASSUME q = p PROVE FALSE
      OBVIOUS
    <3>1. o < from /\ o <= last /\ o \in Offsets(p)
      BY <1>1, <1>3 DEF TypeOK, klinesAfterOffset, Holds, Offsets, WriteBegin
    <3> QED
      BY <3>1 DEF WriteBegin, Holds, Offsets
  <2> QED
    BY <1>3, <2>1 DEF IInv, TxCoversBatch
<1>11. LocksExclude'
  BY <1>4 DEF IInv, LocksExclude
<1> QED
  BY <1>5, <1>6, <1>7, <1>8, <1>9, <1>10, <1>11 DEF IInv

LEMMA UpsertInv ==
  ASSUME IInv, NEW p \in Partitions, UpsertRow(p)
  PROVE  IInv'
<1> DEFINE row == Upsert(Old(p), New(p))
<1>1. TypeOK /\ BatchDecodes /\ InLog
  BY DEF IInv
<1>2. /\ log' = log /\ durable' = durable /\ candles' = candles
      /\ tx[p] # NoTx /\ tx[p].next <= tx[p].last
  BY DEF UpsertRow
<1>3. /\ tx[p] \in Tx
      /\ tx[p].next \in Offsets(p)
      /\ Decodes(p, tx[p].next)
      /\ Candle(p) \in Candles
      /\ Old(p) \in Row \cup {NoRow}
      /\ New(p) \in Row
      /\ row \in Row
      /\ tx'[p] = [next |-> tx[p].next + 1, last |-> tx[p].last,
                   rows |-> [tx[p].rows EXCEPT ![Candle(p)] = row]]
      /\ tx'[p] \in Tx
      /\ \A q \in Partitions : q # p => tx'[q] = tx[q]
  BY <1>1, UpsertTyped
<1>4. /\ Covers(row, New(p))
      /\ \A x \in Row : Covers(Old(p), x) => Covers(row, x)
  BY <1>3, UpsertCovers
<1>5. /\ tx'[p].rows[Candle(p)] = row
      /\ \A k \in Candles : k # Candle(p) => tx'[p].rows[k] = tx[p].rows[k]
      /\ tx'[p].next = tx[p].next + 1
      /\ tx'[p].last = tx[p].last
  BY <1>3 DEF Tx
<1> HIDE DEF row
<1>6. \A q \in Partitions, k \in Candles :
        Locks(q, k)' <=> Locks(q, k) \/ (q = p /\ k = Candle(p))
  <2>1. tx'[p] # NoTx /\ row # NoRow
    BY <1>3, MarkersDiffer
  <2> QED
    BY <1>2, <1>3, <1>5, <2>1 DEF Locks
<1>7. \A q \in Partitions : q # p => ~Locks(q, Candle(p))
  BY DEF UpsertRow, Locked, Locks, Candle
<1>8. TypeOK'
  <2>1. tx' \in [Partitions -> Tx \cup {NoTx}]
    BY <1>1, <1>3 DEF UpsertRow, TypeOK
  <2>2. tx[p].next \in Nat /\ tx[p].last \in Nat
    BY <1>3 DEF Tx
  <2> QED
    BY <1>1, <1>2, <1>3, <1>5, <2>1, <2>2 DEF TypeOK, Offsets
<1>9. InLog'
  <2>1. tx[p].next \in Nat /\ durable[p] \in Nat \cup {-1}
    BY <1>1, <1>3 DEF Tx, TypeOK
  <2> QED
    BY <1>1, <1>2, <1>3, <1>5, <2>1 DEF InLog
<1>10. BatchDecodes'
  <2>1. tx[p].next \in Nat /\ tx[p].last \in Nat
    BY <1>3 DEF Tx
  <2> QED
    BY <1>1, <1>2, <1>3, <1>5, <2>1 DEF BatchDecodes, Decodes, Msg
<1>11. TableInv'
  BY <1>2, SameLog DEF IInv, TableInv, Covers
<1>12. TxCoversTable'
  <2> SUFFICES ASSUME NEW k \in Candles, NEW r \in Partitions, Locks(r, k)',
                      NEW q \in Partitions, NEW o \in Nat,
                      Holds(q, o, k), o <= durable[q]
               PROVE  Covers(tx'[r].rows[k], buildKline(q, o))
    BY <1>2, SameLog DEF TxCoversTable, Covers
  <2>1. CASE r = p /\ k = Candle(p)
    <3>1. Covers(Old(p), buildKline(q, o))
      BY <1>2, <2>1 DEF IInv, TableInv, TxCoversTable, Old, Locks
    <3>2. buildKline(q, o) \in Row
      BY <1>1, HeldRow
    <3> QED
      BY <1>4, <1>5, <2>1, <3>1, <3>2
  <2>2. CASE ~(r = p /\ k = Candle(p))
    <3>1. Locks(r, k) /\ tx'[r].rows[k] = tx[r].rows[k]
      BY <1>3, <1>5, <1>6, <2>2
    <3> QED
      BY <3>1 DEF IInv, TxCoversTable
  <2> QED
    BY <2>1, <2>2
<1>13. TxCoversBatch'
  <2> SUFFICES ASSUME NEW k \in Candles, NEW q \in Partitions, NEW o \in Nat,
                      tx'[q] # NoTx, Holds(q, o, k), durable[q] < o, o < tx'[q].next
               PROVE  Covers(tx'[q].rows[k], buildKline(q, o))
    BY <1>2, SameLog DEF TxCoversBatch, Covers
  <2>1. CASE q # p
    BY <1>3, <2>1 DEF IInv, TxCoversBatch
  <2>2. CASE q = p /\ o = tx[p].next
    BY <1>4, <1>5, <2>2 DEF Holds, Candle, New
  <2>3. CASE q = p /\ o # tx[p].next
    <3>1. o < tx[p].next
      BY <1>3, <1>5, <2>3 DEF Tx
    <3>2. Covers(tx[p].rows[k], buildKline(p, o))
      BY <1>2, <2>3, <3>1 DEF IInv, TxCoversBatch
    <3>3. buildKline(p, o) \in Row
      BY <1>1, <2>3, HeldRow
    <3>4. k = Candle(p) => Old(p) = tx[p].rows[k]
      BY <3>2 DEF Old, Covers
    <3> QED
      BY <1>4, <1>5, <2>3, <3>2, <3>3, <3>4
  <2> QED
    BY <2>1, <2>2, <2>3
<1>14. LocksExclude'
  BY <1>6, <1>7 DEF IInv, LocksExclude
<1> QED
  BY <1>8, <1>9, <1>10, <1>11, <1>12, <1>13, <1>14 DEF IInv

LEMMA CommitInv ==
  ASSUME IInv, NEW p \in Partitions, CommitTx(p)
  PROVE  IInv'
<1>1. TypeOK /\ InLog /\ BatchDecodes
  BY DEF IInv
<1>2. /\ log' = log
      /\ tx[p] # NoTx /\ tx[p].next > tx[p].last
      /\ tx'[p] = NoTx
      /\ durable'[p] = tx[p].last
      /\ \A q \in Partitions : q # p => tx'[q] = tx[q] /\ durable'[q] = durable[q]
      /\ \A k \in Candles : candles'[k] = IF tx[p].rows[k] = NoRow THEN candles[k]
                                          ELSE tx[p].rows[k]
  BY <1>1 DEF CommitTx, TypeOK
<1>3. /\ tx[p] \in Tx
      /\ tx[p].last \in 0 .. Len(log[p]) - 1 /\ Len(log[p]) \in Nat
      /\ tx[p].next \in Nat /\ tx[p].last \in Nat /\ durable[p] \in Nat \cup {-1}
  BY <1>1, <1>2 DEF TypeOK, Tx, Offsets
<1>4. \A q \in Partitions, k \in Candles : Locks(q, k)' => q # p /\ Locks(q, k)
  BY <1>2 DEF Locks
<1>5. TypeOK'
  <2>1. tx' \in [Partitions -> Tx \cup {NoTx}] /\ durable' \in [Partitions -> Nat \cup {-1}]
    BY <1>1, <1>3 DEF CommitTx, TypeOK
  <2>2. candles' \in [Candles -> Row \cup {NoRow}]
    BY <1>1, <1>3 DEF CommitTx, TypeOK, Tx
  <2>3. \A q \in Partitions : tx'[q] # NoTx =>
          tx'[q].last \in Offsets(q) /\ tx'[q].next <= tx'[q].last + 1
    BY <1>1, <1>2 DEF TypeOK
  <2> QED
    BY <1>1, <1>2, <2>1, <2>2, <2>3, SameLog DEF TypeOK
<1>6. InLog'
  BY <1>1, <1>2, <1>3 DEF InLog
<1>7. BatchDecodes'
  BY <1>1, <1>2 DEF BatchDecodes, Decodes, Msg
<1>8. \A k \in Candles, o \in Nat :
        Holds(p, o, k) /\ durable[p] < o /\ o <= tx[p].last =>
          Covers(tx[p].rows[k], buildKline(p, o)) /\ Locks(p, k)
  <2> TAKE k \in Candles, o \in Nat
  <2> HAVE Holds(p, o, k) /\ durable[p] < o /\ o <= tx[p].last
  <2>1. o < tx[p].next
    BY <1>2, <1>3
  <2>2. Covers(tx[p].rows[k], buildKline(p, o))
    BY <1>2, <2>1 DEF IInv, TxCoversBatch
  <2> QED
    BY <1>2, <2>2 DEF Covers, Locks
<1>9. TableInv'
  <2> SUFFICES ASSUME NEW k \in Candles, NEW q \in Partitions, NEW o \in Nat,
                      Holds(q, o, k), o <= durable'[q]
               PROVE  Covers(candles'[k], buildKline(q, o))
    BY <1>2, SameLog DEF TableInv, Covers
  <2>1. CASE o <= durable[q]
    BY <1>2, <2>1 DEF IInv, TableInv, TxCoversTable, Locks
  <2>2. CASE ~(o <= durable[q])
    <3>1. q = p /\ durable[p] < o /\ o <= tx[p].last
      BY <1>2, <1>3, <2>2
    <3> QED
      BY <1>2, <1>8, <3>1 DEF Locks
  <2> QED
    BY <2>1, <2>2
<1>10. TxCoversTable'
  <2> SUFFICES ASSUME NEW k \in Candles, NEW r \in Partitions, Locks(r, k)',
                      NEW q \in Partitions, NEW o \in Nat,
                      Holds(q, o, k), o <= durable'[q]
               PROVE  Covers(tx'[r].rows[k], buildKline(q, o))
    BY <1>2, SameLog DEF TxCoversTable, Covers
  <2>1. r # p /\ Locks(r, k) /\ tx'[r] = tx[r]
    BY <1>2, <1>4
  <2>2. o <= durable[q]
    <3> SUFFICES ASSUME ~(o <= durable[q]) PROVE FALSE
      OBVIOUS
    <3>1. q = p /\ durable[p] < o /\ o <= tx[p].last
      BY <1>2, <1>3
    <3> QED
      BY <1>8, <2>1, <3>1 DEF IInv, LocksExclude
  <2> QED
    BY <2>1, <2>2 DEF IInv, TxCoversTable
<1>11. TxCoversBatch'
  <2> SUFFICES ASSUME NEW k \in Candles, NEW q \in Partitions, NEW o \in Nat,
                      tx'[q] # NoTx, Holds(q, o, k), durable'[q] < o, o < tx'[q].next
               PROVE  Covers(tx'[q].rows[k], buildKline(q, o))
    BY <1>2, SameLog DEF TxCoversBatch, Covers
  <2>1. q # p /\ tx'[q] = tx[q] /\ durable'[q] = durable[q]
    BY <1>2
  <2> QED
    BY <2>1 DEF IInv, TxCoversBatch
<1>12. LocksExclude'
  BY <1>4 DEF IInv, LocksExclude
<1> QED
  BY <1>5, <1>6, <1>7, <1>9, <1>10, <1>11, <1>12 DEF IInv

LEMMA RollbackInv ==
  ASSUME IInv, NEW p \in Partitions, Rollback(p)
  PROVE  IInv'
<1>1. TypeOK /\ InLog /\ BatchDecodes
  BY DEF IInv
<1>2. /\ log' = log /\ durable' = durable /\ candles' = candles
      /\ tx'[p] = NoTx
      /\ \A q \in Partitions : q # p => tx'[q] = tx[q]
      /\ tx' \in [Partitions -> Tx \cup {NoTx}]
  BY <1>1 DEF Rollback, TypeOK
<1>3. \A q \in Partitions, k \in Candles : Locks(q, k)' => q # p /\ Locks(q, k)
  BY <1>2 DEF Locks
<1>4. TypeOK'
  <2>1. \A q \in Partitions : tx'[q] # NoTx =>
          tx'[q].last \in Offsets(q) /\ tx'[q].next <= tx'[q].last + 1
    BY <1>1, <1>2 DEF TypeOK
  <2> QED
    BY <1>1, <1>2, <2>1, SameLog DEF TypeOK
<1>5. InLog' /\ BatchDecodes'
  BY <1>1, <1>2 DEF InLog, BatchDecodes, Decodes, Msg
<1>6. TableInv'
  BY <1>2, SameLog DEF IInv, TableInv, Covers
<1>7. TxCoversTable'
  <2> SUFFICES ASSUME NEW k \in Candles, NEW r \in Partitions, Locks(r, k)',
                      NEW q \in Partitions, NEW o \in Nat,
                      Holds(q, o, k), o <= durable[q]
               PROVE  Covers(tx'[r].rows[k], buildKline(q, o))
    BY <1>2, SameLog DEF TxCoversTable, Covers
  <2> QED
    BY <1>2, <1>3 DEF IInv, TxCoversTable
<1>8. TxCoversBatch'
  <2> SUFFICES ASSUME NEW k \in Candles, NEW q \in Partitions, NEW o \in Nat,
                      tx'[q] # NoTx, Holds(q, o, k), durable[q] < o, o < tx'[q].next
               PROVE  Covers(tx'[q].rows[k], buildKline(q, o))
    BY <1>2, SameLog DEF TxCoversBatch, Covers
  <2> QED
    BY <1>2 DEF IInv, TxCoversBatch
<1>9. LocksExclude'
  BY <1>3 DEF IInv, LocksExclude
<1> QED
  BY <1>4, <1>5, <1>6, <1>7, <1>8, <1>9 DEF IInv

LEMMA StutterInv == IInv /\ UNCHANGED vars => IInv'
  BY DEF IInv, vars, TypeOK, BatchDecodes, InLog, TableInv, TxCoversTable, TxCoversBatch,
         LocksExclude, Locks, Holds, Covers, Offsets, Decodes, Msg, buildKline

LEMMA NextInv == IInv /\ [Next]_vars => IInv'
<1> SUFFICES ASSUME IInv, [Next]_vars PROVE IInv'
  OBVIOUS
<1>1. ASSUME NEW p \in Partitions, NEW m \in Messages, Produce(p, m) PROVE IInv'
  BY <1>1, ProduceInv
<1>2. ASSUME NEW p \in Partitions, NEW from \in Offsets(p), NEW last \in Offsets(p),
             WriteBegin(p, from, last)
      PROVE  IInv'
  BY <1>2, BeginInv
<1>3. ASSUME NEW p \in Partitions, UpsertRow(p) PROVE IInv'
  BY <1>3, UpsertInv
<1>4. ASSUME NEW p \in Partitions, CommitTx(p) PROVE IInv'
  BY <1>4, CommitInv
<1>5. ASSUME NEW p \in Partitions, Rollback(p) PROVE IInv'
  BY <1>5, RollbackInv
<1> QED
  BY <1>1, <1>2, <1>3, <1>4, <1>5, StutterInv DEF Next

LEMMA TableIsNewest == TypeOK /\ TableInv => NewestKept
<1> SUFFICES ASSUME TypeOK, TableInv, NEW k \in Candles, NEW c \in Records(k)
             PROVE  Covers(candles[k], buildKline(c[1], c[2]))
  BY DEF NewestKept
<1>1. PICK p \in Partitions : c \in {p} \X Offsets(p)
  BY DEF Records, Coords
<1>2. c[1] = p /\ c[2] \in Offsets(p) /\ c[2] \in Nat
  BY <1>1 DEF Offsets
<1> QED
  BY <1>2 DEF TableInv, Holds, Records

(* The candle table and its transactions keep their types and stay inside   *)
(* the log, for any partitions, candles and records.                        *)
THEOREM TypeCorrect == Spec => []TypeOK
<1>1. IInv => TypeOK
  BY DEF IInv
<1> QED
  BY <1>1, InitInv, NextInv, PTL DEF Spec

(* However many partitions feed a candle, and in whatever order their       *)
(* batches take its row, wait for it, roll back and commit, the row is      *)
(* never behind a durable record (writeKlinesTx, klinesAfterOffset).        *)
THEOREM NewestIsKept == Spec => []NewestKept
<1>1. IInv => NewestKept
  BY TableIsNewest DEF IInv
<1> QED
  BY <1>1, InitInv, NextInv, PTL DEF Spec

-----------------------------------------------------------------------------
(* One pass over the rows R of one candle and partition: CandleOfLog said   *)
(* of a row, so that it can be shown step by step.                          *)
Off(r) == r.at[2]

Closers(R) == {r \in R : r.closed /\ \A s \in R : Off(s) < Off(r) => s.rev <= r.rev}

Closing(R) == {r \in R : r.closed /\ \E s \in Closers(R) : Off(s) <= Off(r)}

LastHighest(r, S) ==
  r \in S /\ \A s \in S : s.rev < r.rev \/ (s.rev = r.rev /\ Off(s) <= Off(r))

FirstHighest(r, S) ==
  r \in S /\ \A s \in S : s.rev < r.rev \/ (s.rev = r.rev /\ Off(r) <= Off(s))

IsPass(row, R) ==
  \/ R = {} /\ row = NoRow
  \/ R # {} /\ Closers(R) = {} /\ LastHighest(row, R)
  \/ Closers(R) # {} /\ FirstHighest(row, Closing(R))

(* The guard of writeKlinesTx takes a pass one record further. *)
LEMMA PassGoesOn ==
  ASSUME NEW R \in SUBSET Row, NEW old \in Row \cup {NoRow}, IsPass(old, R),
         NEW new \in Row, \A r \in R : Off(r) < Off(new)
  PROVE  IsPass(Upsert(old, new), R \cup {new})
<1> DEFINE S == R \cup {new}
           Ends == new.closed /\ \A s \in R : s.rev <= new.rev
<1> SUFFICES IsPass(Upsert(old, new), S)
  OBVIOUS
<1>1. \A r \in Row : Off(r) \in Nat /\ r.rev \in Nat /\ r.closed \in BOOLEAN
  BY DEF Off, Row
<1>2. new \notin R /\ S \subseteq Row /\ (\A r : r \in S <=> r \in R \/ r = new)
  BY <1>1
<1> HIDE DEF S
<1>3. \A r : r \in Closers(S) <=> r \in Closers(R) \/ (r = new /\ Ends)
  <2>1. ASSUME NEW r \in R PROVE r \in Closers(S) <=> r \in Closers(R)
    BY <1>1, <1>2 DEF Closers
  <2>2. new \in Closers(S) <=> Ends
    BY <1>1, <1>2 DEF Closers
  <2> QED
    BY <1>2, <2>1, <2>2 DEF Closers
<1>4. NoRow \notin Row
  BY MarkersDiffer
<1>5. CASE R = {}
  <2>1. Closers(R) = {} /\ old = NoRow
    BY <1>5, <1>4 DEF IsPass, Closers, Closing, FirstHighest
  <2>2. Upsert(old, new) = new
    BY <2>1 DEF Upsert
  <2>3. \A r : r \in S <=> r = new
    BY <1>2, <1>5
  <2>4. CASE new.closed
    <3>1. \A r : (r \in Closers(S) <=> r = new) /\ (r \in Closing(S) <=> r = new)
      BY <1>1, <2>3, <2>4 DEF Closers, Closing
    <3> QED
      BY <1>1, <2>2, <3>1 DEF IsPass, FirstHighest
  <2>5. CASE ~new.closed
    <3>1. Closers(S) = {}
      BY <2>3, <2>5 DEF Closers
    <3> QED
      BY <1>1, <2>2, <2>3, <3>1 DEF IsPass, LastHighest
  <2> QED
    BY <2>4, <2>5
<1>6. CASE R # {} /\ Closers(R) = {}
  <2>1. LastHighest(old, R) /\ old \in R /\ old \in Row
    BY <1>6, <1>4 DEF IsPass, LastHighest
  <2>2. ~old.closed
    BY <1>1, <1>6, <2>1 DEF LastHighest, Closers
  <2>3. old # NoRow
    BY <1>4, <2>1
  <2>4. CASE new.rev >= old.rev
    <3>1. Upsert(old, new) = new
      BY <2>2, <2>4 DEF Upsert, Accepts
    <3>2. \A s \in R : s.rev <= new.rev
      BY <1>1, <2>1, <2>4 DEF LastHighest
    <3>3. CASE new.closed
      <4>1. \A r : r \in Closers(S) <=> r = new
        BY <1>3, <1>6, <3>2, <3>3
      <4>2. \A r : r \in Closing(S) <=> r = new
        BY <1>1, <1>2, <3>3, <4>1 DEF Closing
      <4> QED
        BY <1>1, <3>1, <4>1, <4>2 DEF IsPass, FirstHighest
    <3>4. CASE ~new.closed
      <4>1. Closers(S) = {}
        BY <1>3, <1>6, <3>4
      <4>2. LastHighest(new, S)
        BY <1>1, <1>2, <3>2 DEF LastHighest
      <4> QED
        BY <1>2, <3>1, <4>1, <4>2 DEF IsPass
    <3> QED
      BY <3>3, <3>4
  <2>5. CASE ~(new.rev >= old.rev)
    <3>1. Upsert(old, new) = old
      BY <2>2, <2>3, <2>5 DEF Upsert, Accepts
    <3>2. Closers(S) = {}
      BY <1>1, <1>3, <1>6, <2>1, <2>5
    <3>3. LastHighest(old, S)
      BY <1>1, <1>2, <2>1, <2>5 DEF LastHighest
    <3> QED
      BY <1>2, <3>1, <3>2, <3>3 DEF IsPass
  <2> QED
    BY <2>4, <2>5
<1>7. CASE R # {} /\ Closers(R) # {}
  <2>1. FirstHighest(old, Closing(R)) /\ old \in Closing(R)
    BY <1>7 DEF IsPass, FirstHighest
  <2>2. old \in R /\ old \in Row /\ old.closed /\ old # NoRow
    BY <1>4, <2>1 DEF Closing
  <2>3. Closers(S) # {}
    BY <1>3, <1>7
  <2>4. \A r : r \in Closing(S) <=> r \in Closing(R) \/ (r = new /\ new.closed)
    <3>1. ASSUME NEW r \in R PROVE r \in Closing(S) <=> r \in Closing(R)
      <4>1. CASE r \in Closing(R)
        BY <1>2, <1>3, <4>1 DEF Closing
      <4>2. CASE r \in Closing(S)
        <5>1. PICK s \in Closers(S) : Off(s) <= Off(r)
          BY <4>2 DEF Closing
        <5>2. s # new
          BY <1>1, <5>1
        <5> QED
          BY <1>3, <4>2, <5>1, <5>2 DEF Closing
      <4> QED
        BY <4>1, <4>2
    <3>2. new \in Closing(S) <=> new.closed
      BY <1>1, <1>2, <1>3, <1>7 DEF Closing, Closers
    <3> QED
      BY <1>2, <3>1, <3>2 DEF Closing
  <2>5. Closing(R) \subseteq Row /\ \A r \in Closing(R) : Off(r) < Off(new)
    BY DEF Closing
  <2>6. CASE new.rev > old.rev /\ new.closed
    <3>1. Upsert(old, new) = new
      BY <2>2, <2>6 DEF Upsert, Accepts
    <3>2. FirstHighest(new, Closing(S))
      BY <1>1, <2>1, <2>2, <2>4, <2>5, <2>6 DEF FirstHighest
    <3> QED
      BY <2>3, <3>1, <3>2 DEF IsPass
  <2>7. CASE ~(new.rev > old.rev /\ new.closed)
    <3>1. Upsert(old, new) = old
      BY <2>2, <2>7 DEF Upsert, Accepts
    <3>2. FirstHighest(old, Closing(S))
      BY <1>1, <2>1, <2>2, <2>4, <2>5, <2>7 DEF FirstHighest
    <3> QED
      BY <2>3, <3>1, <3>2 DEF IsPass
  <2> QED
    BY <2>6, <2>7
<1> QED
  BY <1>5, <1>6, <1>7

(* There is one row that a pass can give: offsets tell rows apart. *)
LEMMA PassIsUnique ==
  ASSUME NEW R \in SUBSET Row, \A r, s \in R : Off(r) = Off(s) => r = s,
         NEW row, IsPass(row, R)
  PROVE  row = IF R = {} THEN NoRow
               ELSE IF Closers(R) = {}
               THEN CHOOSE r \in R : \A s \in R :
                      s.rev < r.rev \/ (s.rev = r.rev /\ Off(s) <= Off(r))
               ELSE CHOOSE r \in Closing(R) : \A s \in Closing(R) :
                      s.rev < r.rev \/ (s.rev = r.rev /\ Off(r) <= Off(s))
<1>1. \A r \in Row : Off(r) \in Nat /\ r.rev \in Nat
  BY DEF Off, Row
<1>2. Closers(R) \subseteq R /\ Closing(R) \subseteq R
  BY DEF Closers, Closing
<1>3. CASE R = {}
  BY <1>2, <1>3 DEF IsPass, FirstHighest
<1>4. CASE R # {} /\ Closers(R) = {}
  <2>1. LastHighest(row, R)
    BY <1>4 DEF IsPass
  <2>2. \A r \in R : LastHighest(r, R) => r = row
    BY <1>1, <2>1 DEF LastHighest
  <2> QED
    BY <1>4, <2>1, <2>2 DEF LastHighest
<1>5. CASE R # {} /\ Closers(R) # {}
  <2>1. FirstHighest(row, Closing(R))
    BY <1>5 DEF IsPass
  <2>2. \A r \in Closing(R) : FirstHighest(r, Closing(R)) => r = row
    BY <1>1, <1>2, <2>1 DEF FirstHighest
  <2> QED
    BY <1>5, <2>1, <2>2 DEF FirstHighest
<1> QED
  BY <1>3, <1>4, <1>5

-----------------------------------------------------------------------------
(* The records of a candle in one partition, below an offset. *)
Below(p, k, n) == {buildKline(p, o) : o \in {o \in Nat : o < n /\ Holds(p, o, k)}}

(* All durable records of a candle are of one partition. *)
Alone(k, p) ==
  \A q \in Partitions, o \in Nat : Holds(q, o, k) /\ o <= durable[q] => q = p

(* Such a candle is one pass over the durable records, ... *)
TablePass ==
  \A k \in Candles, p \in Partitions :
    Alone(k, p) => IsPass(candles[k], Below(p, k, durable[p] + 1))

(* ... in a transaction it is one pass over what that has been through, ... *)
TxPass ==
  \A k \in Candles, p \in Partitions :
    Locks(p, k) /\ Alone(k, p) => IsPass(tx[p].rows[k], Below(p, k, tx[p].next))

(* ... and a transaction locks the candles of its records only. *)
TxReason ==
  \A k \in Candles, p \in Partitions :
    Locks(p, k) => \E o \in Nat : Holds(p, o, k) /\ o < tx[p].next

(* Without a partition nothing is written. *)
NoSource == Partitions = {} => candles = [k \in Candles |-> NoRow]

PassInv == TablePass /\ TxPass /\ TxReason /\ NoSource

LEMMA BelowRows ==
  ASSUME TypeOK, NEW k \in Candles, NEW p \in Partitions, NEW n \in Int
  PROVE  /\ Below(p, k, n) \subseteq Row
         /\ \A r \in Below(p, k, n) : Off(r) < n
         /\ \A r, s \in Below(p, k, n) : Off(r) = Off(s) => r = s
<1>1. \A o \in Nat : Off(buildKline(p, o)) = o
  BY DEF Off, buildKline
<1>2. ASSUME NEW r \in Below(p, k, n)
      PROVE  \E o \in Nat : o < n /\ Holds(p, o, k) /\ r = buildKline(p, o) /\ Off(r) = o
  BY <1>1 DEF Below
<1>3. Below(p, k, n) \subseteq Row
  BY <1>2, HeldRow
<1> QED
  BY <1>2, <1>3

(* Sets of records with the same offsets are the same. *)
LEMMA BelowSame ==
  ASSUME NEW k \in Candles, NEW p \in Partitions, NEW m, NEW n,
         \A o \in Nat : Holds(p, o, k) => (o < m <=> o < n)
  PROVE  Below(p, k, m) = Below(p, k, n)
BY DEF Below

LEMMA BelowNext ==
  ASSUME NEW k \in Candles, NEW p \in Partitions, NEW n \in Nat, Holds(p, n, k)
  PROVE  Below(p, k, n + 1) = Below(p, k, n) \cup {buildKline(p, n)}
<1>1. \A o \in Nat : o < n + 1 <=> o < n \/ o = n
  OBVIOUS
<1> QED
  BY <1>1 DEF Below

LEMMA PassInit == Init => PassInv
<1> SUFFICES ASSUME Init PROVE PassInv
  OBVIOUS
<1>1. \A p \in Partitions : tx[p] = NoTx /\ durable[p] = -1
  BY DEF Init
<1>2. \A k \in Candles : candles[k] = NoRow
  BY DEF Init
<1>3. \A k \in Candles, p \in Partitions : Below(p, k, durable[p] + 1) = {}
  BY <1>1 DEF Below
<1>4. TablePass
  BY <1>2, <1>3 DEF TablePass, IsPass
<1>5. TxPass /\ TxReason
  BY <1>1 DEF TxPass, TxReason, Locks
<1> QED
  BY <1>4, <1>5 DEF PassInv, NoSource, Init

(* The same set after a step. *)
Later(p, k, n) == {buildKline(p, o)' : o \in {o \in Nat : o < n /\ Holds(p, o, k)'}}

LEMMA AfterStep ==
  ASSUME \A k \in Candles, p \in Partitions :
           Alone(k, p)' => IsPass(candles'[k], Later(p, k, durable'[p] + 1)),
         \A k \in Candles, p \in Partitions :
           Locks(p, k)' /\ Alone(k, p)' => IsPass(tx'[p].rows[k], Later(p, k, tx'[p].next)),
         TxReason', NoSource'
  PROVE  PassInv'
BY DEF PassInv, TablePass, TxPass, Below, Later

(* A step that writes no candle and takes no row. *)
LEMMA QuietPass ==
  ASSUME TypeOK, InLog, PassInv, candles' = candles, durable' = durable,
         \A p \in Partitions, k \in Candles : Locks(p, k)' => Locks(p, k) /\ tx'[p] = tx[p],
         \A p \in Partitions, k \in Candles : \A o \in Offsets(p) :
           (Holds(p, o, k)' <=> Holds(p, o, k)) /\ buildKline(p, o)' = buildKline(p, o)
  PROVE  PassInv'
<1>1. ASSUME NEW p \in Partitions, NEW o \in Nat,
             o <= durable[p] \/ (tx[p] # NoTx /\ o < tx[p].next)
      PROVE  o \in Offsets(p)
  <2>1. Len(log[p]) \in Nat /\ durable[p] \in Nat \cup {-1} /\ durable[p] < Len(log[p])
    BY DEF TypeOK, InLog
  <2>2. CASE o <= durable[p]
    BY <2>1, <2>2 DEF Offsets
  <2>3. CASE tx[p] # NoTx /\ o < tx[p].next
    <3>1. /\ tx[p].next \in Nat /\ tx[p].last \in Offsets(p)
          /\ tx[p].next <= tx[p].last + 1
      BY <2>3 DEF TypeOK, Tx
    <3> QED
      BY <2>1, <2>3, <3>1 DEF Offsets
  <2> QED
    BY <1>1, <2>2, <2>3
<1>2. ASSUME NEW k \in Candles, NEW p \in Partitions, Alone(k, p)' PROVE Alone(k, p)
  BY <1>1, <1>2 DEF Alone
<1>3. ASSUME NEW k \in Candles, NEW p \in Partitions
      PROVE  Later(p, k, durable[p] + 1) = Below(p, k, durable[p] + 1)
  <2>1. durable[p] \in Int
    BY DEF TypeOK
  <2>2. \A o \in Nat : o < durable[p] + 1 => o \in Offsets(p)
    BY <1>1, <2>1
  <2> QED
    BY <2>2 DEF Later, Below
<1>4. ASSUME NEW k \in Candles, NEW p \in Partitions, Locks(p, k)
      PROVE  Later(p, k, tx[p].next) = Below(p, k, tx[p].next)
  <2>1. \A o \in Nat : o < tx[p].next => o \in Offsets(p)
    BY <1>1, <1>4 DEF Locks
  <2> QED
    BY <2>1 DEF Later, Below
<1>5. ASSUME NEW k \in Candles, NEW p \in Partitions, Alone(k, p)'
      PROVE  IsPass(candles'[k], Later(p, k, durable'[p] + 1))
  <2>1. IsPass(candles[k], Below(p, k, durable[p] + 1))
    BY <1>2, <1>5 DEF PassInv, TablePass
  <2> QED
    BY <1>3, <2>1, Zenon
<1>6. ASSUME NEW k \in Candles, NEW p \in Partitions, Locks(p, k)', Alone(k, p)'
      PROVE  IsPass(tx'[p].rows[k], Later(p, k, tx'[p].next))
  <2>1. IsPass(tx[p].rows[k], Below(p, k, tx[p].next)) /\ Locks(p, k) /\ tx'[p] = tx[p]
    BY <1>2, <1>6 DEF PassInv, TxPass
  <2> QED
    BY <1>4, <2>1, Zenon
<1>7. TxReason'
  <2> SUFFICES ASSUME NEW k \in Candles, NEW p \in Partitions, Locks(p, k)'
               PROVE  \E o \in Nat : Holds(p, o, k)' /\ o < tx'[p].next
    BY DEF TxReason
  <2>1. Locks(p, k) /\ tx'[p] = tx[p] /\ tx[p] # NoTx
    BY DEF Locks
  <2>2. PICK o \in Nat : Holds(p, o, k) /\ o < tx[p].next
    BY <2>1 DEF PassInv, TxReason
  <2> QED
    BY <1>1, <2>1, <2>2
<1> QED
  BY <1>5, <1>6, <1>7, AfterStep DEF PassInv, NoSource

LEMMA UpsertPass ==
  ASSUME IInv, PassInv, NEW p \in Partitions, UpsertRow(p)
  PROVE  PassInv'
<1> DEFINE row == Upsert(Old(p), New(p))
           n == tx[p].next
<1>1. TypeOK /\ BatchDecodes /\ InLog /\ TxCoversBatch
  BY DEF IInv
<1>2. log' = log /\ durable' = durable /\ candles' = candles /\ tx[p] # NoTx
  BY DEF UpsertRow
<1>3. /\ tx[p] \in Tx /\ n \in Offsets(p) /\ n \in Nat /\ Decodes(p, n)
      /\ Candle(p) \in Candles
      /\ Old(p) \in Row \cup {NoRow} /\ New(p) \in Row
      /\ tx'[p] = [next |-> n + 1, last |-> tx[p].last,
                   rows |-> [tx[p].rows EXCEPT ![Candle(p)] = row]]
      /\ \A q \in Partitions : q # p => tx'[q] = tx[q]
  BY <1>1, UpsertTyped DEF Tx
<1>4. /\ tx'[p].next = n + 1
      /\ tx'[p].rows[Candle(p)] = row
      /\ \A k \in Candles : k # Candle(p) => tx'[p].rows[k] = tx[p].rows[k]
  BY <1>3 DEF Tx
<1>5. Holds(p, n, Candle(p)) /\ \A k \in Candles : Holds(p, n, k) => k = Candle(p)
  BY <1>3 DEF Holds, Candle
<1> HIDE DEF row, n
<1>6. \A k \in Candles, q \in Partitions : Alone(k, q)' <=> Alone(k, q)
  BY <1>2, SameLog DEF Alone
<1>7. \A k \in Candles, q \in Partitions : \A m : Later(q, k, m) = Below(q, k, m)
  BY <1>2, SameLog DEF Later, Below
<1>8. ASSUME NEW k \in Candles, NEW q \in Partitions, Alone(k, q)'
      PROVE  IsPass(candles'[k], Later(q, k, durable'[q] + 1))
  <2>1. IsPass(candles[k], Below(q, k, durable[q] + 1))
    BY <1>6, <1>8 DEF PassInv, TablePass
  <2> QED
    BY <1>2, <1>7, <2>1, Zenon
<1>9. ASSUME Alone(Candle(p), p)
      PROVE  IsPass(Old(p), Below(p, Candle(p), n))
  <2>1. CASE tx[p].rows[Candle(p)] # NoRow
    BY <1>2, <1>3, <1>9, <2>1 DEF PassInv, TxPass, Locks, Old, n
  <2>2. CASE tx[p].rows[Candle(p)] = NoRow
    <3>1. IsPass(candles[Candle(p)], Below(p, Candle(p), durable[p] + 1))
      BY <1>3, <1>9 DEF PassInv, TablePass
    <3>2. durable[p] \in Int /\ durable[p] < n
      BY <1>1, <1>2 DEF TypeOK, InLog, n
    <3>3. \A o \in Nat : Holds(p, o, Candle(p)) /\ o < n => o <= durable[p]
      BY <1>1, <1>2, <1>3, <2>2, <3>2 DEF TxCoversBatch, Covers, n
    <3>4. Below(p, Candle(p), durable[p] + 1) = Below(p, Candle(p), n)
      <4>1. \A o \in Nat : Holds(p, o, Candle(p)) => (o < durable[p] + 1 <=> o < n)
        BY <1>3, <3>2, <3>3
      <4> QED
        BY <1>3, <4>1, BelowSame
    <3> QED
      BY <2>2, <3>1, <3>4, Zenon DEF Old
  <2> QED
    BY <2>1, <2>2
<1>10. ASSUME NEW k \in Candles, NEW q \in Partitions, Locks(q, k)', Alone(k, q)'
       PROVE  IsPass(tx'[q].rows[k], Later(q, k, tx'[q].next))
  <2>1. Alone(k, q)
    BY <1>6, <1>10
  <2>2. CASE q # p
    <3>1. tx'[q] = tx[q] /\ Locks(q, k)
      BY <1>3, <1>10, <2>2 DEF Locks
    <3>2. IsPass(tx[q].rows[k], Below(q, k, tx[q].next))
      BY <2>1, <3>1 DEF PassInv, TxPass
    <3> QED
      BY <1>7, <3>1, <3>2, Zenon
  <2>3. CASE q = p /\ k # Candle(p)
    <3>1. tx'[p].rows[k] = tx[p].rows[k] /\ Locks(p, k)
      BY <1>2, <1>4, <1>10, <2>3 DEF Locks
    <3>2. IsPass(tx[p].rows[k], Below(p, k, n))
      BY <2>1, <2>3, <3>1 DEF PassInv, TxPass, n
    <3>3. Below(p, k, n) = Below(p, k, n + 1)
      <4>1. \A o \in Nat : Holds(p, o, k) => (o < n <=> o < n + 1)
        BY <1>3, <1>5, <2>3
      <4> QED
        BY <4>1, BelowSame
    <3> QED
      BY <1>4, <1>7, <2>3, <3>1, <3>2, <3>3, Zenon
  <2>4. CASE q = p /\ k = Candle(p)
    <3>1. Below(p, k, n + 1) = Below(p, k, n) \cup {New(p)}
      BY <1>3, <1>5, <2>4, BelowNext DEF New, n
    <3>2. Off(New(p)) = n
      BY DEF New, Off, buildKline, n
    <3>3. Below(p, k, n) \in SUBSET Row /\ \A r \in Below(p, k, n) : Off(r) < Off(New(p))
      BY <1>1, <1>3, <2>4, <3>2, BelowRows
    <3>4. IsPass(Old(p), Below(p, k, n))
      BY <1>9, <2>1, <2>4
    <3>5. IsPass(row, Below(p, k, n) \cup {New(p)})
      BY <1>3, <3>3, <3>4, PassGoesOn DEF row
    <3> QED
      BY <1>4, <1>7, <2>4, <3>1, <3>5, Zenon
  <2> QED
    BY <2>2, <2>3, <2>4
<1>11. TxReason'
  <2> SUFFICES ASSUME NEW k \in Candles, NEW q \in Partitions, Locks(q, k)'
               PROVE  \E o \in Nat : Holds(q, o, k) /\ o < tx'[q].next
    BY <1>2, SameLog DEF TxReason
  <2>1. CASE q = p /\ k = Candle(p)
    BY <1>3, <1>4, <1>5, <2>1
  <2>2. CASE q = p /\ k # Candle(p)
    <3>1. Locks(p, k)
      BY <1>2, <1>4, <2>2 DEF Locks
    <3>2. PICK o \in Nat : Holds(p, o, k) /\ o < tx[p].next
      BY <3>1 DEF PassInv, TxReason
    <3> QED
      BY <1>3, <1>4, <2>2, <3>2 DEF n
  <2>3. CASE q # p
    BY <1>3, <2>3 DEF PassInv, TxReason, Locks
  <2> QED
    BY <2>1, <2>2, <2>3
<1>12. NoSource'
  BY <1>2 DEF PassInv, NoSource
<1> QED
  BY <1>8, <1>10, <1>11, <1>12, AfterStep

LEMMA CommitPass ==
  ASSUME IInv, PassInv, NEW p \in Partitions, CommitTx(p)
  PROVE  PassInv'
<1>1. TypeOK /\ InLog /\ TxCoversBatch
  BY DEF IInv
<1>2. /\ log' = log
      /\ tx[p] # NoTx /\ tx[p].next > tx[p].last
      /\ tx'[p] = NoTx
      /\ durable'[p] = tx[p].last
      /\ \A q \in Partitions : q # p => tx'[q] = tx[q] /\ durable'[q] = durable[q]
      /\ \A k \in Candles : candles'[k] = IF tx[p].rows[k] = NoRow THEN candles[k]
                                          ELSE tx[p].rows[k]
  BY <1>1 DEF CommitTx, TypeOK
<1>3. /\ tx[p].next \in Nat /\ tx[p].last \in Nat /\ durable[p] \in Nat \cup {-1}
      /\ tx[p].next = tx[p].last + 1 /\ durable[p] < tx[p].next
  BY <1>1, <1>2 DEF TypeOK, Tx, InLog
<1>4. \A q \in Partitions, k \in Candles : Locks(q, k)' => q # p /\ Locks(q, k)
  BY <1>2 DEF Locks
<1>5. \A q \in Partitions, o \in Nat : o <= durable[q] => o <= durable'[q]
  BY <1>2, <1>3
<1>6. \A k \in Candles, q \in Partitions : Alone(k, q)' => Alone(k, q)
  BY <1>2, <1>5, SameLog DEF Alone
<1>7. \A k \in Candles, q \in Partitions : \A m : Later(q, k, m) = Below(q, k, m)
  BY <1>2, SameLog DEF Later, Below
<1>8. ASSUME NEW k \in Candles, NEW q \in Partitions, Alone(k, q)'
      PROVE  IsPass(candles'[k], Later(q, k, durable'[q] + 1))
  <2>1. IsPass(candles[k], Below(q, k, durable[q] + 1))
    BY <1>6, <1>8 DEF PassInv, TablePass
  <2>2. CASE tx[p].rows[k] = NoRow
    <3>1. candles'[k] = candles[k]
      BY <1>2, <2>2
    <3>2. \A o \in Nat : Holds(p, o, k) /\ o <= tx[p].last => o <= durable[p]
      BY <1>1, <1>2, <1>3, <2>2 DEF TxCoversBatch, Covers
    <3>3. \A o \in Nat : Holds(q, o, k) => (o < durable[q] + 1 <=> o < durable'[q] + 1)
      BY <1>2, <1>3, <3>2
    <3>4. Below(q, k, durable[q] + 1) = Below(q, k, durable'[q] + 1)
      BY <3>3, BelowSame
    <3> QED
      BY <1>7, <2>1, <3>1, <3>4, Zenon
  <2>3. CASE tx[p].rows[k] # NoRow
    <3>1. Locks(p, k) /\ candles'[k] = tx[p].rows[k]
      BY <1>2, <2>3 DEF Locks
    <3>2. PICK o \in Nat : Holds(p, o, k) /\ o < tx[p].next
      BY <3>1 DEF PassInv, TxReason
    <3>3. Holds(p, o, k)' /\ o <= durable'[p]
      BY <1>2, <1>3, <3>2, SameLog
    <3>4. q = p
      BY <1>8, <3>3 DEF Alone
    <3>5. IsPass(tx[p].rows[k], Below(p, k, tx[p].next))
      BY <1>6, <1>8, <3>1, <3>4 DEF PassInv, TxPass
    <3>6. tx[p].next = durable'[p] + 1
      BY <1>2, <1>3
    <3> QED
      BY <1>7, <3>1, <3>4, <3>5, <3>6, Zenon
  <2> QED
    BY <2>2, <2>3
<1>9. ASSUME NEW k \in Candles, NEW q \in Partitions, Locks(q, k)', Alone(k, q)'
      PROVE  IsPass(tx'[q].rows[k], Later(q, k, tx'[q].next))
  <2>1. tx'[q] = tx[q] /\ Locks(q, k)
    BY <1>2, <1>4, <1>9
  <2>2. IsPass(tx[q].rows[k], Below(q, k, tx[q].next))
    BY <1>6, <1>9, <2>1 DEF PassInv, TxPass
  <2> QED
    BY <1>7, <2>1, <2>2, Zenon
<1>10. TxReason'
  <2> SUFFICES ASSUME NEW k \in Candles, NEW q \in Partitions, Locks(q, k)'
               PROVE  \E o \in Nat : Holds(q, o, k) /\ o < tx'[q].next
    BY <1>2, SameLog DEF TxReason
  <2>1. tx'[q] = tx[q] /\ Locks(q, k)
    BY <1>2, <1>4
  <2> QED
    BY <2>1 DEF PassInv, TxReason
<1>11. NoSource'
  BY DEF NoSource
<1> QED
  BY <1>8, <1>9, <1>10, <1>11, AfterStep

(* The other steps write no candle. *)
LEMMA NextPass == IInv /\ PassInv /\ [Next]_vars => PassInv'
<1> SUFFICES ASSUME IInv, PassInv, [Next]_vars PROVE PassInv'
  OBVIOUS
<1>1. TypeOK /\ InLog
  BY DEF IInv
<1>2. ASSUME log' = log
      PROVE  \A p \in Partitions, k \in Candles : \A o \in Offsets(p) :
               (Holds(p, o, k)' <=> Holds(p, o, k)) /\ buildKline(p, o)' = buildKline(p, o)
  BY <1>2, SameLog DEF Offsets
<1>3. ASSUME NEW p \in Partitions, NEW m \in Messages, Produce(p, m) PROVE PassInv'
  <2>1. /\ durable' = durable /\ candles' = candles /\ tx' = tx
        /\ log' = [log EXCEPT ![p] = Append(@, m)]
    BY <1>3 DEF Produce
  <2>2. \A q \in Partitions : \A o \in Offsets(q) :
          o \in Offsets(q)' /\ Msg(q, o)' = Msg(q, o)
    BY <1>1, <2>1, AppendKeeps
  <2>3. \A q \in Partitions, k \in Candles : \A o \in Offsets(q) :
          (Holds(q, o, k)' <=> Holds(q, o, k)) /\ buildKline(q, o)' = buildKline(q, o)
    BY <2>2 DEF Holds, Decodes, buildKline
  <2>4. \A q \in Partitions, k \in Candles : Locks(q, k)' => Locks(q, k) /\ tx'[q] = tx[q]
    BY <2>1 DEF Locks
  <2> QED
    BY <1>1, <2>1, <2>3, <2>4, QuietPass
<1>4. ASSUME NEW p \in Partitions, NEW from \in Offsets(p), NEW last \in Offsets(p),
             WriteBegin(p, from, last)
      PROVE  PassInv'
  <2>1. log' = log /\ durable' = durable /\ candles' = candles
    BY <1>4 DEF WriteBegin
  <2>2. /\ tx'[p].rows = [k \in Candles |-> NoRow]
        /\ \A q \in Partitions : q # p => tx'[q] = tx[q]
    BY <1>1, <1>4, BeginTyped
  <2>3. \A q \in Partitions, k \in Candles : Locks(q, k)' => Locks(q, k) /\ tx'[q] = tx[q]
    BY <2>2 DEF Locks
  <2> QED
    BY <1>1, <1>2, <2>1, <2>3, QuietPass
<1>5. ASSUME NEW p \in Partitions, Rollback(p) PROVE PassInv'
  <2>1. /\ log' = log /\ durable' = durable /\ candles' = candles
        /\ tx'[p] = NoTx
        /\ \A q \in Partitions : q # p => tx'[q] = tx[q]
    BY <1>1, <1>5 DEF Rollback, TypeOK
  <2>2. \A q \in Partitions, k \in Candles : Locks(q, k)' => Locks(q, k) /\ tx'[q] = tx[q]
    BY <2>1 DEF Locks
  <2> QED
    BY <1>1, <1>2, <2>1, <2>2, QuietPass
<1>6. CASE UNCHANGED vars
  <2>1. \A q \in Partitions, k \in Candles : Locks(q, k)' => Locks(q, k) /\ tx'[q] = tx[q]
    BY <1>6 DEF Locks, vars
  <2> QED
    BY <1>1, <1>2, <1>6, <2>1, QuietPass DEF vars
<1> QED
  BY <1>3, <1>4, <1>5, <1>6, UpsertPass, CommitPass DEF Next

(* A candle of one partition's records is Alone there. *)
LEMMA OnePartition ==
  ASSUME TypeOK, NEW k \in Candles, Cardinality({c[1] : c \in Records(k)}) <= 1,
         Partitions # {}
  PROVE  \E p \in Partitions : Alone(k, p)
<1> DEFINE P == {c[1] : c \in Records(k)}
<1>1. \A c \in Records(k) : c[1] \in Partitions
  BY DEF Records, Coords
<1>2. IsFiniteSet(P)
  BY <1>1, PartitionsAssumption, FS_Subset
<1>3. \A q \in Partitions, o \in Nat : Holds(q, o, k) /\ o <= durable[q] => q \in P
  <2> TAKE q \in Partitions, o \in Nat
  <2> HAVE Holds(q, o, k) /\ o <= durable[q]
  <2>1. <<q, o>> \in Coords
    BY DEF Coords, Holds
  <2>2. <<q, o>> \in Records(k)
    BY <2>1 DEF Records, Holds
  <2> QED
    BY <2>2
<1>4. \A q, r \in P : q = r
  <2> SUFFICES ASSUME NEW q \in P, NEW r \in P, q # r PROVE FALSE
    OBVIOUS
  <2>1. IsFiniteSet({q}) /\ Cardinality({q}) = 1
    BY FS_Singleton
  <2>2. IsFiniteSet({q} \cup {r}) /\ Cardinality({q} \cup {r}) = 2
    <3>1. r \notin {q}
      OBVIOUS
    <3>2. /\ IsFiniteSet({q} \cup {r})
          /\ Cardinality({q} \cup {r}) = Cardinality({q}) + 1
      BY <2>1, <3>1, FS_AddElement, Zenon
    <3>3. \A n : n = 1 => n + 1 = 2
      OBVIOUS
    <3> QED
      BY <2>1, <3>2, <3>3, Zenon
  <2>3. Cardinality({q} \cup {r}) <= Cardinality(P)
    BY <1>2, FS_Subset
  <2>4. Cardinality(P) \in Nat
    BY <1>2, FS_CardinalityType
  <2> QED
    BY <2>2, <2>3, <2>4
<1>5. CASE P = {}
  BY <1>3, <1>5 DEF Alone
<1>6. CASE P # {}
  <2>1. PICK p \in P : TRUE
    BY <1>6
  <2>2. p \in Partitions
    BY <1>1
  <2>3. Alone(k, p)
    BY <1>3, <1>4 DEF Alone
  <2> QED
    BY <2>2, <2>3
<1> QED
  BY <1>5, <1>6

LEMMA RecordsBelow ==
  ASSUME TypeOK, NEW k \in Candles, NEW p \in Partitions, Alone(k, p)
  PROVE  {buildKline(c[1], c[2]) : c \in Records(k)} = Below(p, k, durable[p] + 1)
<1>1. durable[p] \in Int
  BY DEF TypeOK
<1>2. ASSUME NEW c \in Records(k)
      PROVE  \E o \in Nat : o < durable[p] + 1 /\ Holds(p, o, k) /\ c[1] = p /\ c[2] = o
  <2>1. PICK q \in Partitions : c \in {q} \X Offsets(q)
    BY DEF Records, Coords
  <2>2. c[1] = q /\ c[2] \in Offsets(q) /\ c[2] \in Nat
    BY <2>1 DEF Offsets
  <2>3. Holds(q, c[2], k) /\ c[2] <= durable[q]
    BY <2>2 DEF Records, Holds
  <2>4. q = p
    BY <2>2, <2>3 DEF Alone
  <2> QED
    BY <1>1, <2>2, <2>3, <2>4
<1>3. ASSUME NEW o \in Nat, o < durable[p] + 1, Holds(p, o, k)
      PROVE  <<p, o>> \in Records(k)
  <2>1. <<p, o>> \in Coords
    BY <1>3 DEF Coords, Holds
  <2> QED
    BY <1>1, <1>3, <2>1 DEF Records, Holds
<1> QED
  BY <1>2, <1>3 DEF Below

LEMMA PassIsCandle == TypeOK /\ PassInv => OnePassOverLog
<1> SUFFICES ASSUME TypeOK, PassInv, NEW k \in Candles,
                    Cardinality({c[1] : c \in Records(k)}) <= 1
             PROVE  candles[k] = CandleOfLog(k)
  BY DEF OnePassOverLog
<1> DEFINE R == {buildKline(c[1], c[2]) : c \in Records(k)}
<1>1. CASE Partitions = {}
  <2>1. Records(k) = {}
    BY <1>1 DEF Records, Coords
  <2>2. R = {}
    BY <2>1
  <2> QED
    BY <1>1, <2>2 DEF PassInv, NoSource, CandleOfLog
<1>2. CASE Partitions # {}
  <2>1. PICK p \in Partitions : Alone(k, p)
    BY <1>2, OnePartition
  <2>2. IsPass(candles[k], Below(p, k, durable[p] + 1))
    BY <2>1 DEF PassInv, TablePass
  <2>3. R = Below(p, k, durable[p] + 1)
    BY <2>1, RecordsBelow
  <2>4. R \in SUBSET Row /\ \A r, s \in R : Off(r) = Off(s) => r = s
    <3>1. durable[p] + 1 \in Int
      BY DEF TypeOK
    <3> QED
      BY <2>3, <3>1, BelowRows
  <2>5. IsPass(candles[k], R)
    BY <2>2, <2>3, Zenon
  <2> HIDE DEF R
  <2>6. candles[k] = IF R = {} THEN NoRow
               ELSE IF Closers(R) = {}
               THEN CHOOSE r \in R : \A s \in R :
                      s.rev < r.rev \/ (s.rev = r.rev /\ Off(s) <= Off(r))
               ELSE CHOOSE r \in Closing(R) : \A s \in Closing(R) :
                      s.rev < r.rev \/ (s.rev = r.rev /\ Off(r) <= Off(s))
    BY <2>4, <2>5, PassIsUnique
  <2> QED
    BY <2>6 DEF R, CandleOfLog, Closers, Closing, Off
<1> QED
  BY <1>1, <1>2

(* Replays, rollbacks and batches that end anywhere do not change what a    *)
(* partition's records make of a candle: its row is the one that a single   *)
(* pass over the durable records in log order gives (writeKlinesTx,         *)
(* klinesAfterOffset and the progress row's lock).                          *)
THEOREM CandleIsOnePass == Spec => []OnePassOverLog
<1>1. IInv /\ PassInv => OnePassOverLog
  BY PassIsCandle DEF IInv
<1> QED
  BY <1>1, InitInv, PassInit, NextInv, NextPass, PTL DEF Spec
=============================================================================
