--------------------------- MODULE FactIngestProofs ---------------------------
(***************************************************************************)
(* Proofs about FactIngest for every set of workers and partitions, every  *)
(* log, batch size and number of faults.                                   *)
(***************************************************************************)
EXTENDS FactIngest, SequenceTheorems, TLAPS

(* Coordinates are pairs of a partition and an offset of its log. *)
LEMMA CoordsParts ==
  \A c \in Coords : c[1] \in Partitions /\ c[2] \in Nat /\ c = <<c[1], c[2]>>
BY LogAssumption DEF Coords, Offsets

LEMMA CoordsMember ==
  ASSUME NEW p \in Partitions, NEW o \in Offsets(p)
  PROVE  <<p, o>> \in Coords
BY DEF Coords

(* The last record of a batch that is not empty has coordinates. *)
LEMMA FinalType ==
  ASSUME TypeOK, NEW w \in Workers, pending[w] # <<>>
  PROVE  Final(w) \in Coords /\ Final(w)[1] \in Partitions /\ Final(w)[2] \in Nat
<1>1. pending[w] \in Seq(Record) /\ Len(pending[w]) \in DOMAIN pending[w]
  BY DEF TypeOK, Flushing
<1>2. pending[w][Len(pending[w])] \in Record
  BY <1>1
<1>3. Final(w) \in Coords
  BY <1>2 DEF Final, Record
<1>4. QED
  BY <1>3, CoordsParts

LEMMA FactRecordsType ==
  ASSUME TypeOK, NEW w \in Workers
  PROVE  FactRecords(w) \subseteq Coords
<1>1. pending[w] \in Seq(Record)
  BY DEF TypeOK
<1>2. \A i \in DOMAIN pending[w] : pending[w][i] \in Record
  BY <1>1
<1>3. QED
  BY <1>2 DEF FactRecords, FactIdx, Record

LEMMA ZeroDeltaType == ZeroDelta \in DeltaId /\ NoBook \in BookCursor
BY DEF ZeroDelta, DeltaId, NoBook, BookCursor, OptId, Nil

LEMMA NoMsgType == NoMsg \notin Coords
BY CoordsParts DEF NoMsg, Nil

LEMMA MsgType ==
  ASSUME NEW c \in Coords
  PROVE  Msg(c).ok \in BOOLEAN /\ Msg(c).id \in DeltaId
<1>1. PICK p \in Partitions : \E o \in Offsets(p) : c = <<p, o>>
  BY DEF Coords
<1>2. PICK o \in Offsets(p) : c = <<p, o>>
  BY <1>1
<1>3. Log[p] \in Seq(Message) /\ o + 1 \in 1 .. Len(Log[p])
  BY <1>2, LogAssumption DEF Offsets
<1>4. Log[p][o + 1] \in Message
  BY <1>3
<1> QED
  BY <1>2, <1>4 DEF Msg, Message

(* Updating one partition of one worker keeps a table's type. *)
LEMMA NestedUpdate ==
  ASSUME NEW T, NEW f \in [Workers -> [Partitions -> T]],
         NEW w \in Workers, NEW p \in Partitions, NEW e \in T
  PROVE  [f EXCEPT ![w][p] = e] \in [Workers -> [Partitions -> T]]
<1>1. [f[w] EXCEPT ![p] = e] \in [Partitions -> T]
  OBVIOUS
<1> QED
  BY <1>1

LEMMA TypeInit == Init => TypeOK
<1> SUFFICES ASSUME Init PROVE TypeOK
  OBVIOUS
<1>1. MaxFaults \in Nat
  BY FaultAssumption
<1> QED
  BY <1>1, ZeroDeltaType DEF Init, TypeOK, PCs, Flushing, Conts, NoTx, NotLoaded

(* Leaving the goroutine resets the worker's part of the state. *)
LEMMA TypeGone ==
  ASSUME TypeOK, NEW w \in Workers, Gone(w), UNCHANGED store,
         delivered' \subseteq Coords, faults' \in 0 .. MaxFaults
  PROVE  TypeOK'
BY ZeroDeltaType DEF TypeOK, Gone, store, PCs, Flushing, Conts, NoTx, NotLoaded

LEMMA TypeStep ==
  ASSUME TypeOK, NEW w \in Workers, Step(w)
  PROVE  TypeOK'
<1> USE DEF kafka, store, loaded, volatile, Goto, PCs, Conts, Flushing
<1>0. MaxFaults \in Nat
  BY FaultAssumption
<1>1. CASE startInput(w)
  BY <1>1, ZeroDeltaType, BookAssumption DEF TypeOK, startInput
<1>2. ASSUME NEW p \in Partitions, Assign(p, w) PROVE TypeOK'
  BY <1>0, <1>2 DEF TypeOK, Assign, Fault
<1>3. ASSUME NEW p \in Partitions, fetch(w, p) PROVE TypeOK'
  BY <1>3, CoordsMember, NoMsgType DEF TypeOK, fetch
<1>4. CASE FlushInterval(w)
  BY <1>4 DEF TypeOK, FlushInterval, BeginFlush
<1>5. CASE FlushOtherPartition(w)
  BY <1>5 DEF TypeOK, FlushOtherPartition, BeginFlush, SwitchesPartition
<1>6. CASE ensureProgress(w)
  <2> DEFINE p == cur[w][1]
  <2>1. p \in Partitions
    BY <1>6, CoordsParts DEF TypeOK, ensureProgress
  <2>2. LoadedDelta(w, cursor[p]) \in DeltaId
    BY <2>1 DEF TypeOK, LoadedDelta, DeltaId, OptId, BookCursor, Nil
  <2>3. durable[p] \in Nat \cup {-1, NotLoaded}
    BY <2>1 DEF TypeOK
  <2> HIDE DEF p
  <2>4. durLoc' \in [Workers -> [Partitions -> Nat \cup {-1, NotLoaded}]]
    BY <1>6, <2>1, <2>3, NestedUpdate DEF TypeOK, ensureProgress, LoadStreamWriteProgress, p
  <2>5. lastDelta' \in [Workers -> [Partitions -> DeltaId]]
    <3>1. lastDelta \in [Workers -> [Partitions -> DeltaId]]
      BY DEF TypeOK
    <3>2. [lastDelta EXCEPT ![w][p] = LoadedDelta(w, cursor[p])] \in [Workers -> [Partitions -> DeltaId]]
      BY <2>1, <2>2, <3>1, NestedUpdate
    <3>3. lastDelta' \in {lastDelta, [lastDelta EXCEPT ![w][p] = LoadedDelta(w, cursor[p])]}
      BY <1>6 DEF ensureProgress, LoadStreamWriteProgress, p
    <3> QED
      BY <3>1, <3>2, <3>3
  <2>6. reset' \in [Workers -> BookCursor]
    BY <1>6, ZeroDeltaType DEF TypeOK, ensureProgress
  <2> QED
    BY <1>6, <2>4, <2>5, <2>6 DEF TypeOK, ensureProgress
<1>7. ASSUME NEW b \in BOOLEAN, cur[w] # NoMsg, AddPending(w, b),
             UNCHANGED <<kafka, store, stop, tx, delivered, faults>>,
             pc[w] = "msg",
             durLoc' \in [Workers -> [Partitions -> Nat \cup {-1, NotLoaded}]],
             lastDelta' \in [Workers -> [Partitions -> DeltaId]],
             reset' \in [Workers -> BookCursor]
      PROVE  TypeOK'
  <2>1. [at |-> cur[w], fact |-> b] \in Record
    BY <1>7 DEF TypeOK, Record
  <2>2. /\ Append(pending[w], [at |-> cur[w], fact |-> b]) \in Seq(Record)
        /\ Append(pending[w], [at |-> cur[w], fact |-> b]) # <<>>
    <3> DEFINE e == [at |-> cur[w], fact |-> b]
    <3>1. pending[w] \in Seq(Record) /\ e \in Record
      BY <2>1 DEF TypeOK
    <3> HIDE DEF e
    <3>2. Append(pending[w], e) \in Seq(Record) /\ Append(pending[w], e) # <<>>
      BY <3>1, AppendProperties
    <3> QED
      BY <3>2 DEF e
  <2>3. pending' \in [Workers -> Seq(Record)] /\ pending'[w] # <<>>
    BY <1>7, <2>2 DEF TypeOK, AddPending
  <2>4. \A v \in Workers \ {w} : pending'[v] = pending[v]
    BY <1>7 DEF TypeOK, AddPending
  <2> QED
    <3>1. pc' \in [Workers -> PCs] /\ pc'[w] \in {"fetch", "write"}
      BY <1>7 DEF TypeOK, AddPending, BeginFlush
    <3>2. cont' \in [Workers -> Conts] /\ (pc'[w] = "write" => cont'[w] = "fetch")
      BY <1>7 DEF TypeOK, AddPending, BeginFlush
    <3>3. cur' \in [Workers -> Coords \cup {NoMsg}]
      BY <1>7 DEF TypeOK, AddPending
    <3>4. \A v \in Workers \ {w} : pc'[v] = pc[v] /\ cont'[v] = cont[v] /\ cur'[v] = cur[v]
      BY <1>7 DEF TypeOK, AddPending, BeginFlush
    <3>5. pc[w] = "msg" /\ tx[w] = NoTx
      BY <1>7 DEF TypeOK
    <3> QED
      BY <1>7, <2>3, <2>4, <3>1, <3>2, <3>3, <3>4, <3>5 DEF TypeOK
<1>8. CASE prepareReplay(w)
  BY <1>7, <1>8 DEF TypeOK, prepareReplay, Preparing
<1>9. CASE prepareFact(w)
  <2> DEFINE p == cur[w][1]
             advance == IsDelta => checkDeltaContinuity(lastDelta[w][p], Msg(cur[w]).id)
  <2>1. cur[w] \in Coords /\ cur[w] # NoMsg /\ pc[w] = "msg"
    BY <1>9 DEF TypeOK, prepareFact, Preparing
  <2>2. p \in Partitions /\ Msg(cur[w]).id \in DeltaId
    BY <2>1, CoordsParts, MsgType
  <2>3. advance \in BOOLEAN
    OBVIOUS
  <2>4. lastDelta' \in [Workers -> [Partitions -> DeltaId]]
    BY <1>9, <2>2, NestedUpdate DEF TypeOK, prepareFact
  <2>5. AddPending(w, advance)
    BY <1>9 DEF prepareFact
  <2> HIDE DEF advance
  <2> QED
    BY <1>7, <1>9, <2>1, <2>3, <2>4, <2>5 DEF TypeOK, prepareFact
<1>10. CASE prepareBad(w)
  BY <1>10 DEF TypeOK, prepareBad, Preparing, BeginFlush
<1>11. CASE WriteBegin(w)
  <2>1. Final(w)[1] \in Partitions
    BY <1>11, FinalType DEF TypeOK, WriteBegin
  <2>2. durable[Final(w)[1]] \in Nat \cup {-1}
    BY <2>1 DEF TypeOK
  <2> QED
    BY <1>11, <2>2 DEF TypeOK, WriteBegin, NoTx
<1>12. ASSUME WriteFactBatch(w), NEW l \in {"write", "commit"}, Goto(w, l)
       PROVE  TypeOK'
  <2>1. Final(w)[1] \in Partitions /\ Final(w)[2] \in Nat
    BY <1>12, FinalType DEF TypeOK, WriteFactBatch
  <2>2. [lastDelta[w][Final(w)[1]] EXCEPT !.first = Nil] \in DeltaId
    <3> DEFINE d == lastDelta[w][Final(w)[1]]
    <3>1. d \in DeltaId
      BY <2>1 DEF TypeOK
    <3> HIDE DEF d
    <3>2. [d EXCEPT !.first = Nil] \in DeltaId
      BY <3>1 DEF DeltaId, OptId
    <3> QED
      BY <3>2 DEF d
  <2>3. /\ durable' \in [Partitions -> Nat \cup {-1}]
        /\ cursor' \in [Partitions -> DeltaId]
    BY <1>12, <2>1, <2>2 DEF TypeOK, WriteFactBatch
  <2>4. facts' \in [Coords -> Nat]
    BY <1>12 DEF TypeOK, WriteFactBatch
  <2> QED
    BY <1>12, <2>3, <2>4 DEF TypeOK, WriteFactBatch
<1>13. CASE WriteAcked(w) \/ WriteUnacked(w)
  BY <1>12, <1>13 DEF WriteAcked, WriteUnacked
<1>14. CASE WriteRollback(w)
  BY <1>14 DEF TypeOK, WriteRollback
<1>15. CASE CommitAcked(w)
  BY <1>15, FinalType DEF TypeOK, CommitAcked, Commit
<1>16. CASE CommitUnacked(w)
  BY <1>16, FinalType DEF TypeOK, CommitUnacked, Commit
<1>17. CASE FlushDone(w)
  <2>1. delivered' \subseteq Coords
    BY <1>17, FactRecordsType DEF TypeOK, FlushDone
  <2>2. Final(w)[1] \in Partitions /\ Final(w)[2] \in Nat
    BY <1>17, FinalType DEF TypeOK, FlushDone
  <2>3. CASE cont[w] = "exit"
    BY <1>17, <2>1, <2>3, TypeGone DEF TypeOK, FlushDone
  <2>4. CASE cont[w] # "exit"
    <3>1. durLoc' \in [Workers -> [Partitions -> Nat \cup {-1, NotLoaded}]]
      <4> DEFINE T == Nat \cup {-1, NotLoaded}
      <4>1. durLoc \in [Workers -> [Partitions -> T]] /\ Final(w)[2] \in T
        BY <2>2 DEF TypeOK
      <4> HIDE DEF T
      <4>2. [durLoc EXCEPT ![w][Final(w)[1]] = Final(w)[2]] \in [Workers -> [Partitions -> T]]
        BY <2>2, <4>1, NestedUpdate
      <4> QED
        BY <1>17, <2>4, <4>2 DEF FlushDone, T
    <3>2. pending' \in [Workers -> Seq(Record)] /\ UNCHANGED <<cur, tx>>
      <4>1. pending' = [pending EXCEPT ![w] = <<>>] /\ UNCHANGED <<cur, tx>>
        BY <1>17, <2>4 DEF FlushDone
      <4>2. pending \in [Workers -> Seq(Record)] /\ <<>> \in Seq(Record)
        BY DEF TypeOK
      <4> QED
        BY <4>1, <4>2
    <3>3. pc' \in [Workers -> PCs] /\ pc'[w] = cont[w]
          /\ cont' \in [Workers -> Conts]
      <4>1. /\ pc' = [pc EXCEPT ![w] = cont[w]]
            /\ cont' = [cont EXCEPT ![w] = "fetch"]
        BY <1>17, <2>4 DEF FlushDone
      <4>2. cont[w] \in {"fetch", "msg", "poison"}
        BY <2>4 DEF TypeOK
      <4> QED
        BY <4>1, <4>2 DEF TypeOK
    <3>4. \A v \in Workers \ {w} :
            pc'[v] = pc[v] /\ cont'[v] = cont[v] /\ pending'[v] = pending[v]
      BY <1>17, <2>4 DEF TypeOK, FlushDone
    <3>5. cont[w] \in {"fetch", "msg", "poison"} /\ tx[w] = NoTx
          /\ (cont[w] \in {"msg", "poison"} => cur[w] # NoMsg)
      BY <1>17, <2>4 DEF TypeOK, FlushDone
    <3> QED
      BY <1>17, <2>1, <2>4, <3>1, <3>2, <3>3, <3>4, <3>5 DEF TypeOK, FlushDone
  <2> QED
    BY <2>3, <2>4
<1>18. CASE WritePoisonRecord(w)
  BY <1>18 DEF TypeOK, WritePoisonRecord
<1>19. CASE PoisonFailed(w)
  BY <1>19 DEF TypeOK, PoisonFailed
<1>20. CASE CommitPoison(w)
  <2>1. cur[w] \in Coords
    BY <1>20 DEF TypeOK, CommitPoison
  <2>2. cur[w][1] \in Partitions /\ cur[w][2] + 1 \in Nat
    BY <2>1, CoordsParts
  <2>3. committed' \in [Partitions -> Nat]
    BY <1>20, <2>2 DEF TypeOK, CommitPoison, Commit
  <2> QED
    BY <1>20, <2>3 DEF TypeOK, CommitPoison
<1>21. CASE stopInput(w)
  BY <1>0, <1>21 DEF TypeOK, stopInput, Fault
<1>22. CASE Leave(w)
  BY <1>22, TypeGone DEF TypeOK, Leave, BeginFlush
<1>23. CASE Crash(w)
  BY <1>0, <1>23, TypeGone DEF TypeOK, Crash, Fault
<1> QED
  BY <1>1, <1>2, <1>3, <1>4, <1>5, <1>6, <1>8, <1>9, <1>10, <1>11, <1>13,
     <1>14, <1>15, <1>16, <1>17, <1>18, <1>19, <1>20, <1>21, <1>22, <1>23 DEF Step

(***************************************************************************)
(* The types above hold in every reachable state of consume, flushBatch    *)
(* and WriteFactBatch, and so does what the program counter promises: a    *)
(* record in hand where prepare and the dead-letter path need one, a batch *)
(* that is not empty inside flushBatch, the row lock exactly inside the    *)
(* transaction.                                                            *)
(***************************************************************************)
THEOREM TypeCorrect == Spec => []TypeOK
<1>1. TypeOK /\ [Next]_vars => TypeOK'
  <2> SUFFICES ASSUME TypeOK, [Next]_vars PROVE TypeOK'
    OBVIOUS
  <2>1. CASE Next
    BY <2>1, TypeStep DEF Next
  <2>2. CASE UNCHANGED vars
    BY <2>2 DEF TypeOK, vars, kafka, store, volatile, loaded, Flushing
  <2> QED
    BY <2>1, <2>2
<1> QED
  BY <1>1, TypeInit, PTL DEF Spec

-----------------------------------------------------------------------------
(* Two transactions never hold the progress row of one partition. *)
RowLockExclusive ==
  \A v, w \in Workers :
    tx[v] # NoTx /\ tx[w] # NoTx /\ v # w => Final(v)[1] # Final(w)[1]

(* What a transaction read under the lock is still the durable offset. *)
RowLockReads ==
  \A w \in Workers : tx[w] # NoTx => tx[w] = durable[Final(w)[1]]

(* Rows exist up to the durable offset, one each. *)
RowsUpToDurable ==
  \A c \in Coords : facts[c] <= 1 /\ (facts[c] > 0 => c[2] <= durable[c[1]])

(* A batch past validation stays valid, and past the write it is durable. *)
BatchSettled ==
  \A w \in Workers :
    /\ pc[w] \in {"tx", "commit", "notify"} => validateFactBatch(w)
    /\ pc[w] \in {"commit", "notify"} => Final(w)[2] <= durable[Final(w)[1]]

StoreInv ==
  /\ RowLockExclusive
  /\ RowLockReads
  /\ RowsUpToDurable
  /\ BatchSettled
  /\ DeliveredAreDurable

LEMMA StoreInit == Init => StoreInv
BY DEF Init, StoreInv, RowLockExclusive, RowLockReads, RowsUpToDurable,
       BatchSettled, DeliveredAreDurable

(* Steps that touch neither the store nor a batch that is being written. *)
Quiet ==
  /\ UNCHANGED <<durable, facts, delivered>>
  /\ \A v \in Workers :
       /\ tx'[v] # NoTx => tx'[v] = tx[v] /\ pending'[v] = pending[v]
       /\ pc'[v] \in {"tx", "commit", "notify"} =>
            /\ pending'[v] = pending[v]
            /\ pc'[v] = pc[v] \/ (pc[v] = "commit" /\ pc'[v] = "notify")

LEMMA QuietStep ==
  ASSUME StoreInv, Quiet
  PROVE  StoreInv'
<1> USE DEF StoreInv, Quiet
<1>1. RowLockExclusive'
  BY DEF RowLockExclusive, Final
<1>2. RowLockReads'
  BY DEF RowLockReads, Final
<1>3. RowsUpToDurable'
  BY DEF RowsUpToDurable
<1>4. BatchSettled'
  BY DEF BatchSettled, validateFactBatch, Final, FactIdx
<1>5. DeliveredAreDurable'
  BY DEF DeliveredAreDurable
<1> QED
  BY <1>1, <1>2, <1>3, <1>4, <1>5

LEMMA StoreWriteBegin ==
  ASSUME TypeOK, StoreInv, NEW w \in Workers, WriteBegin(w)
  PROVE  StoreInv'
<1> USE DEF StoreInv
<1>1. /\ UNCHANGED <<durable, facts, delivered, pending>>
      /\ tx' = [tx EXCEPT ![w] = durable[Final(w)[1]]]
      /\ pc' = [pc EXCEPT ![w] = "tx"]
      /\ validateFactBatch(w)
      /\ \A v \in Workers : tx[v] # NoTx => Final(v)[1] # Final(w)[1]
  BY DEF WriteBegin, Goto, RowFree, store
<1>2. \A v \in Workers : Final(v)' = Final(v) /\ validateFactBatch(v)' = validateFactBatch(v)
  BY <1>1 DEF Final, validateFactBatch, FactIdx
<1>3. tx \in [Workers -> Nat \cup {-1, NoTx}] /\ pc \in [Workers -> PCs]
  BY DEF TypeOK
<1>4. RowLockExclusive'
  BY <1>1, <1>2, <1>3 DEF RowLockExclusive
<1>5. RowLockReads'
  BY <1>1, <1>2, <1>3 DEF RowLockReads
<1>6. RowsUpToDurable' /\ DeliveredAreDurable'
  BY <1>1 DEF RowsUpToDurable, DeliveredAreDurable
<1>7. BatchSettled'
  BY <1>1, <1>2, <1>3 DEF BatchSettled
<1> QED
  BY <1>4, <1>5, <1>6, <1>7

(* What the transaction does to the tables, whether its answer arrives or   *)
(* not: progress moves forward in one partition, and rows appear between    *)
(* the old and the new durable offset of that partition.                    *)
LEMMA WriteEffect ==
  ASSUME TypeOK, StoreInv, NEW w \in Workers, WriteFactBatch(w)
  PROVE  LET p == Final(w)[1] IN
         /\ p \in Partitions
         /\ \A q \in Partitions : durable[q] <= durable'[q]
         /\ \A q \in Partitions \ {p} : durable'[q] = durable[q]
         /\ Final(w)[2] <= durable'[p]
         /\ \A c \in Coords :
              \/ facts'[c] = facts[c]
              \/ /\ facts'[c] = facts[c] + 1
                 /\ c[1] = p /\ durable[p] < c[2] /\ c[2] <= durable'[p]
<1> DEFINE p == Final(w)[1]
           o == Final(w)[2]
<1>1. pc[w] = "tx" /\ tx[w] # NoTx /\ pending[w] # <<>>
  BY DEF WriteFactBatch, TypeOK, Flushing
<1>2. p \in Partitions /\ o \in Nat
  BY <1>1, FinalType
<1>3. tx[w] = durable[p] /\ durable \in [Partitions -> Nat \cup {-1}] /\ facts \in [Coords -> Nat]
  BY <1>1 DEF StoreInv, RowLockReads, TypeOK
<1>4. CASE o <= tx[w]
  BY <1>2, <1>3, <1>4 DEF WriteFactBatch
<1>5. CASE ~(o <= tx[w])
  <2>1. /\ durable' = [durable EXCEPT ![p] = o]
        /\ facts' = [c \in Coords |-> facts[c] + (IF c \in NewRows(w) THEN 1 ELSE 0)]
    BY <1>5 DEF WriteFactBatch
  <2>2. ASSUME NEW c \in NewRows(w) PROVE c[1] = p /\ c[2] > tx[w] /\ c[2] <= o
    <3>1. c \in AfterOffset(w)
      BY <2>2 DEF NewRows, writeTradesTx, writeOrderBookDeltasCopy
    <3>2. validateFactBatch(w)
      BY <1>1 DEF StoreInv, BatchSettled
    <3> QED
      BY <3>1, <3>2 DEF AfterOffset, FactRecords, validateFactBatch
  <2> HIDE DEF p, o
  <2>3. \A q \in Partitions : durable[q] <= durable'[q]
    BY <1>2, <1>3, <1>5, <2>1
  <2>4. durable'[p] = o /\ \A q \in Partitions \ {p} : durable'[q] = durable[q]
    BY <1>2, <1>3, <2>1
  <2>5. ASSUME NEW c \in Coords
        PROVE  \/ facts'[c] = facts[c]
               \/ /\ facts'[c] = facts[c] + 1
                  /\ c[1] = p /\ durable[p] < c[2] /\ c[2] <= durable'[p]
    <3>1. CASE c \in NewRows(w)
      BY <1>2, <1>3, <2>1, <2>2, <2>4, <3>1, CoordsParts
    <3>2. CASE c \notin NewRows(w)
      BY <1>3, <2>1, <3>2
    <3> QED
      BY <3>1, <3>2
  <2> QED
    BY <1>2, <2>3, <2>4, <2>5 DEF p, o
<1> QED
  BY <1>4, <1>5

LEMMA StoreWrite ==
  ASSUME TypeOK, StoreInv, NEW w \in Workers, WriteFactBatch(w),
         NEW l \in {"write", "commit"}, Goto(w, l)
  PROVE  StoreInv'
<1> DEFINE p == Final(w)[1]
<1>1. /\ p \in Partitions
      /\ \A q \in Partitions : durable[q] <= durable'[q]
      /\ \A q \in Partitions \ {p} : durable'[q] = durable[q]
      /\ Final(w)[2] <= durable'[p]
      /\ \A c \in Coords :
           \/ facts'[c] = facts[c]
           \/ /\ facts'[c] = facts[c] + 1
              /\ c[1] = p /\ durable[p] < c[2] /\ c[2] <= durable'[p]
  BY WriteEffect
<1>2. /\ UNCHANGED <<delivered, pending>>
      /\ tx' = [tx EXCEPT ![w] = NoTx]
      /\ pc' = [pc EXCEPT ![w] = l]
      /\ pc[w] = "tx" /\ tx[w] # NoTx
  BY DEF WriteFactBatch, Goto, TypeOK
<1>3. \A v \in Workers : Final(v)' = Final(v) /\ validateFactBatch(v)' = validateFactBatch(v)
  BY <1>2 DEF Final, validateFactBatch, FactIdx
<1>4. /\ tx \in [Workers -> Nat \cup {-1, NoTx}] /\ pc \in [Workers -> PCs]
      /\ durable \in [Partitions -> Nat \cup {-1}] /\ facts \in [Coords -> Nat]
      /\ durable' \in [Partitions -> Nat \cup {-1}] /\ delivered \subseteq Coords
  <2>1. TypeOK'
    <3>1. Step(w)
      BY DEF Step, WriteAcked, WriteUnacked
    <3> QED
      BY <3>1, TypeStep
  <2> QED
    BY <2>1 DEF TypeOK
<1>5. \A v \in Workers :
        pc[v] \in Flushing => Final(v)[1] \in Partitions /\ Final(v)[2] \in Nat
  BY FinalType DEF TypeOK
<1>6. RowLockExclusive'
  BY <1>2, <1>3, <1>4 DEF RowLockExclusive, StoreInv
<1>7. RowLockReads'
  <2> SUFFICES ASSUME NEW v \in Workers, tx'[v] # NoTx
               PROVE  tx'[v] = durable'[Final(v)[1]]
    BY <1>3 DEF RowLockReads
  <2>1. v # w /\ tx'[v] = tx[v] /\ tx[v] # NoTx
    BY <1>2, <1>4
  <2>2. Final(v)[1] # p /\ tx[v] = durable[Final(v)[1]]
    BY <1>2, <2>1 DEF RowLockExclusive, RowLockReads, StoreInv
  <2>3. Final(v)[1] \in Partitions
    BY <1>5, <2>1 DEF TypeOK, Flushing
  <2> QED
    BY <1>1, <2>1, <2>2, <2>3
<1>8. RowsUpToDurable'
  <2> SUFFICES ASSUME NEW c \in Coords
               PROVE  facts'[c] <= 1 /\ (facts'[c] > 0 => c[2] <= durable'[c[1]])
    BY DEF RowsUpToDurable
  <2>1. c[1] \in Partitions /\ c[2] \in Nat /\ facts[c] \in Nat
        /\ facts[c] <= 1 /\ (facts[c] > 0 => c[2] <= durable[c[1]])
    BY <1>4, CoordsParts DEF RowsUpToDurable, StoreInv
  <2> QED
    BY <1>1, <1>4, <2>1
<1>9. BatchSettled'
  <2> SUFFICES ASSUME NEW v \in Workers
               PROVE  /\ pc'[v] \in {"tx", "commit", "notify"} => validateFactBatch(v)
                      /\ pc'[v] \in {"commit", "notify"} =>
                           Final(v)[2] <= durable'[Final(v)[1]]
    BY <1>3 DEF BatchSettled
  <2>1. CASE v = w
    BY <1>1, <1>2, <1>4, <2>1 DEF BatchSettled, StoreInv
  <2>2. CASE v # w
    <3>1. pc'[v] = pc[v]
      BY <1>2, <1>4, <2>2
    <3>2. ASSUME pc[v] \in {"commit", "notify"}
          PROVE  Final(v)[2] <= durable'[Final(v)[1]]
      BY <1>1, <1>4, <1>5, <3>2 DEF BatchSettled, StoreInv, Flushing
    <3> QED
      BY <3>1, <3>2 DEF BatchSettled, StoreInv
  <2> QED
    BY <2>1, <2>2
<1>10. DeliveredAreDurable'
  <2> SUFFICES ASSUME NEW c \in delivered PROVE c[2] <= durable'[c[1]]
    BY <1>2 DEF DeliveredAreDurable
  <2>1. c[1] \in Partitions /\ c[2] \in Nat /\ c[2] <= durable[c[1]]
    BY <1>4, CoordsParts DEF DeliveredAreDurable, StoreInv
  <2> QED
    BY <1>1, <1>4, <2>1
<1> QED
  BY <1>6, <1>7, <1>8, <1>9, <1>10 DEF StoreInv

LEMMA StoreFlushDone ==
  ASSUME TypeOK, StoreInv, NEW w \in Workers, FlushDone(w)
  PROVE  StoreInv'
<1>1. pc[w] = "notify" /\ tx[w] = NoTx /\ pending[w] # <<>>
  BY DEF FlushDone, TypeOK, Flushing
<1>2. /\ UNCHANGED <<durable, facts>>
      /\ delivered' \subseteq delivered \cup FactRecords(w)
      /\ tx'[w] = NoTx /\ pc'[w] \notin {"tx", "commit", "notify"}
      /\ \A v \in Workers \ {w} : tx'[v] = tx[v] /\ pc'[v] = pc[v] /\ pending'[v] = pending[v]
  <2>1. CASE cont[w] = "exit"
    BY <1>1, <2>1 DEF FlushDone, Gone, TypeOK, store
  <2>2. CASE cont[w] # "exit"
    BY <1>1, <2>2 DEF FlushDone, Goto, TypeOK, store, Conts
  <2> QED
    BY <2>1, <2>2
<1>3. \A c \in FactRecords(w) : c[2] <= durable[c[1]]
  <2> SUFFICES ASSUME NEW i \in FactIdx(w)
               PROVE  pending[w][i].at[2] <= durable[pending[w][i].at[1]]
    BY DEF FactRecords
  <2>1. /\ pending[w][i].at[1] = Final(w)[1] /\ pending[w][i].at[2] <= Final(w)[2]
        /\ Final(w)[2] <= durable[Final(w)[1]]
    BY <1>1 DEF StoreInv, BatchSettled, validateFactBatch
  <2>2. pending[w][i].at \in Coords
    BY FactRecordsType DEF FactRecords
  <2>3. pending[w][i].at[2] \in Nat /\ Final(w)[1] \in Partitions /\ Final(w)[2] \in Nat
    BY <1>1, <2>2, CoordsParts, FinalType
  <2>4. durable[Final(w)[1]] \in Nat \cup {-1}
    BY <2>3 DEF TypeOK
  <2> QED
    BY <2>1, <2>3, <2>4
<1>4. DeliveredAreDurable'
  BY <1>2, <1>3 DEF DeliveredAreDurable, StoreInv
<1>5. RowLockExclusive' /\ RowLockReads'
  BY <1>2 DEF RowLockExclusive, RowLockReads, StoreInv, Final
<1>6. RowsUpToDurable'
  BY <1>2 DEF RowsUpToDurable, StoreInv
<1>7. BatchSettled'
  BY <1>2 DEF BatchSettled, StoreInv, validateFactBatch, FactIdx, Final
<1> QED
  BY <1>4, <1>5, <1>6, <1>7 DEF StoreInv

LEMMA StoreStep ==
  ASSUME TypeOK, StoreInv, NEW w \in Workers, Step(w)
  PROVE  StoreInv'
<1> USE DEF TypeOK, store, loaded, volatile, Goto, Quiet
<1>1. CASE startInput(w)
  BY <1>1, QuietStep DEF startInput
<1>2. ASSUME NEW p \in Partitions, Assign(p, w) PROVE StoreInv'
  BY <1>2, QuietStep DEF Assign
<1>3. ASSUME NEW p \in Partitions, fetch(w, p) PROVE StoreInv'
  BY <1>3, QuietStep DEF fetch
<1>4. CASE FlushInterval(w)
  BY <1>4, QuietStep DEF FlushInterval, BeginFlush
<1>5. CASE FlushOtherPartition(w)
  BY <1>5, QuietStep DEF FlushOtherPartition, BeginFlush
<1>6. CASE ensureProgress(w)
  BY <1>6, QuietStep DEF ensureProgress
<1>7. CASE prepareReplay(w)
  BY <1>7, QuietStep DEF prepareReplay, Preparing, AddPending, BeginFlush
<1>8. CASE prepareFact(w)
  BY <1>8, QuietStep DEF prepareFact, Preparing, AddPending, BeginFlush
<1>9. CASE prepareBad(w)
  BY <1>9, QuietStep DEF prepareBad, BeginFlush
<1>10. CASE WriteBegin(w)
  BY <1>10, StoreWriteBegin
<1>11. CASE WriteAcked(w) \/ WriteUnacked(w)
  BY <1>11, StoreWrite DEF WriteAcked, WriteUnacked
<1>12. CASE WriteRollback(w)
  BY <1>12, QuietStep DEF WriteRollback
<1>13. CASE CommitAcked(w)
  BY <1>13, QuietStep DEF CommitAcked
<1>14. CASE CommitUnacked(w)
  BY <1>14, QuietStep DEF CommitUnacked
<1>15. CASE FlushDone(w)
  BY <1>15, StoreFlushDone
<1>16. CASE WritePoisonRecord(w) \/ PoisonFailed(w) \/ CommitPoison(w)
  BY <1>16, QuietStep DEF WritePoisonRecord, PoisonFailed, CommitPoison
<1>17. CASE stopInput(w)
  BY <1>17, QuietStep DEF stopInput
<1>18. CASE Leave(w)
  BY <1>18, QuietStep DEF Leave, Gone, BeginFlush
<1>19. CASE Crash(w)
  BY <1>19, QuietStep DEF Crash, Gone
<1> QED
  BY <1>1, <1>2, <1>3, <1>4, <1>5, <1>6, <1>7, <1>8, <1>9, <1>10, <1>11, <1>12,
     <1>13, <1>14, <1>15, <1>16, <1>17, <1>18, <1>19 DEF Step

LEMMA StoreInvariant == Spec => [](TypeOK /\ StoreInv)
<1>1. TypeOK /\ StoreInv /\ [Next]_vars => (TypeOK /\ StoreInv)'
  <2> SUFFICES ASSUME TypeOK, StoreInv, [Next]_vars PROVE TypeOK' /\ StoreInv'
    OBVIOUS
  <2>1. CASE Next
    BY <2>1, TypeStep, StoreStep DEF Next
  <2>2. CASE UNCHANGED vars
    <3>1. TypeOK'
      BY <2>2 DEF TypeOK, vars, kafka, store, volatile, loaded, Flushing
    <3>2. Quiet
      BY <2>2 DEF Quiet, vars, store, volatile
    <3> QED
      BY <3>1, <3>2, QuietStep
  <2> QED
    BY <2>1, <2>2
<1> QED
  BY <1>1, TypeInit, StoreInit, PTL DEF Spec

(***************************************************************************)
(* WriteFactBatch's promise, for any number of concurrent workers, any log *)
(* and any pattern of crashes, rebalances, retries and lost answers: no    *)
(* Kafka record has two rows.  The delta table has no unique key, so this  *)
(* rests on the locked progress row and the validation of the batch alone. *)
(***************************************************************************)
THEOREM NoDuplicateFacts == Spec => []FactsAtMostOnce
<1>1. StoreInv => FactsAtMostOnce
  BY DEF StoreInv, RowsUpToDurable, FactsAtMostOnce
<1> QED
  BY <1>1, StoreInvariant, PTL

(***************************************************************************)
(* onDeltaApplied is only called for deltas whose offset is durable: the   *)
(* order book never gets ahead of stream_write_progress.                   *)
(***************************************************************************)
THEOREM BookFedFromDurable == Spec => []DeliveredAreDurable
<1>1. StoreInv => DeliveredAreDurable
  BY DEF StoreInv
<1> QED
  BY <1>1, StoreInvariant, PTL

(* Every step of a worker but the end of its transaction leaves facts and   *)
(* progress as they are.                                                    *)
LEMMA OnlyWritesMoveStore ==
  ASSUME NEW w \in Workers, Step(w)
  PROVE  WriteFactBatch(w) \/ UNCHANGED <<durable, facts>>
BY DEF Step, startInput, Assign, fetch, FlushInterval, FlushOtherPartition,
       ensureProgress, prepareReplay, prepareFact, prepareBad, WriteBegin, WriteAcked,
       WriteUnacked, WriteRollback, CommitAcked, CommitUnacked, FlushDone,
       WritePoisonRecord, PoisonFailed, CommitPoison, stopInput, Leave, Crash, store

(***************************************************************************)
(* Rows and progress move in one transaction: a row of a record appears    *)
(* only in the step that moves its partition's durable offset from below   *)
(* the record to the record or past it, and no step moves a durable offset *)
(* back, whichever of two workers writes last.                             *)
(***************************************************************************)
THEOREM AtomicProgress == Spec => FactsMoveWithProgress
<1> DEFINE A == /\ \A p \in Partitions : durable[p] <= durable'[p]
                /\ \A c \in Coords : facts'[c] # facts[c] =>
                     durable[c[1]] < c[2] /\ c[2] <= durable'[c[1]]
<1>1. TypeOK /\ StoreInv /\ [Next]_vars => [A]_vars
  <2> SUFFICES ASSUME TypeOK, StoreInv, NEW w \in Workers, Step(w) PROVE A
    BY DEF Next
  <2>1. CASE WriteFactBatch(w)
    BY <2>1, WriteEffect
  <2>2. CASE UNCHANGED <<durable, facts>>
    <3>1. \A p \in Partitions : durable[p] \in Int
      BY DEF TypeOK
    <3> QED
      BY <2>2, <3>1
  <2> QED
    BY <2>1, <2>2, OnlyWritesMoveStore
<1> QED
  BY <1>1, StoreInvariant, PTL DEF Spec, FactsMoveWithProgress

===============================================================================
