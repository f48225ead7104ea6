---------------------------- MODULE FactStoreProofs ----------------------------
(***************************************************************************)
(* Proofs that FactIngest keeps the promises of FactStore: what Kafka is   *)
(* told is durable, what is durable is stored or superseded, and every     *)
(* step of the workers is a step of the abstract copy or none.             *)
(***************************************************************************)
EXTENDS FactIngestProofs, WellFoundedInduction

(* Every fact of a partition before an offset is durable. *)
Clear(p, n) ==
  \A c \in Coords : c[1] = p /\ c[2] < n /\ Decodes(c) => c[2] <= durable[p]

(* The open batch of a worker ends just before an offset, or later. *)
BatchReaches(w, p, n) ==
  pending[w] # <<>> /\ Final(w)[1] = p /\ n <= Final(w)[2] + 1

(* The records of a batch are of one partition. *)
OnePartition(w) ==
  \A i \in DOMAIN pending[w] : pending[w][i].at[1] = pending[w][1].at[1]

(* Where the loop has, or comes back to, no record in hand. *)
EmptyHanded(w) ==
  pc[w] \in {"off", "fetch"} \/ (pc[w] \in Flushing /\ cont[w] = "fetch")
    => cur[w] = NoMsg

(* The dead-letter path has a record that does not decode, and no batch. *)
PoisonIsBad(w) ==
  /\ pc[w] \in {"poison", "poisonCommit"} => pending[w] = <<>> /\ ~Decodes(cur[w])
  /\ pc[w] \in Flushing /\ cont[w] = "poison" => ~Decodes(cur[w])

(* No fact lies between what is durable, or in the batch, and the record in *)
(* hand.                                                                    *)
CurFollows(w) ==
  cur[w] # NoMsg =>
    Clear(cur[w][1], cur[w][2]) \/ BatchReaches(w, cur[w][1], cur[w][2])

(* Nor between those and what the owner of a partition fetches next. *)
PosFollows(w) ==
  \A p \in Partitions :
    owner[p] = w =>
      \/ Clear(p, pos[p])
      \/ cur[w] # NoMsg /\ cur[w][1] = p /\ pos[p] <= cur[w][2] + 1
      \/ (cur[w] = NoMsg \/ cur[w][1] # p) /\ BatchReaches(w, p, pos[p])

LoopInv(w) ==
  /\ OnePartition(w)
  /\ EmptyHanded(w)
  /\ PoisonIsBad(w)
  /\ CurFollows(w)
  /\ PosFollows(w)

OrderInv == CommittedIsDurable /\ \A w \in Workers : LoopInv(w)

LEMMA CommittedIsClear == CommittedIsDurable <=> \A p \in Partitions : Clear(p, committed[p])
BY CoordsParts DEF CommittedIsDurable, Clear

LEMMA OrderInit == Init => OrderInv
<1> SUFFICES ASSUME Init PROVE OrderInv
  OBVIOUS
<1>1. CommittedIsDurable
  BY CoordsParts DEF Init, CommittedIsDurable
<1>2. \A w \in Workers : LoopInv(w)
  BY WorkersAssumption
     DEF Init, LoopInv, OnePartition, EmptyHanded, PoisonIsBad, CurFollows, PosFollows, Flushing
<1> QED
  BY <1>1, <1>2 DEF OrderInv

-----------------------------------------------------------------------------
(* What a step of one worker leaves to the others. *)

LEMMA DurableGrows ==
  ASSUME TypeOK, StoreInv, NEW w \in Workers, Step(w)
  PROVE  \A p \in Partitions : durable[p] <= durable'[p]
<1>1. \A p \in Partitions : durable[p] \in Int
  BY DEF TypeOK
<1> QED
  BY <1>1, OnlyWritesMoveStore, WriteEffect

LEMMA ClearGrows ==
  ASSUME TypeOK, TypeOK', \A q \in Partitions : durable[q] <= durable'[q],
         NEW p \in Partitions, NEW n, Clear(p, n)
  PROVE  Clear(p, n)'
<1>1. durable[p] \in Int /\ durable'[p] \in Int
  BY DEF TypeOK
<1> QED
  BY <1>1, CoordsParts DEF Clear, Decodes, Msg, Coords, Offsets

LEMMA OthersKeep ==
  ASSUME TypeOK, NEW w \in Workers, Step(w), NEW v \in Workers, v # w
  PROVE  /\ pc'[v] = pc[v] /\ cont'[v] = cont[v] /\ cur'[v] = cur[v]
         /\ pending'[v] = pending[v] /\ durLoc'[v] = durLoc[v]
         /\ lastDelta'[v] = lastDelta[v] /\ reset'[v] = reset[v]
         /\ \A p \in Partitions : owner'[p] = v => owner[p] = v /\ pos'[p] = pos[p]
<1> USE WorkersAssumption DEF TypeOK, kafka, loaded, volatile, Goto, BeginFlush, Gone, AddPending
<1>1. CASE startInput(w)
  BY <1>1 DEF startInput
<1>2. CASE \E p \in Partitions : Assign(p, w) \/ fetch(w, p)
  BY <1>2 DEF Assign, fetch
<1>3. CASE FlushInterval(w) \/ FlushOtherPartition(w) \/ ensureProgress(w)
  BY <1>3 DEF FlushInterval, FlushOtherPartition, ensureProgress
<1>4. CASE prepareReplay(w) \/ prepareFact(w) \/ prepareBad(w)
  BY <1>4 DEF prepareReplay, prepareFact, prepareBad
<1>5. CASE WriteBegin(w) \/ WriteAcked(w) \/ WriteUnacked(w) \/ WriteRollback(w)
  BY <1>5 DEF WriteBegin, WriteAcked, WriteUnacked, WriteRollback, WriteFactBatch
<1>6. CASE CommitAcked(w) \/ CommitUnacked(w)
  BY <1>6 DEF CommitAcked, CommitUnacked
<1>7. CASE FlushDone(w)
  BY <1>7 DEF FlushDone
<1>8. CASE WritePoisonRecord(w) \/ PoisonFailed(w) \/ CommitPoison(w)
  BY <1>8 DEF WritePoisonRecord, PoisonFailed, CommitPoison
<1>9. CASE stopInput(w) \/ Leave(w) \/ Crash(w)
  BY <1>9 DEF stopInput, Leave, Crash
<1> QED
  BY <1>1, <1>2, <1>3, <1>4, <1>5, <1>6, <1>7, <1>8, <1>9 DEF Step

(* A worker whose loop stands still follows on while others make progress. *)
LEMMA LoopStill ==
  ASSUME TypeOK, TypeOK', \A q \in Partitions : durable[q] <= durable'[q],
         NEW v \in Workers, CurFollows(v), PosFollows(v),
         cur'[v] = cur[v], pending'[v] = pending[v],
         \A p \in Partitions : owner'[p] = v => owner[p] = v /\ pos'[p] = pos[p]
  PROVE  CurFollows(v)' /\ PosFollows(v)'
<1>1. cur[v] # NoMsg => cur[v][1] \in Partitions
  BY CoordsParts DEF TypeOK
<1>2. \A p, n : BatchReaches(v, p, n)' = BatchReaches(v, p, n)
  BY DEF BatchReaches, Final
<1>3. CurFollows(v)'
  <2> SUFFICES ASSUME cur[v] # NoMsg
               PROVE  Clear(cur[v][1], cur[v][2])' \/ BatchReaches(v, cur[v][1], cur[v][2])
    BY <1>2 DEF CurFollows
  <2> QED
    BY <1>1, ClearGrows DEF CurFollows
<1>4. PosFollows(v)'
  <2> SUFFICES ASSUME NEW p \in Partitions, owner'[p] = v
               PROVE  \/ Clear(p, pos[p])'
                      \/ cur[v] # NoMsg /\ cur[v][1] = p /\ pos[p] <= cur[v][2] + 1
                      \/ (cur[v] = NoMsg \/ cur[v][1] # p) /\ BatchReaches(v, p, pos[p])
    BY <1>2 DEF PosFollows
  <2>1. owner[p] = v /\ pos'[p] = pos[p]
    OBVIOUS
  <2> DEFINE n == pos[p]
  <2>2. Clear(p, n) => Clear(p, n)'
    BY ClearGrows
  <2> QED
    BY <2>1, <2>2 DEF PosFollows
<1> QED
  BY <1>3, <1>4

LEMMA OthersFollow ==
  ASSUME TypeOK, TypeOK', StoreInv, NEW w \in Workers, Step(w),
         NEW v \in Workers, v # w, LoopInv(v)
  PROVE  LoopInv(v)'
<1>1. /\ pc'[v] = pc[v] /\ cont'[v] = cont[v] /\ cur'[v] = cur[v]
      /\ pending'[v] = pending[v]
      /\ \A p \in Partitions : owner'[p] = v => owner[p] = v /\ pos'[p] = pos[p]
  BY OthersKeep
<1>2. OnePartition(v)' /\ EmptyHanded(v)' /\ PoisonIsBad(v)'
  BY <1>1 DEF LoopInv, OnePartition, EmptyHanded, PoisonIsBad, Decodes, Msg
<1>3. CurFollows(v)' /\ PosFollows(v)'
  BY <1>1, DurableGrows, LoopStill DEF LoopInv
<1> QED
  BY <1>2, <1>3 DEF LoopInv

-----------------------------------------------------------------------------
(* The worker's own steps. *)

LEMMA LoopGone ==
  ASSUME TypeOK, NEW w \in Workers, Gone(w)
  PROVE  LoopInv(w)'
<1>1. /\ pc'[w] = "off" /\ cur'[w] = NoMsg /\ pending'[w] = <<>>
      /\ \A p \in Partitions : owner'[p] # w
  BY WorkersAssumption DEF TypeOK, Gone
<1> QED
  BY <1>1 DEF LoopInv, OnePartition, EmptyHanded, PoisonIsBad, CurFollows, PosFollows, Flushing

(* Steps that only move the program counter, or only the store. *)
LEMMA LoopInPlace ==
  ASSUME TypeOK, TypeOK', NEW w \in Workers, LoopInv(w),
         \A q \in Partitions : durable[q] <= durable'[q],
         cur'[w] = cur[w], pending'[w] = pending[w],
         UNCHANGED <<owner, pos>>, EmptyHanded(w)', PoisonIsBad(w)'
  PROVE  LoopInv(w)'
<1>1. OnePartition(w)'
  BY DEF LoopInv, OnePartition
<1>2. CurFollows(w)' /\ PosFollows(w)'
  BY LoopStill DEF LoopInv
<1> QED
  BY <1>1, <1>2 DEF LoopInv

LEMMA LoopAssign ==
  ASSUME TypeOK, TypeOK', CommittedIsDurable, NEW w \in Workers, LoopInv(w),
         NEW p \in Partitions, Assign(p, w)
  PROVE  LoopInv(w)'
<1>1. /\ UNCHANGED <<pc, cont, cur, pending, durable, committed>>
      /\ owner' = [owner EXCEPT ![p] = w] /\ pos' = [pos EXCEPT ![p] = committed[p]]
  BY DEF Assign, volatile, store
<1>2. OnePartition(w)' /\ EmptyHanded(w)' /\ PoisonIsBad(w)'
  BY <1>1 DEF LoopInv, OnePartition, EmptyHanded, PoisonIsBad, Decodes, Msg
<1>3. \A q, n : Clear(q, n)' = Clear(q, n) /\ BatchReaches(w, q, n)' = BatchReaches(w, q, n)
  BY <1>1 DEF Clear, BatchReaches, Final, Decodes, Msg, Coords, Offsets
<1>4. CurFollows(w)'
  BY <1>1, <1>3 DEF LoopInv, CurFollows
<1>5. PosFollows(w)'
  <2> SUFFICES ASSUME NEW q \in Partitions, owner'[q] = w
               PROVE  \/ Clear(q, pos'[q])
                      \/ cur[w] # NoMsg /\ cur[w][1] = q /\ pos'[q] <= cur[w][2] + 1
                      \/ (cur[w] = NoMsg \/ cur[w][1] # q) /\ BatchReaches(w, q, pos'[q])
    BY <1>1, <1>3 DEF PosFollows
  <2>1. CASE q = p
    BY <1>1, <2>1, CommittedIsClear DEF TypeOK
  <2>2. CASE q # p
    BY <1>1, <2>2 DEF TypeOK, LoopInv, PosFollows
  <2> QED
    BY <2>1, <2>2
<1> QED
  BY <1>2, <1>4, <1>5 DEF LoopInv

LEMMA LoopFetch ==
  ASSUME TypeOK, TypeOK', NEW w \in Workers, LoopInv(w),
         NEW p \in Partitions, fetch(w, p)
  PROVE  LoopInv(w)'
<1>1. /\ pc[w] = "fetch" /\ owner[p] = w
      /\ UNCHANGED <<pending, durable, owner>>
      /\ cur' = [cur EXCEPT ![w] = <<p, pos[p]>>]
      /\ pos' = [pos EXCEPT ![p] = @ + 1]
      /\ pc'[w] = "msg"
      /\ pos[p] \in Nat /\ <<p, pos[p]>> \in Coords
  BY CoordsMember DEF fetch, store, Goto, TypeOK
<1>2. cur[w] = NoMsg /\ cur'[w] = <<p, pos[p]>> /\ cur'[w] # NoMsg
  BY <1>1, NoMsgType DEF TypeOK, LoopInv, EmptyHanded
<1>3. OnePartition(w)' /\ EmptyHanded(w)' /\ PoisonIsBad(w)'
  BY <1>1 DEF LoopInv, OnePartition, EmptyHanded, PoisonIsBad, Flushing
<1>4. \A q, n : Clear(q, n)' = Clear(q, n) /\ BatchReaches(w, q, n)' = BatchReaches(w, q, n)
  BY <1>1 DEF Clear, BatchReaches, Final, Decodes, Msg, Coords, Offsets
<1>5. CurFollows(w)'
  <2>1. Clear(p, pos[p]) \/ BatchReaches(w, p, pos[p])
    BY <1>1, <1>2 DEF LoopInv, PosFollows
  <2> QED
    BY <1>2, <1>4, <2>1 DEF CurFollows
<1>6. PosFollows(w)'
  <2> SUFFICES ASSUME NEW q \in Partitions, owner[q] = w
               PROVE  \/ Clear(q, pos'[q])
                      \/ cur'[w] # NoMsg /\ cur'[w][1] = q /\ pos'[q] <= cur'[w][2] + 1
                      \/ (cur'[w] = NoMsg \/ cur'[w][1] # q) /\ BatchReaches(w, q, pos'[q])
    BY <1>1, <1>4 DEF PosFollows
  <2>1. CASE q = p
    BY <1>1, <1>2, <2>1 DEF TypeOK
  <2>2. CASE q # p
    BY <1>1, <1>2, <2>2 DEF TypeOK, LoopInv, PosFollows
  <2> QED
    BY <2>1, <2>2
<1> QED
  BY <1>3, <1>5, <1>6 DEF LoopInv

(* What appending the record in hand does to the batch. *)
LEMMA Appended ==
  ASSUME TypeOK, NEW w \in Workers, NEW b \in BOOLEAN, cur[w] \in Coords, AddPending(w, b)
  PROVE  /\ cur'[w] = NoMsg
         /\ Len(pending[w]) \in Nat
         /\ DOMAIN pending[w] = 1 .. Len(pending[w])
         /\ DOMAIN pending'[w] = 1 .. Len(pending[w]) + 1
         /\ Len(pending'[w]) = Len(pending[w]) + 1
         /\ \A i \in DOMAIN pending[w] : pending'[w][i] = pending[w][i]
         /\ pending'[w][Len(pending[w]) + 1] = [at |-> cur[w], fact |-> b]
         /\ pending'[w] # <<>>
         /\ Final(w)' = cur[w]
<1> DEFINE e == [at |-> cur[w], fact |-> b]
           s == pending[w]
<1>1. s \in Seq(Record) /\ e \in Record
  BY DEF TypeOK, Record
<1>2. pending'[w] = Append(s, e) /\ cur'[w] = NoMsg
  BY DEF AddPending, TypeOK
<1> HIDE DEF e, s
<1>3. /\ Append(s, e) \in Seq(Record) /\ Append(s, e) # <<>>
      /\ Len(Append(s, e)) = Len(s) + 1
      /\ \A i \in 1 .. Len(s) : Append(s, e)[i] = s[i]
      /\ Append(s, e)[Len(s) + 1] = e
  BY <1>1, AppendProperties
<1>4. Len(s) \in Nat /\ DOMAIN s = 1 .. Len(s) /\ DOMAIN Append(s, e) = 1 .. Len(s) + 1
  BY <1>1, <1>3
<1>5. Final(w)' = cur[w]
  BY <1>2, <1>3 DEF Final, e
<1> QED
  BY <1>2, <1>3, <1>4, <1>5 DEF e, s

LEMMA FirstIsFinal ==
  ASSUME TypeOK, NEW w \in Workers, OnePartition(w), pending[w] # <<>>
  PROVE  /\ \A i \in DOMAIN pending[w] : pending[w][i].at[1] = Final(w)[1]
         /\ pending[w][1].at[1] = Final(w)[1]
<1>1. pending[w] \in Seq(Record) /\ Len(pending[w]) \in DOMAIN pending[w]
  BY DEF TypeOK
<1> QED
  BY <1>1 DEF OnePartition, Final

LEMMA LoopAppend ==
  ASSUME TypeOK, TypeOK', NEW w \in Workers, LoopInv(w), NEW b \in BOOLEAN,
         Preparing(w), AddPending(w, b), UNCHANGED <<owner, pos, durable>>
  PROVE  LoopInv(w)'
<1>1. cur[w] \in Coords /\ cur[w] # NoMsg /\ ~SwitchesPartition(w) /\ pc[w] = "msg"
  BY DEF Preparing, TypeOK
<1>2. /\ cur'[w] = NoMsg
      /\ Len(pending[w]) \in Nat
      /\ DOMAIN pending[w] = 1 .. Len(pending[w])
      /\ DOMAIN pending'[w] = 1 .. Len(pending[w]) + 1
      /\ \A i \in DOMAIN pending[w] : pending'[w][i] = pending[w][i]
      /\ pending'[w][Len(pending[w]) + 1] = [at |-> cur[w], fact |-> b]
      /\ pending'[w] # <<>>
      /\ Final(w)' = cur[w]
  BY <1>1, Appended
<1>3. pending[w] # <<>> => Final(w)[1] = cur[w][1] /\ \A i \in DOMAIN pending[w] : pending[w][i].at[1] = cur[w][1]
  BY <1>1, FirstIsFinal DEF SwitchesPartition, LoopInv
<1>4. OnePartition(w)'
  <2>1. \A i \in DOMAIN pending[w] : pending'[w][i].at[1] = cur[w][1]
    <3>1. DOMAIN pending[w] # {} => pending[w] # <<>>
      OBVIOUS
    <3> QED
      BY <1>2, <1>3, <3>1
  <2>2. \A i \in DOMAIN pending'[w] : pending'[w][i].at[1] = cur[w][1]
    BY <1>2, <2>1
  <2>3. 1 \in DOMAIN pending'[w]
    BY <1>2
  <2> QED
    BY <2>2, <2>3 DEF OnePartition
<1>5. pc'[w] = "fetch" \/ (pc'[w] = "write" /\ cont'[w] = "fetch")
  BY DEF AddPending, BeginFlush, Goto, TypeOK
<1>6. EmptyHanded(w)' /\ PoisonIsBad(w)' /\ CurFollows(w)'
  BY <1>2, <1>5 DEF EmptyHanded, PoisonIsBad, CurFollows, Flushing
<1>7. PosFollows(w)'
  <2> SUFFICES ASSUME NEW p \in Partitions, owner[p] = w
               PROVE  Clear(p, pos[p])' \/ BatchReaches(w, p, pos[p])'
    BY <1>2 DEF PosFollows
  <2>1. CASE Clear(p, pos[p])
    BY <2>1 DEF Clear, Decodes, Msg, Coords, Offsets
  <2>2. CASE cur[w][1] = p /\ pos[p] <= cur[w][2] + 1
    BY <1>2, <2>2 DEF BatchReaches
  <2>3. ~(cur[w][1] # p /\ BatchReaches(w, p, pos[p]))
    BY <1>3 DEF BatchReaches
  <2> QED
    BY <1>1, <2>1, <2>2, <2>3 DEF LoopInv, PosFollows
<1> QED
  BY <1>4, <1>6, <1>7 DEF LoopInv

(* The batch is durable when it is closed, and so is all it reached. *)
LEMMA LoopFlushDone ==
  ASSUME TypeOK, TypeOK', StoreInv, NEW w \in Workers, LoopInv(w), FlushDone(w)
  PROVE  LoopInv(w)'
<1>1. pc[w] = "notify" /\ pending[w] # <<>> /\ UNCHANGED durable
  BY DEF FlushDone, TypeOK, Flushing, store
<1>2. CASE cont[w] = "exit"
  BY <1>2, LoopGone DEF FlushDone
<1>3. CASE cont[w] # "exit"
  <2>1. /\ pending'[w] = <<>> /\ pc'[w] = cont[w] /\ cont'[w] = "fetch"
        /\ UNCHANGED <<owner, pos, cur>>
    BY <1>3 DEF FlushDone, Goto, kafka, TypeOK
  <2>2. cont[w] \in {"fetch", "msg", "poison"}
    BY <1>3 DEF TypeOK, Conts
  <2>3. OnePartition(w)' /\ EmptyHanded(w)' /\ PoisonIsBad(w)'
    BY <1>1, <2>1, <2>2 DEF LoopInv, OnePartition, EmptyHanded, PoisonIsBad, Flushing, Decodes, Msg
  <2>4. \A p \in Partitions, n \in Nat : BatchReaches(w, p, n) => Clear(p, n)
    <3> SUFFICES ASSUME NEW n \in Nat, n <= Final(w)[2] + 1,
                        NEW c \in Coords, c[1] = Final(w)[1], c[2] < n
                 PROVE  c[2] <= durable[Final(w)[1]]
      BY DEF BatchReaches, Clear
    <3>1. Final(w)[2] <= durable[Final(w)[1]] /\ Final(w)[1] \in Partitions /\ Final(w)[2] \in Nat
      BY <1>1, FinalType DEF StoreInv, BatchSettled
    <3>2. durable[Final(w)[1]] \in Int /\ c[2] \in Nat
      BY <3>1, CoordsParts DEF TypeOK
    <3> QED
      BY <3>1, <3>2
  <2>5. \A p, n : Clear(p, n)' = Clear(p, n)
    BY <1>1 DEF Clear, Decodes, Msg, Coords, Offsets
  <2>6. cur[w] # NoMsg => cur[w][1] \in Partitions /\ cur[w][2] \in Nat
    BY CoordsParts DEF TypeOK
  <2>7. CurFollows(w)'
    BY <2>1, <2>4, <2>5, <2>6 DEF LoopInv, CurFollows
  <2>8. PosFollows(w)'
    BY <2>1, <2>4, <2>5 DEF LoopInv, PosFollows, TypeOK
  <2> QED
    BY <2>3, <2>7, <2>8 DEF LoopInv
<1> QED
  BY <1>2, <1>3

(* All before a dead letter is durable, and with the dead letter itself. *)
LEMMA PoisonIsClear ==
  ASSUME TypeOK, NEW w \in Workers, LoopInv(w), pc[w] \in {"poison", "poisonCommit"}
  PROVE  /\ cur[w] \in Coords /\ cur[w][1] \in Partitions /\ cur[w][2] \in Nat
         /\ pending[w] = <<>>
         /\ Clear(cur[w][1], cur[w][2] + 1)
<1>1. cur[w] \in Coords /\ cur[w] # NoMsg /\ pending[w] = <<>> /\ ~Decodes(cur[w])
  BY DEF TypeOK, LoopInv, PoisonIsBad
<1>2. cur[w][1] \in Partitions /\ cur[w][2] \in Nat /\ cur[w] = <<cur[w][1], cur[w][2]>>
  BY <1>1, CoordsParts
<1>3. Clear(cur[w][1], cur[w][2])
  BY <1>1 DEF LoopInv, CurFollows, BatchReaches
<1>4. Clear(cur[w][1], cur[w][2] + 1)
  <2> SUFFICES ASSUME NEW c \in Coords, c[1] = cur[w][1], c[2] < cur[w][2] + 1, Decodes(c)
               PROVE  c[2] < cur[w][2]
    BY <1>3 DEF Clear
  <2>1. c[2] \in Nat /\ c = <<c[1], c[2]>>
    BY CoordsParts
  <2> QED
    BY <1>1, <1>2, <2>1
<1> QED
  BY <1>1, <1>2, <1>4

LEMMA LoopPoisonDone ==
  ASSUME TypeOK, TypeOK', NEW w \in Workers, LoopInv(w), pc[w] \in {"poison", "poisonCommit"},
         pc' = [pc EXCEPT ![w] = "fetch"], cur' = [cur EXCEPT ![w] = NoMsg],
         UNCHANGED <<owner, pos, pending, durable>>
  PROVE  LoopInv(w)'
<1>1. /\ cur[w] \in Coords /\ cur[w][1] \in Partitions /\ cur[w][2] \in Nat
      /\ pending[w] = <<>>
      /\ Clear(cur[w][1], cur[w][2] + 1)
  BY PoisonIsClear
<1>2. pc'[w] = "fetch" /\ cur'[w] = NoMsg
  BY DEF TypeOK
<1>3. OnePartition(w)' /\ EmptyHanded(w)' /\ PoisonIsBad(w)' /\ CurFollows(w)'
  BY <1>1, <1>2 DEF OnePartition, EmptyHanded, PoisonIsBad, CurFollows, Flushing
<1>4. PosFollows(w)'
  <2> SUFFICES ASSUME NEW p \in Partitions, owner[p] = w
               PROVE  Clear(p, pos[p])'
    BY <1>2 DEF PosFollows
  <2>1. ~BatchReaches(w, p, pos[p])
    BY <1>1 DEF BatchReaches
  <2>2. Clear(p, pos[p]) \/ (cur[w][1] = p /\ pos[p] <= cur[w][2] + 1)
    BY <2>1 DEF LoopInv, PosFollows
  <2>3. pos[p] \in Nat /\ \A c \in Coords : c[2] \in Nat
    BY CoordsParts DEF TypeOK
  <2>4. Clear(p, pos[p])
    BY <1>1, <2>2, <2>3 DEF Clear
  <2> QED
    BY <2>4 DEF Clear, Decodes, Msg, Coords, Offsets
<1> QED
  BY <1>3, <1>4 DEF LoopInv

LEMMA LoopStep ==
  ASSUME TypeOK, TypeOK', StoreInv, OrderInv, NEW w \in Workers, Step(w)
  PROVE  LoopInv(w)'
<1> USE DEF kafka, store, loaded, volatile, Goto
<1>0. LoopInv(w) /\ CommittedIsDurable /\ (\A q \in Partitions : durable[q] <= durable'[q])
      /\ pc \in [Workers -> PCs] /\ cont \in [Workers -> Conts]
  BY DurableGrows DEF OrderInv, TypeOK
<1>a. EmptyHanded(w) /\ PoisonIsBad(w)
  BY <1>0 DEF LoopInv
<1>1. CASE startInput(w)
  <2>1. EmptyHanded(w)' /\ PoisonIsBad(w)'
    BY <1>0, <1>a, <1>1 DEF startInput, EmptyHanded, PoisonIsBad, Flushing
  <2> QED
    BY <1>0, <1>1, <2>1, LoopInPlace DEF startInput
<1>2. ASSUME NEW p \in Partitions, Assign(p, w) PROVE LoopInv(w)'
  BY <1>0, <1>2, LoopAssign
<1>3. ASSUME NEW p \in Partitions, fetch(w, p) PROVE LoopInv(w)'
  BY <1>0, <1>3, LoopFetch
<1>4. CASE FlushInterval(w)
  <2>1. EmptyHanded(w)' /\ PoisonIsBad(w)'
    BY <1>0, <1>a, <1>4 DEF FlushInterval, BeginFlush, EmptyHanded, PoisonIsBad, Flushing
  <2> QED
    BY <1>0, <1>4, <2>1, LoopInPlace DEF FlushInterval
<1>5. CASE FlushOtherPartition(w)
  <2>1. EmptyHanded(w)' /\ PoisonIsBad(w)'
    BY <1>0, <1>a, <1>5 DEF FlushOtherPartition, BeginFlush, EmptyHanded, PoisonIsBad, Flushing
  <2> QED
    BY <1>0, <1>5, <2>1, LoopInPlace DEF FlushOtherPartition
<1>6. CASE ensureProgress(w)
  <2>1. EmptyHanded(w)' /\ PoisonIsBad(w)'
    BY <1>0, <1>a, <1>6 DEF ensureProgress, EmptyHanded, PoisonIsBad, Flushing
  <2> QED
    BY <1>0, <1>6, <2>1, LoopInPlace DEF ensureProgress
<1>7. CASE prepareReplay(w)
  BY <1>0, <1>7, LoopAppend DEF prepareReplay
<1>8. CASE prepareFact(w)
  BY <1>0, <1>8, LoopAppend DEF prepareFact
<1>9. CASE prepareBad(w)
  <2>1. EmptyHanded(w)' /\ PoisonIsBad(w)'
    BY <1>0, <1>a, <1>9 DEF prepareBad, Preparing, BeginFlush, EmptyHanded, PoisonIsBad, Flushing, Decodes, Msg
  <2> QED
    BY <1>0, <1>9, <2>1, LoopInPlace DEF prepareBad
<1>10. CASE WriteBegin(w) \/ WriteRollback(w)
  <2>1. EmptyHanded(w)' /\ PoisonIsBad(w)'
    BY <1>0, <1>a, <1>10 DEF WriteBegin, WriteRollback, EmptyHanded, PoisonIsBad, Flushing, Decodes, Msg
  <2> QED
    BY <1>0, <1>10, <2>1, LoopInPlace DEF WriteBegin, WriteRollback
<1>11. CASE WriteAcked(w) \/ WriteUnacked(w)
  <2>1. EmptyHanded(w)' /\ PoisonIsBad(w)'
    BY <1>0, <1>a, <1>11 DEF WriteAcked, WriteUnacked, WriteFactBatch, EmptyHanded, PoisonIsBad, Flushing, Decodes, Msg
  <2> QED
    BY <1>0, <1>11, <2>1, LoopInPlace DEF WriteAcked, WriteUnacked, WriteFactBatch
<1>12. CASE CommitAcked(w) \/ CommitUnacked(w)
  <2>1. EmptyHanded(w)' /\ PoisonIsBad(w)'
    BY <1>0, <1>a, <1>12 DEF CommitAcked, CommitUnacked, EmptyHanded, PoisonIsBad, Flushing, Decodes, Msg
  <2> QED
    BY <1>0, <1>12, <2>1, LoopInPlace DEF CommitAcked, CommitUnacked
<1>13. CASE FlushDone(w)
  BY <1>0, <1>13, LoopFlushDone
<1>14. CASE WritePoisonRecord(w)
  <2>1. EmptyHanded(w)' /\ PoisonIsBad(w)'
    BY <1>0, <1>a, <1>14 DEF WritePoisonRecord, EmptyHanded, PoisonIsBad, Flushing, Decodes, Msg
  <2> QED
    BY <1>0, <1>14, <2>1, LoopInPlace DEF WritePoisonRecord
<1>15. CASE PoisonFailed(w) \/ CommitPoison(w)
  BY <1>0, <1>15, LoopPoisonDone DEF PoisonFailed, CommitPoison
<1>16. CASE stopInput(w)
  <2>1. EmptyHanded(w)' /\ PoisonIsBad(w)'
    BY <1>0, <1>a, <1>16 DEF stopInput, EmptyHanded, PoisonIsBad, Flushing, Decodes, Msg
  <2> QED
    BY <1>0, <1>16, <2>1, LoopInPlace DEF stopInput
<1>17. CASE Leave(w)
  <2>1. CASE Gone(w)
    BY <2>1, LoopGone
  <2>2. CASE BeginFlush(w, "exit") /\ UNCHANGED <<kafka, stop, cur, pending, tx, loaded>>
    <3>1. EmptyHanded(w)' /\ PoisonIsBad(w)'
      BY <1>0, <1>a, <2>2 DEF BeginFlush, EmptyHanded, PoisonIsBad, Flushing
    <3> QED
      BY <1>0, <2>2, <3>1, LoopInPlace
  <2> QED
    BY <1>17, <2>1, <2>2 DEF Leave
<1>18. CASE Crash(w)
  BY <1>18, LoopGone DEF Crash
<1> QED
  BY <1>1, <1>2, <1>3, <1>4, <1>5, <1>6, <1>7, <1>8, <1>9, <1>10, <1>11, <1>12,
     <1>13, <1>14, <1>15, <1>16, <1>17, <1>18 DEF Step

(* Kafka is told of a batch that was written or of a dead letter. *)
LEMMA CommitSteps ==
  ASSUME NEW w \in Workers, Step(w)
  PROVE  \/ UNCHANGED committed
         \/ pc[w] = "commit" /\ Commit(Final(w)) /\ UNCHANGED <<durable, facts, delivered>>
         \/ pc[w] = "poisonCommit" /\ Commit(cur[w]) /\ UNCHANGED <<durable, facts, delivered>>
BY DEF Step, startInput, Assign, fetch, FlushInterval, FlushOtherPartition,
       ensureProgress, prepareReplay, prepareFact, prepareBad, WriteBegin, WriteAcked,
       WriteUnacked, WriteRollback, WriteFactBatch, CommitAcked, CommitUnacked, FlushDone,
       WritePoisonRecord, PoisonFailed, CommitPoison, stopInput, Leave, Crash, Gone, kafka, store

(* All before the end of a batch that is past its write is durable. *)
LEMMA WrittenIsClear ==
  ASSUME TypeOK, StoreInv, NEW w \in Workers, pc[w] = "commit"
  PROVE  /\ Final(w) \in Coords /\ Final(w)[1] \in Partitions /\ Final(w)[2] \in Nat
         /\ Clear(Final(w)[1], Final(w)[2] + 1)
<1>1. pending[w] # <<>> /\ Final(w)[2] <= durable[Final(w)[1]]
  BY DEF TypeOK, Flushing, StoreInv, BatchSettled
<1>2. Final(w) \in Coords /\ Final(w)[1] \in Partitions /\ Final(w)[2] \in Nat
  BY <1>1, FinalType
<1>3. durable[Final(w)[1]] \in Int
  BY <1>2 DEF TypeOK
<1> QED
  BY <1>1, <1>2, <1>3, CoordsParts DEF Clear

LEMMA CommittedStep ==
  ASSUME TypeOK, TypeOK', StoreInv, OrderInv, NEW w \in Workers, Step(w)
  PROVE  CommittedIsDurable'
<1>0. SUFFICES \A p \in Partitions : Clear(p, committed'[p])
  <2>1. \A p \in Partitions : Clear(p, committed[p])'
    BY <1>0, ClearGrows, DurableGrows
  <2> QED
    BY <2>1, CoordsParts DEF CommittedIsDurable, Clear, Decodes, Msg, Coords, Offsets
<1> SUFFICES ASSUME NEW p \in Partitions PROVE Clear(p, committed'[p])
  OBVIOUS
<1>1. Clear(p, committed[p])
  BY CommittedIsClear DEF OrderInv
<1>2. ASSUME NEW c \in Coords, c[1] \in Partitions, Clear(c[1], c[2] + 1), Commit(c)
      PROVE  Clear(p, committed'[p])
  BY <1>1, <1>2 DEF Commit, TypeOK
<1>3. CASE pc[w] = "commit" /\ Commit(Final(w))
  BY <1>2, <1>3, WrittenIsClear
<1>4. CASE pc[w] = "poisonCommit" /\ Commit(cur[w])
  BY <1>2, <1>4, PoisonIsClear DEF OrderInv
<1> QED
  BY <1>1, <1>3, <1>4, CommitSteps

LEMMA OrderInvariant == Spec => [](TypeOK /\ StoreInv /\ OrderInv)
<1>1. TypeOK /\ StoreInv /\ TypeOK' /\ OrderInv /\ [Next]_vars => OrderInv'
  <2> SUFFICES ASSUME TypeOK, StoreInv, TypeOK', OrderInv, [Next]_vars PROVE OrderInv'
    OBVIOUS
  <2>1. ASSUME NEW w \in Workers, Step(w) PROVE OrderInv'
    <3>1. \A v \in Workers : LoopInv(v)'
      <4> SUFFICES ASSUME NEW v \in Workers PROVE LoopInv(v)'
        OBVIOUS
      <4>1. CASE v = w
        BY <2>1, <4>1, LoopStep
      <4>2. CASE v # w
        BY <2>1, <4>2, OthersFollow DEF OrderInv
      <4> QED
        BY <4>1, <4>2
    <3>2. CommittedIsDurable'
      BY <2>1, CommittedStep
    <3> QED
      BY <3>1, <3>2 DEF OrderInv
  <2>2. CASE UNCHANGED vars
    BY <2>2 DEF OrderInv, CommittedIsDurable, LoopInv, OnePartition, EmptyHanded, PoisonIsBad,
         CurFollows, PosFollows, Clear, BatchReaches, Final, Decodes, Msg, Coords, Offsets,
         vars, kafka, store, volatile
  <2> QED
    BY <2>1, <2>2 DEF Next
<1> QED
  BY <1>1, StoreInvariant, OrderInit, PTL DEF Spec

(***************************************************************************)
(* At-least-once delivery, for any workers, logs and faults: the offset    *)
(* Kafka resumes a partition at never passes a record that decodes and is  *)
(* not covered by stream_write_progress.  Both callers of CommitMessages   *)
(* are safe: flushBatch commits after WriteFactBatch, and the dead-letter  *)
(* path flushes the batch in front of the bad record first.  A worker that *)
(* lost its partition in a rebalance and commits late only moves Kafka to  *)
(* an offset that was safe already.                                        *)
(***************************************************************************)
THEOREM AtLeastOnce == Spec => []CommittedIsDurable
<1>1. OrderInv => CommittedIsDurable
  BY DEF OrderInv
<1> QED
  BY <1>1, OrderInvariant, PTL

-----------------------------------------------------------------------------
(***************************************************************************)
(* What is durable is stored or superseded.                                *)
(*                                                                         *)
(* checkDeltaContinuity looks at the previous accepted delta alone.  That  *)
(* is enough when the ids of a stream order its deltas: a delta that is    *)
(* stale after a stale one is stale after what superseded that one.  It is *)
(* not enough when a raw id comes back with another terminal, nor when the *)
(* worker starts from an order book that a reference snapshot moved.       *)
(***************************************************************************)
Identified ==
  IsDelta =>
    /\ BookCursors = {}
    /\ \A c, d, e \in Coords :
         /\ Decodes(c) /\ Decodes(d) /\ Decodes(e)
         /\ Supersedes(c, d) /\ Supersedes(d, e)
         => Supersedes(c, e)

(* Streams that are identified: every delta of a partition has a terminal   *)
(* update id or sequence, and a raw id comes back with its terminal only.   *)
OrderedIds ==
  \A c, d \in Coords :
    Decodes(c) /\ Decodes(d) /\ c[1] = d[1] =>
      /\ deltaTerminal(Msg(c).id) # Nil
      /\ Msg(c).id.raw # Nil /\ Msg(c).id.raw = Msg(d).id.raw =>
           deltaTerminal(Msg(c).id) = deltaTerminal(Msg(d).id)

LEMMA OrderedIdsIdentify == BookCursors = {} /\ OrderedIds => Identified
<1> SUFFICES ASSUME BookCursors = {}, OrderedIds, IsDelta,
                    NEW c \in Coords, NEW d \in Coords, NEW e \in Coords,
                    Decodes(c), Decodes(d), Decodes(e), Supersedes(c, d), Supersedes(d, e)
             PROVE  Supersedes(c, e)
  BY DEF Identified
<1> DEFINE T(x) == deltaTerminal(Msg(x).id)
<1>1. \A x \in Coords : T(x) \in Int /\ x[2] \in Nat
  BY MsgType, CoordsParts DEF deltaTerminal, DeltaId, OptId, Nil
<1>2. c[1] = d[1] /\ d[1] = e[1] /\ c[2] < d[2] /\ d[2] < e[2]
  BY DEF Supersedes
<1>3. T(d) <= T(c) /\ T(e) <= T(d)
  <2>1. \A x, y \in Coords : /\ Decodes(x) /\ Decodes(y) /\ x[1] = y[1]
                             /\ ~checkDeltaContinuity(Msg(x).id, Msg(y).id)
                             => T(y) <= T(x)
    <3> SUFFICES ASSUME NEW x \in Coords, NEW y \in Coords, Decodes(x), Decodes(y), x[1] = y[1],
                        ~checkDeltaContinuity(Msg(x).id, Msg(y).id)
                 PROVE  T(y) <= T(x)
      OBVIOUS
    <3>1. T(x) # Nil /\ T(y) # Nil
      BY DEF OrderedIds
    <3>2. CASE sameDeltaIdentity(Msg(x).id, Msg(y).id)
      <4>1. T(x) = T(y)
        BY <3>2 DEF sameDeltaIdentity, OrderedIds, deltaTerminal
      <4> QED
        BY <1>1, <4>1
    <3>3. CASE ~sameDeltaIdentity(Msg(x).id, Msg(y).id)
      BY <1>1, <3>1, <3>3 DEF checkDeltaContinuity
    <3> QED
      BY <3>2, <3>3
  <2> QED
    BY <2>1 DEF Supersedes
<1>4. T(c) # Nil /\ T(e) # Nil /\ ~(T(e) > T(c))
  BY <1>1, <1>3, <1>2 DEF OrderedIds
<1>5. ~checkDeltaContinuity(Msg(c).id, Msg(e).id)
  BY <1>4 DEF checkDeltaContinuity
<1> QED
  BY <1>1, <1>2, <1>5 DEF Supersedes

(* Fact records decode, in the table and in a batch. *)
RowsDecode == \A c \in Coords : facts[c] > 0 => Decodes(c)
FactsDecode(w) == \A c \in FactRecords(w) : Decodes(c)

(* A worker never believes more to be durable than is. *)
KnownDurable(w) == \A p \in Partitions : durLoc[w][p] <= durable[p]

(* A batch holds every fact between what is durable and any of its records. *)
Contiguous(w) ==
  \A i \in DOMAIN pending[w] : \A c \in Coords :
    /\ c[1] = pending[w][i].at[1] /\ c[2] <= pending[w][i].at[2]
    /\ durable[c[1]] < c[2] /\ Decodes(c)
    => \E j \in DOMAIN pending[w] : pending[w][j].at = c

(* A record is a fact of the batch, or a delta made stale by a row or by    *)
(* another fact of the batch.                                               *)
Accounted(w, c) ==
  \/ c \in FactRecords(w)
  \/ IsDelta /\ \E d \in Coords : Supersedes(d, c) /\ (facts[d] > 0 \/ d \in FactRecords(w))

Justified(w) ==
  \A i \in DOMAIN pending[w] :
    /\ Decodes(pending[w][i].at)
    /\ durable[pending[w][i].at[1]] < pending[w][i].at[2]
    => Accounted(w, pending[w][i].at)

(* A continuity baseline is the zero delta, or a delta of the partition     *)
(* that is durable or among the given ones.                                 *)
DropFirst(d) == [d EXCEPT !.first = Nil]
BaselineFrom(b, p, S) ==
  \/ b = ZeroDelta
  \/ \E d \in Coords : /\ d[1] = p /\ Decodes(d)
                       /\ b = Msg(d).id \/ b = DropFirst(Msg(d).id)
                       /\ d[2] <= durable[p] \/ d \in S

BaselineKnown(w) ==
  /\ reset[w] = NoBook
  /\ \A p \in Partitions : BaselineFrom(lastDelta[w][p], p, FactRecords(w))

CursorKnown == \A p \in Partitions : BaselineFrom(cursor[p], p, {})

BatchInv(w) ==
  /\ KnownDurable(w)
  /\ FactsDecode(w)
  /\ Contiguous(w)
  /\ Justified(w)
  /\ IsDelta => BaselineKnown(w)

CopyInv ==
  /\ RowsDecode
  /\ NoFactSkipped
  /\ IsDelta => CursorKnown
  /\ \A w \in Workers : BatchInv(w)

LEMMA EmptyBatch ==
  ASSUME NEW w \in Workers, pending[w] = <<>>
  PROVE  FactRecords(w) = {} /\ FactsDecode(w) /\ Contiguous(w) /\ Justified(w)
BY DEF FactRecords, FactIdx, FactsDecode, Contiguous, Justified

LEMMA CopyInit == Init => CopyInv
<1> SUFFICES ASSUME Init PROVE CopyInv
  OBVIOUS
<1>1. RowsDecode /\ NoFactSkipped /\ CursorKnown
  BY CoordsParts DEF Init, RowsDecode, NoFactSkipped, CursorKnown, BaselineFrom
<1>2. \A w \in Workers : pending[w] = <<>> /\ KnownDurable(w) /\ BaselineKnown(w)
  BY DEF Init, KnownDurable, BaselineKnown, BaselineFrom, NotLoaded
<1> QED
  BY <1>1, <1>2, EmptyBatch DEF CopyInv, BatchInv

(* No delta is stale after the zero delta. *)
LEMMA NewAfterZero ==
  ASSUME NEW d \in DeltaId
  PROVE  checkDeltaContinuity(ZeroDelta, d)
BY DEF checkDeltaContinuity, ZeroDelta, sameDeltaIdentity, deltaTerminal, DeltaId, OptId, Nil

(* The stored cursor has lost first_update_id, which makes no delta stale   *)
(* that would not be stale after the delta itself.                          *)
LEMMA StaleWithoutFirst ==
  ASSUME NEW a \in DeltaId, NEW b \in DeltaId, ~checkDeltaContinuity(DropFirst(a), b)
  PROVE  ~checkDeltaContinuity(a, b)
BY DEF checkDeltaContinuity, DropFirst, sameDeltaIdentity, deltaTerminal, DeltaId, OptId, Nil

LEMMA SupersedesTransitive ==
  ASSUME Identified, NEW c \in Coords, NEW d \in Coords, NEW e \in Coords,
         Decodes(c), Decodes(d), Decodes(e), Supersedes(c, d), Supersedes(d, e)
  PROVE  Supersedes(c, e)
<1>1. CASE IsDelta
  BY <1>1 DEF Identified
<1>2. CASE ~IsDelta
  BY <1>2 DEF Supersedes, SameTrade
<1> QED
  BY <1>1, <1>2

LEMMA LeastNat ==
  ASSUME NEW S, S \subseteq Nat, S # {}
  PROVE  \E m \in S : \A k \in S : m <= k
<1> DEFINE R == OpToRel(<, Nat)
<1>1. IsWellFoundedOn(R, Nat)
  BY NatLessThanWellFounded
<1>2. \A j, k \in Nat : j < k => <<j, k>> \in R
  BY DEF OpToRel
<1> HIDE DEF R
<1>3. PICK m \in S : \A k \in S : ~(<<k, m>> \in R)
  BY <1>1, WFMin
<1>4. ASSUME NEW k \in S PROVE m <= k
  <2>1. k \in Nat /\ m \in Nat /\ ~(k < m)
    <3>1. k \in Nat /\ m \in Nat
      OBVIOUS
    <3> QED
      BY <1>2, <1>3, <3>1, Zenon
  <2> QED
    BY <2>1, SMT
<1> QED
  BY <1>4

(* ON CONFLICT DO NOTHING drops a trade only for a row it leaves or adds. *)
LEMMA TradeRows ==
  ASSUME NEW rows, rows \subseteq Coords, NEW c \in rows
  PROVE  \E d \in Coords : (facts[d] > 0 \/ d \in writeTradesTx(rows)) /\ SameTrade(c, d)
<1> DEFINE S == {d \in rows : SameTrade(c, d)}
           N == {d[2] : d \in S}
<1>1. c \in S /\ N \subseteq Nat
  BY CoordsParts DEF SameTrade
<1>2. PICK n \in N : \A k \in N : n <= k
  BY <1>1, LeastNat
<1>3. PICK m \in S : m[2] = n
  OBVIOUS
<1>4. m \in Coords /\ m \in rows /\ SameTrade(c, m)
  OBVIOUS
<1>5. \A d : SameTrade(m, d) => SameTrade(c, d)
  BY <1>4 DEF SameTrade
<1>6. ASSUME NEW d \in rows, d[2] < m[2], SameTrade(m, d) PROVE FALSE
  <2>1. d \in S
    BY <1>5, <1>6
  <2>2. d[2] \in N /\ n <= d[2]
    BY <1>2, <2>1
  <2> QED
    BY <1>1, <1>3, <1>6, <2>2
<1>7. CASE \E d \in Coords : facts[d] > 0 /\ SameTrade(m, d)
  BY <1>5, <1>7
<1>8. CASE ~\E d \in Coords : facts[d] > 0 /\ SameTrade(m, d)
  <2>1. m \in writeTradesTx(rows)
    BY <1>4, <1>6, <1>8 DEF writeTradesTx
  <2> QED
    BY <1>4, <2>1
<1> QED
  BY <1>7, <1>8

-----------------------------------------------------------------------------
(* The store only grows. *)
LEMMA FactsGrow ==
  ASSUME TypeOK, StoreInv, NEW w \in Workers, Step(w)
  PROVE  \A c \in Coords : facts[c] \in Nat /\ (facts[c] > 0 => facts'[c] > 0)
<1>1. \A c \in Coords : facts[c] \in Nat
  BY DEF TypeOK
<1>2. \A c \in Coords : facts'[c] = facts[c] \/ facts'[c] = facts[c] + 1
  BY OnlyWritesMoveStore, WriteEffect
<1> QED
  BY <1>1, <1>2

LEMMA AccountedGrows ==
  ASSUME NEW w \in Workers, NEW c, Accounted(w, c),
         \A d \in Coords : facts[d] > 0 => facts'[d] > 0,
         FactRecords(w) \subseteq FactRecords(w)'
  PROVE  Accounted(w, c)'
BY DEF Accounted, Supersedes, IsDelta, SameTrade, Msg, Coords, Offsets

LEMMA BaselineGrows ==
  ASSUME TypeOK, TypeOK', \A q \in Partitions : durable[q] <= durable'[q],
         NEW b, NEW p \in Partitions, NEW S, NEW T, BaselineFrom(b, p, S),
         \A d \in S : d[1] = p => d \in T \/ d[2] <= durable'[p]
  PROVE  BaselineFrom(b, p, T)'
<1>1. CASE b = ZeroDelta
  BY <1>1 DEF BaselineFrom
<1>2. CASE b # ZeroDelta
  <2>1. PICK d \in Coords : /\ d[1] = p /\ Decodes(d)
                            /\ b = Msg(d).id \/ b = DropFirst(Msg(d).id)
                            /\ d[2] <= durable[p] \/ d \in S
    BY <1>2 DEF BaselineFrom
  <2>2. d[2] \in Nat /\ durable[p] \in Int /\ durable'[p] \in Int
    BY CoordsParts DEF TypeOK
  <2>3. d[2] <= durable'[p] \/ d \in T
    BY <2>1, <2>2
  <2> QED
    BY <2>1, <2>3 DEF BaselineFrom, Decodes, Msg, Coords, Offsets
<1> QED
  BY <1>1, <1>2

(* The types that the parts of a batch and of the store have. *)
LEMMA BatchTypes ==
  ASSUME TypeOK, NEW w \in Workers
  PROVE  /\ DOMAIN pending[w] = 1 .. Len(pending[w]) /\ Len(pending[w]) \in Nat
         /\ \A i \in DOMAIN pending[w] :
              /\ pending[w][i].at \in Coords
              /\ pending[w][i].at[1] \in Partitions /\ pending[w][i].at[2] \in Nat
         /\ \A p \in Partitions : durable[p] \in Int /\ durLoc[w][p] \in Int
<1>1. pending[w] \in Seq(Record)
  BY DEF TypeOK
<1>2. \A i \in DOMAIN pending[w] : pending[w][i].at \in Coords
  <2>1. \A i \in DOMAIN pending[w] : pending[w][i] \in Record
    BY <1>1
  <2> QED
    BY <2>1 DEF Record
<1>3. \A p \in Partitions : durable[p] \in Int /\ durLoc[w][p] \in Int
  BY DEF TypeOK, NotLoaded
<1> QED
  BY <1>1, <1>2, <1>3, CoordsParts

(* A batch that stands still stays accounted for while the store grows. *)
LEMMA BatchStill ==
  ASSUME TypeOK, TypeOK', \A q \in Partitions : durable[q] <= durable'[q],
         \A c \in Coords : facts[c] > 0 => facts'[c] > 0,
         NEW v \in Workers, BatchInv(v), pending'[v] = pending[v],
         durLoc'[v] = durLoc[v], lastDelta'[v] = lastDelta[v], reset'[v] = reset[v]
  PROVE  BatchInv(v)'
<1>1. FactRecords(v)' = FactRecords(v)
  BY DEF FactRecords, FactIdx
<1>2. /\ \A p \in Partitions : durable[p] \in Int /\ durable'[p] \in Int /\ durLoc[v][p] \in Int
      /\ \A c \in Coords : c[1] \in Partitions /\ c[2] \in Nat
      /\ \A i \in DOMAIN pending[v] : pending[v][i].at \in Coords
  BY BatchTypes, CoordsParts DEF TypeOK
<1>3. KnownDurable(v)'
  BY <1>2 DEF BatchInv, KnownDurable
<1>4. FactsDecode(v)'
  BY <1>1 DEF BatchInv, FactsDecode, Decodes, Msg
<1>5. Contiguous(v)'
  <2> SUFFICES ASSUME NEW i \in DOMAIN pending[v], NEW c \in Coords,
                      c[1] = pending[v][i].at[1], c[2] <= pending[v][i].at[2],
                      durable'[c[1]] < c[2], Decodes(c)
               PROVE  \E j \in DOMAIN pending[v] : pending[v][j].at = c
    BY DEF Contiguous, Decodes, Msg, Coords, Offsets
  <2>1. durable[c[1]] < c[2]
    BY <1>2
  <2> QED
    BY <2>1 DEF BatchInv, Contiguous
<1>6. Justified(v)'
  <2> SUFFICES ASSUME NEW i \in DOMAIN pending[v], Decodes(pending[v][i].at),
                      durable'[pending[v][i].at[1]] < pending[v][i].at[2]
               PROVE  Accounted(v, pending[v][i].at)'
    BY DEF Justified, Decodes, Msg
  <2> DEFINE c == pending[v][i].at
  <2>1. durable[c[1]] < c[2]
    BY <1>2
  <2>2. Accounted(v, c)
    BY <2>1 DEF BatchInv, Justified
  <2> QED
    BY <1>1, <2>2, AccountedGrows
<1>7. ASSUME IsDelta PROVE BaselineKnown(v)'
  <2>1. \A p \in Partitions : BaselineFrom(lastDelta[v][p], p, FactRecords(v))'
    BY <1>1, <1>7, BaselineGrows DEF BatchInv, BaselineKnown
  <2> QED
    BY <1>1, <1>7, <2>1 DEF BatchInv, BaselineKnown
<1> QED
  BY <1>3, <1>4, <1>5, <1>6, <1>7 DEF BatchInv, IsDelta

(* The steps that change a worker's batch or what it knows. *)
LEMMA BatchMoves ==
  ASSUME TypeOK, NEW w \in Workers, Step(w)
  PROVE  \/ /\ pending'[w] = pending[w] /\ durLoc'[w] = durLoc[w]
            /\ lastDelta'[w] = lastDelta[w] /\ reset'[w] = reset[w]
         \/ startInput(w) \/ ensureProgress(w) \/ prepareReplay(w) \/ prepareFact(w)
         \/ FlushDone(w) \/ Gone(w)
BY DEF Step, Assign, fetch, FlushInterval, FlushOtherPartition,
       prepareBad, WriteBegin, WriteAcked, WriteUnacked, WriteFactBatch,
       WriteRollback, CommitAcked, CommitUnacked,
       WritePoisonRecord, PoisonFailed, CommitPoison, stopInput, Leave, Crash, volatile, loaded

LEMMA BatchGone ==
  ASSUME TypeOK, TypeOK', NEW w \in Workers, Gone(w)
  PROVE  BatchInv(w)'
<1>1. /\ pending'[w] = <<>> /\ reset'[w] = NoBook
      /\ \A p \in Partitions : durLoc'[w][p] = NotLoaded /\ lastDelta'[w][p] = ZeroDelta
  BY DEF Gone, TypeOK
<1>2. FactsDecode(w)' /\ Contiguous(w)' /\ Justified(w)'
  BY <1>1 DEF FactRecords, FactIdx, FactsDecode, Contiguous, Justified
<1>3. KnownDurable(w)'
  <2>1. \A p \in Partitions : durable'[p] \in Nat \cup {-1}
    BY DEF TypeOK
  <2> QED
    BY <1>1, <2>1 DEF KnownDurable, NotLoaded
<1>4. BaselineKnown(w)'
  BY <1>1 DEF BaselineKnown, BaselineFrom
<1> QED
  BY <1>2, <1>3, <1>4 DEF BatchInv

LEMMA BatchStart ==
  ASSUME TypeOK, TypeOK', NEW w \in Workers, BatchInv(w), Identified, startInput(w)
  PROVE  BatchInv(w)'
<1>1. UNCHANGED <<durable, facts, pending, durLoc, lastDelta>>
  BY DEF startInput, store
<1>2. reset' = [reset EXCEPT ![w] = NoBook] \/ ~IsDelta
  BY DEF startInput, Identified
<1>3. CASE IsDelta
  <2>1. reset'[w] = reset[w]
    BY <1>2, <1>3 DEF BatchInv, BaselineKnown, TypeOK
  <2>2. \A q \in Partitions : durable[q] <= durable'[q]
    BY <1>1, BatchTypes
  <2> QED
    BY <1>1, <2>1, <2>2, BatchStill
<1>4. CASE ~IsDelta
  <2>1. FactRecords(w)' = FactRecords(w)
    BY <1>1 DEF FactRecords, FactIdx
  <2>2. KnownDurable(w)' /\ FactsDecode(w)' /\ Contiguous(w)'
    BY <1>1, <2>1 DEF BatchInv, KnownDurable, FactsDecode, Contiguous, Decodes, Msg, Coords, Offsets
  <2>3. Justified(w)'
    BY <1>1, <2>1 DEF BatchInv, Justified, Accounted, Decodes, Supersedes, SameTrade, Msg, IsDelta, Coords, Offsets
  <2> QED
    BY <1>4, <2>2, <2>3 DEF BatchInv, IsDelta
<1> QED
  BY <1>3, <1>4

(* A worker that loads a partition's progress takes over the stored cursor. *)
LEMMA BatchLoad ==
  ASSUME TypeOK, TypeOK', NEW w \in Workers, BatchInv(w), IsDelta => CursorKnown,
         ensureProgress(w)
  PROVE  BatchInv(w)'
<1> DEFINE p == cur[w][1]
<1>1. p \in Partitions
  BY CoordsParts DEF ensureProgress, TypeOK
<1>2. UNCHANGED <<durable, facts, pending>>
  BY DEF ensureProgress, store
<1>3. FactRecords(w)' = FactRecords(w)
  BY <1>2 DEF FactRecords, FactIdx
<1>4. FactsDecode(w)' /\ Contiguous(w)' /\ Justified(w)'
  <2>1. FactsDecode(w)'
    BY <1>3 DEF BatchInv, FactsDecode, Decodes, Msg
  <2>2. Contiguous(w)'
    BY <1>2 DEF BatchInv, Contiguous, Decodes, Msg, Coords, Offsets
  <2>3. \A c : Accounted(w, c) => Accounted(w, c)'
    BY <1>2, <1>3, AccountedGrows
  <2>4. Justified(w)'
    BY <1>2, <2>3 DEF BatchInv, Justified, Decodes, Msg
  <2> QED
    BY <2>1, <2>2, <2>4
<1>5. KnownDurable(w)'
  <2>1. \A q \in Partitions : durLoc'[w][q] = durLoc[w][q] \/ durLoc'[w][q] = durable[q]
    BY <1>1 DEF ensureProgress, LoadStreamWriteProgress, TypeOK
  <2>2. \A q \in Partitions : durable[q] <= durable[q]
    BY BatchTypes
  <2> QED
    BY <1>2, <2>1, <2>2 DEF KnownDurable, BatchInv
<1>6. ASSUME IsDelta PROVE BaselineKnown(w)'
  <2>1. reset[w] = NoBook /\ reset'[w] = NoBook
    BY <1>6 DEF BatchInv, BaselineKnown, ensureProgress, TypeOK
  <2>2. \A q \in Partitions : \/ lastDelta'[w][q] = lastDelta[w][q]
                              \/ q = p /\ lastDelta'[w][q] = LoadedDelta(w, cursor[p])
    BY <1>1 DEF ensureProgress, LoadStreamWriteProgress, TypeOK
  <2>3. LoadedDelta(w, cursor[p]) = DropFirst(cursor[p])
    <3>1. cursor[p] \in DeltaId
      BY <1>1 DEF TypeOK
    <3> QED
      BY <2>1, <3>1 DEF LoadedDelta, DropFirst, NoBook, DeltaId
  <2>4. BaselineFrom(cursor[p], p, {})
    BY <1>1, <1>6 DEF CursorKnown
  <2>5. BaselineFrom(DropFirst(cursor[p]), p, {})
    <3>1. CASE cursor[p] = ZeroDelta
      BY <3>1 DEF BaselineFrom, DropFirst, ZeroDelta
    <3>2. CASE cursor[p] # ZeroDelta
      <4>1. PICK d \in Coords : /\ d[1] = p /\ Decodes(d)
                                /\ cursor[p] = Msg(d).id \/ cursor[p] = DropFirst(Msg(d).id)
                                /\ d[2] <= durable[p]
        BY <2>4, <3>2 DEF BaselineFrom
      <4>2. DropFirst(cursor[p]) = DropFirst(Msg(d).id)
        BY <4>1, MsgType DEF DropFirst, DeltaId
      <4> QED
        BY <4>1, <4>2 DEF BaselineFrom
    <3> QED
      BY <3>1, <3>2
  <2>6. \A q \in Partitions : BaselineFrom(lastDelta'[w][q], q, FactRecords(w))
    BY <1>6, <2>2, <2>3, <2>5 DEF BatchInv, BaselineKnown, BaselineFrom
  <2> QED
    BY <1>2, <1>3, <2>1, <2>6 DEF BaselineKnown, BaselineFrom, Decodes, Msg, Coords, Offsets
<1> QED
  BY <1>4, <1>5, <1>6 DEF BatchInv, IsDelta

LEMMA AppendedFacts ==
  ASSUME TypeOK, NEW w \in Workers, NEW b \in BOOLEAN, cur[w] \in Coords, AddPending(w, b)
  PROVE  FactRecords(w)' = FactRecords(w) \cup (IF b THEN {cur[w]} ELSE {})
<1>1. /\ Len(pending[w]) \in Nat
      /\ DOMAIN pending[w] = 1 .. Len(pending[w])
      /\ DOMAIN pending'[w] = 1 .. Len(pending[w]) + 1
      /\ \A i \in DOMAIN pending[w] : pending'[w][i] = pending[w][i]
      /\ pending'[w][Len(pending[w]) + 1] = [at |-> cur[w], fact |-> b]
  BY Appended
<1>2. DOMAIN pending'[w] = DOMAIN pending[w] \cup {Len(pending[w]) + 1}
  BY <1>1
<1>3. FactIdx(w)' = FactIdx(w) \cup (IF b THEN {Len(pending[w]) + 1} ELSE {})
  BY <1>1, <1>2 DEF FactIdx
<1> QED
  BY <1>1, <1>3 DEF FactRecords, FactIdx

(* Appending a record that leaves no gap and is accounted for. *)
LEMMA BatchAppend ==
  ASSUME TypeOK, TypeOK', NEW w \in Workers, BatchInv(w), NEW b \in BOOLEAN,
         cur[w] \in Coords, AddPending(w, b), UNCHANGED <<durable, facts, durLoc, reset>>,
         b => Decodes(cur[w]),
         \A c \in Coords : /\ c[1] = cur[w][1] /\ c[2] < cur[w][2]
                           /\ durable[c[1]] < c[2] /\ Decodes(c)
                           => \E j \in DOMAIN pending[w] : pending[w][j].at = c,
         Decodes(cur[w]) /\ durable[cur[w][1]] < cur[w][2] => b \/ Accounted(w, cur[w]),
         IsDelta => \A p \in Partitions : \/ lastDelta'[w][p] = lastDelta[w][p]
                                          \/ b /\ p = cur[w][1] /\ lastDelta'[w][p] = Msg(cur[w]).id
  PROVE  BatchInv(w)'
<1>1. /\ Len(pending[w]) \in Nat
      /\ DOMAIN pending[w] = 1 .. Len(pending[w])
      /\ DOMAIN pending'[w] = 1 .. Len(pending[w]) + 1
      /\ \A i \in DOMAIN pending[w] : pending'[w][i] = pending[w][i]
      /\ pending'[w][Len(pending[w]) + 1] = [at |-> cur[w], fact |-> b]
  BY Appended
<1>2. FactRecords(w)' = FactRecords(w) \cup (IF b THEN {cur[w]} ELSE {})
  BY AppendedFacts
<1>3. DOMAIN pending'[w] = DOMAIN pending[w] \cup {Len(pending[w]) + 1}
  BY <1>1
<1>4. KnownDurable(w)' /\ FactsDecode(w)'
  BY <1>2 DEF BatchInv, KnownDurable, FactsDecode, Decodes, Msg
<1>5. Contiguous(w)'
  <2> SUFFICES ASSUME NEW i \in DOMAIN pending'[w], NEW c \in Coords,
                      c[1] = pending'[w][i].at[1], c[2] <= pending'[w][i].at[2],
                      durable[c[1]] < c[2], Decodes(c)
               PROVE  \E j \in DOMAIN pending'[w] : pending'[w][j].at = c
    BY DEF Contiguous, Decodes, Msg, Coords, Offsets
  <2>1. CASE \E j \in DOMAIN pending[w] : pending[w][j].at = c
    BY <1>1, <1>3, <2>1
  <2>2. CASE i \in DOMAIN pending[w]
    BY <1>1, <2>1, <2>2 DEF BatchInv, Contiguous
  <2>3. CASE i = Len(pending[w]) + 1
    <3>1. c[1] = cur[w][1] /\ c[2] <= cur[w][2]
      BY <1>1, <2>3
    <3>2. c = <<c[1], c[2]>> /\ cur[w] = <<cur[w][1], cur[w][2]>> /\ c[2] \in Nat /\ cur[w][2] \in Nat
      BY CoordsParts
    <3>3. CASE c[2] = cur[w][2]
      <4>1. c = cur[w]
        BY <3>1, <3>2, <3>3
      <4> QED
        BY <1>1, <1>3, <4>1
    <3>4. CASE c[2] < cur[w][2]
      BY <2>1, <3>1, <3>4
    <3> QED
      BY <3>1, <3>2, <3>3, <3>4
  <2> QED
    BY <1>3, <2>2, <2>3
<1>6. Justified(w)'
  <2> SUFFICES ASSUME NEW i \in DOMAIN pending'[w], NEW c, c = pending'[w][i].at,
                      Decodes(c), durable[c[1]] < c[2]
               PROVE  Accounted(w, c)'
    BY DEF Justified, Decodes, Msg
  <2>1. Accounted(w, c) \/ c \in FactRecords(w)'
    <3>1. CASE i \in DOMAIN pending[w]
      BY <1>1, <3>1 DEF BatchInv, Justified
    <3>2. CASE i = Len(pending[w]) + 1
      BY <1>1, <1>2, <3>2
    <3> QED
      BY <1>3, <3>1, <3>2
  <2> QED
    BY <1>2, <2>1 DEF Accounted, Supersedes, IsDelta, SameTrade, Msg, Coords, Offsets
<1>7. ASSUME IsDelta PROVE BaselineKnown(w)'
  <2> SUFFICES ASSUME NEW p \in Partitions
               PROVE  BaselineFrom(lastDelta'[w][p], p, FactRecords(w)')
    BY <1>7 DEF BatchInv, BaselineKnown, BaselineFrom, Decodes, Msg, Coords, Offsets
  <2>1. BaselineFrom(lastDelta[w][p], p, FactRecords(w)')
    BY <1>2, <1>7 DEF BatchInv, BaselineKnown, BaselineFrom
  <2>2. CASE b /\ p = cur[w][1] /\ lastDelta'[w][p] = Msg(cur[w]).id
    BY <1>2, <2>2 DEF BaselineFrom
  <2> QED
    BY <1>7, <2>1, <2>2
<1> QED
  BY <1>4, <1>5, <1>6, <1>7 DEF BatchInv, IsDelta

LEMMA BatchReplay ==
  ASSUME TypeOK, TypeOK', NEW w \in Workers, BatchInv(w), prepareReplay(w)
  PROVE  BatchInv(w)'
<1>1. cur[w] \in Coords /\ cur[w][2] <= durLoc[w][cur[w][1]]
  BY DEF prepareReplay, Preparing, Replayed, TypeOK
<1>2. cur[w][1] \in Partitions /\ cur[w][2] \in Nat
  BY <1>1, CoordsParts
<1>3. cur[w][2] <= durable[cur[w][1]] /\ durable[cur[w][1]] \in Int
  BY <1>1, <1>2, BatchTypes DEF BatchInv, KnownDurable
<1>4. \A c \in Coords : c[1] = cur[w][1] /\ c[2] < cur[w][2] => ~(durable[c[1]] < c[2])
  BY <1>2, <1>3, CoordsParts
<1>5. /\ AddPending(w, FALSE) /\ UNCHANGED <<durable, facts, durLoc, reset>>
      /\ lastDelta' = lastDelta
  BY DEF prepareReplay, store, loaded
<1>6. ~(durable[cur[w][1]] < cur[w][2])
  BY <1>2, <1>3
<1> DEFINE b == FALSE
<1>7. b \in BOOLEAN /\ ~b /\ AddPending(w, b)
  BY <1>5
<1> HIDE DEF b
<1> QED
  BY <1>1, <1>4, <1>5, <1>6, <1>7, BatchAppend

(* A delta that its worker takes for stale is accounted for: if the last    *)
(* accepted delta lies behind it, that one or its superseder makes it       *)
(* stale; if it lies ahead, after a rebalance that went back, the batch     *)
(* holds the record already.                                                *)
LEMMA StaleAccounted ==
  ASSUME TypeOK, NEW w \in Workers, LoopInv(w), BatchInv(w), RowsDecode, NoFactSkipped,
         Identified, IsDelta, cur[w] \in Coords, Decodes(cur[w]),
         durable[cur[w][1]] < cur[w][2],
         ~checkDeltaContinuity(lastDelta[w][cur[w][1]], Msg(cur[w]).id)
  PROVE  Accounted(w, cur[w])
<1> DEFINE c == cur[w]
           p == cur[w][1]
<1>1. p \in Partitions /\ c[2] \in Nat /\ c = <<p, c[2]>> /\ Msg(c).id \in DeltaId
  BY CoordsParts, MsgType
<1>2. BaselineFrom(lastDelta[w][p], p, FactRecords(w))
  BY <1>1 DEF BatchInv, BaselineKnown
<1>3. lastDelta[w][p] # ZeroDelta
  BY <1>1, NewAfterZero
<1>4. PICK d \in Coords : /\ d[1] = p /\ Decodes(d)
                          /\ lastDelta[w][p] = Msg(d).id \/ lastDelta[w][p] = DropFirst(Msg(d).id)
                          /\ d[2] <= durable[p] \/ d \in FactRecords(w)
  BY <1>2, <1>3 DEF BaselineFrom
<1>5. ~checkDeltaContinuity(Msg(d).id, Msg(c).id)
  BY <1>1, <1>4, MsgType, StaleWithoutFirst
<1>6. d[2] \in Nat /\ d = <<p, d[2]>> /\ durable[p] \in Int
  BY <1>1, <1>4, CoordsParts, BatchTypes
<1> HIDE DEF c, p
<1>7. d[2] < c[2] => Supersedes(d, c)
  BY <1>4, <1>5 DEF Supersedes, p, c
<1>8. CASE d[2] <= durable[p]
  <2>1. Supersedes(d, c)
    BY <1>1, <1>6, <1>7, <1>8 DEF p, c
  <2>2. facts[d] > 0 \/ \E e \in Coords : facts[e] > 0 /\ Supersedes(e, d)
    BY <1>4, <1>8 DEF NoFactSkipped, Superseded
  <2>3. CASE facts[d] > 0
    BY <2>1, <2>3 DEF Accounted, c
  <2>4. ASSUME NEW e \in Coords, facts[e] > 0, Supersedes(e, d) PROVE Accounted(w, c)
    <3>1. Supersedes(e, c)
      BY <1>4, <2>1, <2>4, SupersedesTransitive DEF RowsDecode, c
    <3> QED
      BY <2>4, <3>1 DEF Accounted
  <2> QED
    BY <2>2, <2>3, <2>4 DEF c
<1>9. CASE d \in FactRecords(w) /\ durable[p] < d[2]
  <2>1. CASE d[2] < c[2]
    BY <1>7, <1>9, <2>1 DEF Accounted, c
  <2>2. CASE ~(d[2] < c[2])
    <3>1. PICK i \in DOMAIN pending[w] : pending[w][i].at = d
      BY <1>9 DEF FactRecords, FactIdx
    <3>2. \E j \in DOMAIN pending[w] : pending[w][j].at = c
      BY <1>1, <1>4, <1>6, <2>2, <3>1 DEF BatchInv, Contiguous, c, p
    <3> QED
      BY <3>2 DEF BatchInv, Justified, c
  <2> QED
    BY <2>1, <2>2
<1> QED
  BY <1>4, <1>6, <1>8, <1>9

LEMMA BatchFact ==
  ASSUME TypeOK, TypeOK', NEW w \in Workers, LoopInv(w), BatchInv(w), RowsDecode, NoFactSkipped,
         Identified, prepareFact(w)
  PROVE  BatchInv(w)'
<1> DEFINE p == cur[w][1]
           b == IsDelta => checkDeltaContinuity(lastDelta[w][p], Msg(cur[w]).id)
<1>1. cur[w] \in Coords /\ cur[w] # NoMsg /\ Decodes(cur[w]) /\ ~SwitchesPartition(w)
  BY DEF prepareFact, Preparing, TypeOK
<1>2. p \in Partitions /\ cur[w][2] \in Nat
  BY <1>1, CoordsParts
<1>3. AddPending(w, b) /\ UNCHANGED <<durable, facts, durLoc, reset>>
  BY DEF prepareFact, store
<1>4. ASSUME NEW c \in Coords, c[1] = p, c[2] < cur[w][2], durable[c[1]] < c[2], Decodes(c)
      PROVE  \E j \in DOMAIN pending[w] : pending[w][j].at = c
  <2>1. c[2] \in Nat /\ durable[p] \in Int
    BY <1>2, CoordsParts, BatchTypes
  <2>2. ~Clear(p, cur[w][2])
    BY <1>4, <2>1 DEF Clear
  <2>3. BatchReaches(w, p, cur[w][2])
    BY <1>1, <2>2 DEF LoopInv, CurFollows
  <2>4. Len(pending[w]) \in DOMAIN pending[w]
    BY <2>3, BatchTypes DEF BatchReaches, TypeOK
  <2>5. c[2] <= Final(w)[2] /\ c[1] = Final(w)[1]
    BY <1>2, <1>4, <2>1, <2>3, FinalType DEF BatchReaches
  <2> QED
    BY <1>4, <2>4, <2>5 DEF BatchInv, Contiguous, Final
<1>5. Decodes(cur[w]) /\ durable[cur[w][1]] < cur[w][2] => b \/ Accounted(w, cur[w])
  BY <1>1, StaleAccounted
<1>6. IsDelta => \A q \in Partitions : \/ lastDelta'[w][q] = lastDelta[w][q]
                                       \/ b /\ q = p /\ lastDelta'[w][q] = Msg(cur[w]).id
  BY <1>2 DEF prepareFact, TypeOK
<1>7. b \in BOOLEAN
  OBVIOUS
<1> HIDE DEF b
<1> QED
  BY <1>1, <1>3, <1>4, <1>5, <1>6, <1>7, BatchAppend

(* The facts of a batch past its write are durable. *)
LEMMA WrittenFacts ==
  ASSUME TypeOK, StoreInv, NEW w \in Workers, pc[w] = "notify"
  PROVE  \A c \in FactRecords(w) : c[2] <= durable[c[1]]
<1>1. pending[w] # <<>> /\ validateFactBatch(w) /\ Final(w)[2] <= durable[Final(w)[1]]
  BY DEF TypeOK, Flushing, StoreInv, BatchSettled
<1>2. \A c \in FactRecords(w) : c[1] = Final(w)[1] /\ c[2] <= Final(w)[2] /\ c[2] \in Nat
  BY <1>1, CoordsParts, FactRecordsType DEF validateFactBatch, FactRecords
<1>3. Final(w)[2] \in Nat /\ durable[Final(w)[1]] \in Int
  BY <1>1, FinalType, BatchTypes
<1> QED
  BY <1>1, <1>2, <1>3

LEMMA BatchFlushDone ==
  ASSUME TypeOK, TypeOK', StoreInv, NEW w \in Workers, BatchInv(w), FlushDone(w)
  PROVE  BatchInv(w)'
<1>1. CASE cont[w] = "exit"
  BY <1>1, BatchGone DEF FlushDone
<1>2. CASE cont[w] # "exit"
  <2>1. /\ pending'[w] = <<>> /\ UNCHANGED <<durable, facts, lastDelta, reset>>
        /\ durLoc' = [durLoc EXCEPT ![w][Final(w)[1]] = Final(w)[2]]
        /\ pc[w] = "notify"
    BY <1>2 DEF FlushDone, store, TypeOK
  <2>2. FactsDecode(w)' /\ Contiguous(w)' /\ Justified(w)'
    BY <2>1 DEF FactRecords, FactIdx, FactsDecode, Contiguous, Justified
  <2>3. KnownDurable(w)'
    <3>1. Final(w)[2] <= durable[Final(w)[1]] /\ Final(w)[1] \in Partitions
      BY <2>1, FinalType DEF StoreInv, BatchSettled, TypeOK, Flushing
    <3>2. \A p \in Partitions : durLoc'[w][p] = IF p = Final(w)[1] THEN Final(w)[2] ELSE durLoc[w][p]
      BY <2>1 DEF TypeOK
    <3> QED
      BY <2>1, <3>1, <3>2 DEF KnownDurable, BatchInv
  <2>4. ASSUME IsDelta PROVE BaselineKnown(w)'
    <3>1. \A p \in Partitions : durable[p] <= durable'[p]
      BY <2>1, BatchTypes
    <3>2. \A p \in Partitions : BaselineFrom(lastDelta[w][p], p, {})
      BY <2>1, <2>4, WrittenFacts DEF BatchInv, BaselineKnown, BaselineFrom
    <3>3. \A p \in Partitions : BaselineFrom(lastDelta[w][p], p, FactRecords(w)')
      BY <3>2 DEF BaselineFrom
    <3> QED
      BY <2>1, <2>4, <3>3 DEF BatchInv, BaselineKnown, BaselineFrom, Decodes, Msg, Coords, Offsets
  <2> QED
    BY <2>2, <2>3, <2>4 DEF BatchInv, IsDelta
<1> QED
  BY <1>1, <1>2

LEMMA BatchStep ==
  ASSUME TypeOK, TypeOK', StoreInv, OrderInv, CopyInv, Identified, NEW w \in Workers, Step(w)
  PROVE  BatchInv(w)'
<1>1. /\ BatchInv(w) /\ LoopInv(w) /\ RowsDecode /\ NoFactSkipped /\ (IsDelta => CursorKnown)
      /\ \A q \in Partitions : durable[q] <= durable'[q]
      /\ \A c \in Coords : facts[c] > 0 => facts'[c] > 0
  BY DurableGrows, FactsGrow DEF CopyInv, OrderInv
<1>2. CASE /\ pending'[w] = pending[w] /\ durLoc'[w] = durLoc[w]
           /\ lastDelta'[w] = lastDelta[w] /\ reset'[w] = reset[w]
  BY <1>1, <1>2, BatchStill
<1>3. CASE startInput(w)
  BY <1>1, <1>3, BatchStart
<1>4. CASE ensureProgress(w)
  BY <1>1, <1>4, BatchLoad
<1>5. CASE prepareReplay(w)
  BY <1>1, <1>5, BatchReplay
<1>6. CASE prepareFact(w)
  BY <1>1, <1>6, BatchFact
<1>7. CASE FlushDone(w)
  BY <1>1, <1>7, BatchFlushDone
<1>8. CASE Gone(w)
  BY <1>8, BatchGone
<1> QED
  BY <1>2, <1>3, <1>4, <1>5, <1>6, <1>7, <1>8, BatchMoves

LEMMA OthersAccounted ==
  ASSUME TypeOK, TypeOK', StoreInv, CopyInv, NEW w \in Workers, Step(w),
         NEW v \in Workers, v # w
  PROVE  BatchInv(v)'
BY OthersKeep, DurableGrows, FactsGrow, BatchStill DEF CopyInv

-----------------------------------------------------------------------------
(* What the transaction of a batch adds and passes. *)

(* The transaction passes no fact: each record it moves the durable offset  *)
(* over is a new row, or superseded by a row that is there or new.          *)
LEMMA CopyCovers ==
  ASSUME TypeOK, StoreInv, CopyInv, Identified, NEW w \in Workers, pc[w] = "tx",
         NEW c \in Coords, Decodes(c), c[1] = Final(w)[1],
         durable[c[1]] < c[2], c[2] <= Final(w)[2]
  PROVE  \/ c \in NewRows(w)
         \/ \E d \in Coords : (facts[d] > 0 \/ d \in NewRows(w)) /\ Supersedes(d, c)
<1>1. /\ tx[w] # NoTx /\ pending[w] # <<>> /\ validateFactBatch(w)
      /\ tx[w] = durable[Final(w)[1]] /\ BatchInv(w) /\ RowsDecode /\ NoFactSkipped
  BY DEF TypeOK, Flushing, StoreInv, BatchSettled, RowLockReads, CopyInv
<1>2. Len(pending[w]) \in DOMAIN pending[w]
  BY <1>1, BatchTypes DEF TypeOK
<1>3. PICK j \in DOMAIN pending[w] : pending[w][j].at = c
  BY <1>1, <1>2 DEF BatchInv, Contiguous, Final
<1>4. Accounted(w, c)
  BY <1>1, <1>3 DEF BatchInv, Justified
<1>5. \A d \in FactRecords(w) : d \in Coords /\ d[1] = Final(w)[1] /\ d[2] <= Final(w)[2] /\ Decodes(d)
  BY <1>1, FactRecordsType DEF validateFactBatch, FactRecords, BatchInv, FactsDecode
<1>6. \A d \in FactRecords(w) : durable[c[1]] < d[2] => d \in AfterOffset(w)
  BY <1>1, <1>5, CoordsParts, BatchTypes DEF AfterOffset
<1>7. CASE ~IsDelta
  <2>1. c \in AfterOffset(w) /\ AfterOffset(w) \subseteq Coords
    BY <1>4, <1>5, <1>6, <1>7 DEF Accounted, AfterOffset
  <2>2. \E d \in Coords : (facts[d] > 0 \/ d \in writeTradesTx(AfterOffset(w))) /\ SameTrade(c, d)
    BY <2>1, TradeRows
  <2> QED
    BY <1>7, <2>2 DEF NewRows, Supersedes
<1>8. CASE IsDelta
  <2>1. NewRows(w) = AfterOffset(w)
    BY <1>8 DEF NewRows, writeOrderBookDeltasCopy
  <2>2. CASE c \in FactRecords(w)
    BY <1>6, <2>1, <2>2
  <2>3. ASSUME NEW d \in Coords, Supersedes(d, c), facts[d] > 0 \/ d \in FactRecords(w)
        PROVE  \E e \in Coords : (facts[e] > 0 \/ e \in NewRows(w)) /\ Supersedes(e, c)
    <3>1. CASE facts[d] > 0 \/ durable[c[1]] < d[2]
      BY <1>6, <2>1, <2>3, <3>1
    <3>2. CASE d \in FactRecords(w) /\ ~(durable[c[1]] < d[2])
      <4>1. d[1] = c[1] /\ d[2] <= durable[d[1]] /\ Decodes(d)
        BY <1>5, <3>2, CoordsParts, BatchTypes
      <4>2. facts[d] > 0 \/ \E e \in Coords : facts[e] > 0 /\ Supersedes(e, d)
        BY <1>1, <4>1 DEF NoFactSkipped, Superseded
      <4> QED
        BY <1>1, <2>3, <4>1, <4>2, SupersedesTransitive DEF RowsDecode
    <3> QED
      BY <2>3, <3>1, <3>2
  <2> QED
    BY <1>4, <2>2, <2>3 DEF Accounted
<1> QED
  BY <1>7, <1>8

LEMMA CursorSteps ==
  ASSUME NEW w \in Workers, Step(w)
  PROVE  WriteFactBatch(w) \/ UNCHANGED <<durable, facts, cursor>>
BY DEF Step, startInput, Assign, fetch, FlushInterval, FlushOtherPartition,
       ensureProgress, prepareReplay, prepareFact, prepareBad, WriteBegin, WriteAcked,
       WriteUnacked, WriteRollback, CommitAcked, CommitUnacked, FlushDone,
       WritePoisonRecord, PoisonFailed, CommitPoison, stopInput, Leave, Crash, store

LEMMA StoreKept ==
  ASSUME RowsDecode, NoFactSkipped, IsDelta => CursorKnown, UNCHANGED <<durable, facts, cursor>>
  PROVE  RowsDecode' /\ NoFactSkipped' /\ (IsDelta => CursorKnown)'
<1>1. RowsDecode' /\ NoFactSkipped'
  BY DEF RowsDecode, NoFactSkipped, Superseded, Supersedes, SameTrade, IsDelta, Decodes, Msg, Coords, Offsets
<1>2. (IsDelta => CursorKnown)'
  BY DEF CursorKnown, BaselineFrom, IsDelta, Decodes, Msg, Coords, Offsets
<1> QED
  BY <1>1, <1>2

LEMMA StoreWritten ==
  ASSUME TypeOK, TypeOK', StoreInv, CopyInv, Identified, NEW w \in Workers, Step(w), WriteFactBatch(w)
  PROVE  RowsDecode' /\ NoFactSkipped' /\ (IsDelta => CursorKnown)'
<1> DEFINE p == Final(w)[1]
           o == Final(w)[2]
<1>1. /\ pc[w] = "tx" /\ tx[w] # NoTx /\ pending[w] # <<>> /\ validateFactBatch(w)
      /\ tx[w] = durable[p] /\ BatchInv(w) /\ RowsDecode /\ NoFactSkipped
  BY DEF WriteFactBatch, TypeOK, Flushing, StoreInv, BatchSettled, RowLockReads, CopyInv
<1>2. p \in Partitions /\ o \in Nat /\ durable[p] \in Int
  BY <1>1, FinalType, BatchTypes
<1>3. CASE o <= tx[w]
  <2>1. UNCHANGED <<durable, facts, cursor>>
    BY <1>3 DEF WriteFactBatch
  <2> QED
    BY <1>1, <2>1, StoreKept DEF CopyInv
<1>4. CASE ~(o <= tx[w])
  <2>1. /\ facts' = [c \in Coords |-> facts[c] + (IF c \in NewRows(w) THEN 1 ELSE 0)]
        /\ durable' = [durable EXCEPT ![p] = o]
        /\ cursor' = [cursor EXCEPT ![p] = DropFirst(lastDelta[w][p])]
    BY <1>4 DEF WriteFactBatch, DropFirst
  <2>2. NewRows(w) \subseteq FactRecords(w)
    BY DEF NewRows, writeTradesTx, writeOrderBookDeltasCopy, AfterOffset
  <2>3. \A c \in FactRecords(w) : c \in Coords /\ c[1] = p /\ c[2] <= o /\ Decodes(c)
    BY <1>1, FactRecordsType DEF validateFactBatch, FactRecords, BatchInv, FactsDecode
  <2>4. \A c \in Coords : /\ facts[c] \in Nat
                          /\ facts'[c] > 0 <=> facts[c] > 0 \/ c \in NewRows(w)
    BY <2>1 DEF TypeOK
  <2> HIDE DEF p, o
  <2>5. RowsDecode'
    BY <1>1, <2>2, <2>3, <2>4 DEF RowsDecode, Decodes, Msg, Coords, Offsets
  <2>6. NoFactSkipped'
    <3> SUFFICES ASSUME NEW c \in Coords, Decodes(c), c[2] <= durable'[c[1]]
                 PROVE  facts'[c] > 0 \/ \E d \in Coords : facts'[d] > 0 /\ Supersedes(d, c)
      BY DEF NoFactSkipped, Superseded, Supersedes, SameTrade, IsDelta, Decodes, Msg, Coords, Offsets
    <3>1. c[1] \in Partitions /\ c[2] \in Nat /\ durable[c[1]] \in Int
      BY CoordsParts, BatchTypes
    <3>2. CASE c[2] <= durable[c[1]]
      BY <1>1, <2>4, <3>2 DEF NoFactSkipped, Superseded
    <3>3. CASE ~(c[2] <= durable[c[1]])
      <4>1. c[1] = p /\ c[2] <= o /\ durable[c[1]] < c[2]
        BY <2>1, <3>1, <3>3 DEF TypeOK
      <4>2. \/ c \in NewRows(w)
            \/ \E d \in Coords : (facts[d] > 0 \/ d \in NewRows(w)) /\ Supersedes(d, c)
        BY <1>1, <4>1, CopyCovers DEF p, o
      <4> QED
        BY <2>4, <4>2
    <3> QED
      BY <3>2, <3>3
  <2>7. ASSUME IsDelta PROVE CursorKnown'
    <3> SUFFICES ASSUME NEW q \in Partitions PROVE BaselineFrom(cursor[q], q, {})'
      BY DEF CursorKnown
    <3>0. \A r \in Partitions : durable[r] <= durable'[r]
      BY DurableGrows
    <3>1. CASE q # p
      <4>1. BaselineFrom(cursor[q], q, {}) /\ cursor'[q] = cursor[q]
        BY <2>1, <2>7, <3>1 DEF CopyInv, CursorKnown, TypeOK
      <4> QED
        BY <3>0, <4>1, BaselineGrows
    <3>2. CASE q = p
      <4> DEFINE b == lastDelta[w][p]
      <4>1. BaselineFrom(b, p, FactRecords(w))
        BY <1>1, <1>2, <2>7 DEF BatchInv, BaselineKnown
      <4>2. cursor'[q] = DropFirst(b) /\ durable'[p] = o
        BY <1>2, <2>1, <3>2 DEF TypeOK
      <4> HIDE DEF b
      <4>3. CASE b = ZeroDelta
        BY <4>2, <4>3 DEF BaselineFrom, DropFirst, ZeroDelta
      <4>4. CASE b # ZeroDelta
        <5>1. PICK d \in Coords : /\ d[1] = p /\ Decodes(d)
                                  /\ b = Msg(d).id \/ b = DropFirst(Msg(d).id)
                                  /\ d[2] <= durable[p] \/ d \in FactRecords(w)
          BY <4>1, <4>4 DEF BaselineFrom
        <5>2. DropFirst(b) = DropFirst(Msg(d).id)
          BY <5>1, MsgType DEF DropFirst, DeltaId
        <5>3. d[2] <= durable'[p]
          BY <1>1, <1>2, <1>4, <2>3, <4>2, <5>1, CoordsParts
        <5> QED
          BY <3>2, <4>2, <5>1, <5>2, <5>3 DEF BaselineFrom, DropFirst, Decodes, Msg, Coords, Offsets
      <4> QED
        BY <4>3, <4>4
    <3> QED
      BY <3>1, <3>2
  <2> QED
    BY <2>5, <2>6, <2>7 DEF IsDelta
<1> QED
  BY <1>3, <1>4

LEMMA CopyStep ==
  ASSUME TypeOK, TypeOK', StoreInv, OrderInv, CopyInv, Identified, NEW w \in Workers, Step(w)
  PROVE  CopyInv'
<1>1. ASSUME NEW v \in Workers PROVE BatchInv(v)'
  <2>1. CASE v = w
    BY <2>1, BatchStep
  <2>2. CASE v # w
    BY <2>2, OthersAccounted
  <2> QED
    BY <2>1, <2>2
<1>2. RowsDecode' /\ NoFactSkipped' /\ (IsDelta => CursorKnown)'
  BY CursorSteps, StoreWritten, StoreKept DEF CopyInv
<1> QED
  BY <1>1, <1>2 DEF CopyInv

LEMMA CopyStutter ==
  ASSUME TypeOK, TypeOK', CopyInv, UNCHANGED vars
  PROVE  CopyInv'
<1>1. UNCHANGED <<durable, facts, cursor, pending, durLoc, lastDelta, reset>>
  BY DEF vars, store, volatile, loaded
<1>2. RowsDecode' /\ NoFactSkipped' /\ (IsDelta => CursorKnown)'
  BY <1>1, StoreKept DEF CopyInv
<1>3. ASSUME NEW v \in Workers PROVE BatchInv(v)'
  <2>1. \A p \in Partitions : durable[p] <= durable'[p]
    BY <1>1, BatchTypes
  <2> QED
    BY <1>1, <2>1, BatchStill DEF CopyInv
<1> QED
  BY <1>2, <1>3 DEF CopyInv

LEMMA CopyInvariant ==
  ASSUME Identified
  PROVE  Spec => [](TypeOK /\ StoreInv /\ OrderInv /\ CopyInv)
<1>1. TypeOK /\ StoreInv /\ OrderInv /\ TypeOK' /\ CopyInv /\ [Next]_vars => CopyInv'
  BY CopyStep, CopyStutter DEF Next
<1> QED
  BY <1>1, OrderInvariant, CopyInit, PTL DEF Spec

(***************************************************************************)
(* WriteFactBatch never moves stream_write_progress past a record that     *)
(* decodes unless its fact is in the table or superseded by one that is:   *)
(* for trades always, for deltas whose ids order them and whose workers    *)
(* start from the stored cursor (Identified).  Any number of workers may   *)
(* overlap, each with its own idea of the last delta it accepted.          *)
(***************************************************************************)
THEOREM DurableIsStored ==
  ASSUME Identified
  PROVE  Spec => []NoFactSkipped
<1>1. CopyInv => NoFactSkipped
  BY DEF CopyInv
<1> QED
  BY <1>1, CopyInvariant, PTL

-----------------------------------------------------------------------------
(* The steps of the workers as steps of the abstract copy. *)

LEMMA SameCoords == Store!Coords = Coords
BY DEF Store!Coords, Coords

LEMMA CoordsOffset ==
  ASSUME NEW c \in Coords
  PROVE  c[2] \in Offsets(c[1])
BY DEF Coords

LEMMA StoreInitial == Init => Store!Init
BY SameCoords DEF Init, Store!Init

(* A transaction that is not a replay copies up to the end of its batch. *)
LEMMA WriteCopies ==
  ASSUME TypeOK, StoreInv, CopyInv, Identified, NEW w \in Workers, WriteFactBatch(w)
  PROVE  Store!Next \/ UNCHANGED Store!vars
<1> DEFINE p == Final(w)[1]
           o == Final(w)[2]
           rows == NewRows(w)
<1>1. /\ pc[w] = "tx" /\ tx[w] # NoTx /\ pending[w] # <<>> /\ validateFactBatch(w)
      /\ tx[w] = durable[p] /\ UNCHANGED <<committed, delivered>>
  BY DEF WriteFactBatch, TypeOK, Flushing, StoreInv, BatchSettled, RowLockReads, kafka
<1>2. p \in Partitions /\ o \in Nat /\ durable[p] \in Int /\ o \in Offsets(p)
  BY <1>1, FinalType, BatchTypes, CoordsOffset
<1>3. CASE o <= tx[w]
  BY <1>1, <1>3 DEF WriteFactBatch, Store!vars
<1>4. CASE ~(o <= tx[w])
  <2>1. /\ facts' = [c \in Coords |-> facts[c] + (IF c \in rows THEN 1 ELSE 0)]
        /\ durable' = [durable EXCEPT ![p] = o]
    BY <1>4 DEF WriteFactBatch
  <2>2. \A c \in rows : c \in Coords /\ c[1] = p /\ durable[p] < c[2] /\ c[2] <= o
    <3>1. rows \subseteq AfterOffset(w)
      BY DEF NewRows, writeTradesTx, writeOrderBookDeltasCopy
    <3> HIDE DEF rows
    <3>2. \A c \in FactRecords(w) : c \in Coords /\ c[1] = p
      BY <1>1, FactRecordsType DEF validateFactBatch, FactRecords
    <3> QED
      BY <1>1, <3>1, <3>2, CoordsParts, <1>2 DEF AfterOffset
  <2>3. \A c \in Store!Span(p, durable[p], o) \ rows :
          Decodes(c) => \E d \in Coords : (facts[d] > 0 \/ d \in rows) /\ Supersedes(d, c)
    BY <1>1, CopyCovers, SameCoords DEF Store!Span
  <2> HIDE DEF p, o, rows
  <2>4. facts' = [c \in Coords |-> IF c \in rows THEN 1 ELSE facts[c]]
    <3>1. \A c \in Coords : facts[c] \in Nat /\ (c \in rows => facts[c] = 0)
      <4>1. \A c \in Coords : facts[c] \in Nat /\ (facts[c] > 0 => c[2] <= durable[c[1]])
        BY DEF TypeOK, StoreInv, RowsUpToDurable
      <4>2. \A c \in rows : c \in Coords /\ ~(c[2] <= durable[c[1]])
        BY <1>2, <2>2, CoordsParts
      <4> QED
        BY <4>1, <4>2
    <3>2. \A c \in Coords : facts[c] + (IF c \in rows THEN 1 ELSE 0) = IF c \in rows THEN 1 ELSE facts[c]
      BY <3>1
    <3> QED
      BY <2>1, <3>2
  <2>5. rows \subseteq Store!Span(p, durable[p], o)
    BY <2>2, SameCoords DEF Store!Span
  <2>6. durable[p] < o
    BY <1>1, <1>2, <1>4
  <2>7. Store!Copy(p, o, rows)
    BY <1>1, <2>1, <2>3, <2>4, <2>5, <2>6, SameCoords DEF Store!Copy
  <2>8. rows \in SUBSET Store!Coords
    BY <2>2, SameCoords
  <2> QED
    BY <1>2, <2>7, <2>8 DEF Store!Next
<1> QED
  BY <1>3, <1>4

(* A Kafka commit acknowledges what is durable. *)
LEMMA CommitAcknowledges ==
  ASSUME TypeOK, NEW c \in Coords, Clear(c[1], c[2] + 1), Commit(c),
         UNCHANGED <<durable, facts, delivered>>
  PROVE  Store!Next
<1>1. c[1] \in Partitions /\ c[2] \in Nat /\ c[2] \in Offsets(c[1])
  BY CoordsParts, CoordsOffset
<1> DEFINE p == c[1]
           n == c[2] + 1
<1>2. /\ \A d \in Coords : d[1] = p /\ d[2] < n /\ Decodes(d) => d[2] <= durable[p]
      /\ committed' = [committed EXCEPT ![p] = n]
      /\ n \in Nat
  BY <1>1 DEF Clear, Commit
<1> HIDE DEF p, n
<1>3. Store!Acknowledge(p, n)
  <2>1. \A d \in Store!Span(p, -1, n - 1) : Decodes(d) => d[2] <= durable[p]
    BY <1>2, SameCoords, CoordsParts DEF Store!Span
  <2> QED
    BY <1>2, <2>1 DEF Store!Acknowledge
<1> QED
  BY <1>1, <1>3 DEF Store!Next, p, n

(* The end of a flush shows durable records to the order book. *)
LEMMA FlushDelivers ==
  ASSUME TypeOK, StoreInv, NEW w \in Workers, FlushDone(w)
  PROVE  Store!Next \/ UNCHANGED Store!vars
<1>1. UNCHANGED <<durable, facts, committed>> /\ pc[w] = "notify"
  BY DEF FlushDone, Gone, store, kafka
<1>2. CASE ~IsDelta
  BY <1>1, <1>2 DEF FlushDone, Store!vars
<1>3. CASE IsDelta
  <2>1. Store!Deliver(FactRecords(w))
    BY <1>1, <1>3, WrittenFacts DEF FlushDone, Store!Deliver
  <2>2. FactRecords(w) \in SUBSET Store!Coords
    BY FactRecordsType, SameCoords
  <2> QED
    BY <2>1, <2>2 DEF Store!Next
<1> QED
  BY <1>2, <1>3

LEMMA VisibleSteps ==
  ASSUME NEW w \in Workers, Step(w)
  PROVE  \/ WriteFactBatch(w) \/ FlushDone(w)
         \/ pc[w] = "commit" /\ Commit(Final(w)) /\ UNCHANGED <<durable, facts, delivered>>
         \/ pc[w] = "poisonCommit" /\ Commit(cur[w]) /\ UNCHANGED <<durable, facts, delivered>>
         \/ UNCHANGED <<durable, facts, committed, delivered>>
BY DEF Step, startInput, Assign, fetch, FlushInterval, FlushOtherPartition,
       ensureProgress, prepareReplay, prepareFact, prepareBad, WriteBegin, WriteAcked,
       WriteUnacked, WriteRollback, CommitAcked, CommitUnacked,
       WritePoisonRecord, PoisonFailed, CommitPoison, stopInput, Leave, Crash, Gone, kafka, store

LEMMA StepRefines ==
  ASSUME TypeOK, StoreInv, OrderInv, CopyInv, Identified, NEW w \in Workers, Step(w)
  PROVE  Store!Next \/ UNCHANGED Store!vars
<1>1. CASE WriteFactBatch(w)
  BY <1>1, WriteCopies
<1>2. CASE FlushDone(w)
  BY <1>2, FlushDelivers
<1>3. CASE pc[w] = "commit" /\ Commit(Final(w)) /\ UNCHANGED <<durable, facts, delivered>>
  BY <1>3, WrittenIsClear, CommitAcknowledges
<1>4. CASE pc[w] = "poisonCommit" /\ Commit(cur[w]) /\ UNCHANGED <<durable, facts, delivered>>
  BY <1>4, PoisonIsClear, CommitAcknowledges DEF OrderInv
<1>5. CASE UNCHANGED <<durable, facts, committed, delivered>>
  BY <1>5 DEF Store!vars
<1> QED
  BY <1>1, <1>2, <1>3, <1>4, <1>5, VisibleSteps

(***************************************************************************)
(* To the readers of the fact table, to Kafka and to the order book, the   *)
(* workers with their batches, retries, dead letters, crashes, stops and   *)
(* rebalances are one copy of each partition's log, front to back and      *)
(* never interrupted: every step of FactIngest is a step of FactStore or   *)
(* none.  WriteFactBatch is the copy, CommitMessages the acknowledgement,  *)
(* onDeltaApplied the delivery.                                            *)
(***************************************************************************)
THEOREM IngestionIsACopy ==
  ASSUME Identified
  PROVE  Spec => ImplementsFactStore
<1>1. TypeOK /\ StoreInv /\ OrderInv /\ CopyInv /\ [Next]_vars => [Store!Next]_(Store!vars)
  <2> SUFFICES ASSUME TypeOK, StoreInv, OrderInv, CopyInv, [Next]_vars
               PROVE  Store!Next \/ UNCHANGED Store!vars
    OBVIOUS
  <2>1. CASE Next
    BY <2>1, StepRefines DEF Next
  <2>2. CASE UNCHANGED vars
    BY <2>2 DEF vars, kafka, store, Store!vars
  <2> QED
    BY <2>1, <2>2
<1> QED
  BY <1>1, CopyInvariant, StoreInitial, PTL DEF Spec, ImplementsFactStore, Store!Spec

=============================================================================
