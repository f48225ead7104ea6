--------------------------- MODULE OrderBookProofs ---------------------------
(***************************************************************************)
(* Proofs about OrderBook for every stream of deltas and snapshots, every  *)
(* buffer and channel size, and every number of losses and restarts.       *)
(***************************************************************************)
EXTENDS OrderBook, SequenceTheorems, TLAPS

(* A snapshot worker waits for at most one of the snapshots on their way,   *)
(* and only while it is at that very record.                                *)
Waiting(it) == it.live => spc = "wait" /\ it.off = off

OneWaiter ==
  /\ Waiting(rcv)
  /\ \A i \in DOMAIN chan : Waiting(chan[i])
  /\ \A i \in DOMAIN chan : chan[i].live => ~rcv.live
  /\ \A i, j \in DOMAIN chan : chan[i].live /\ chan[j].live => i = j

Inv == TypeOK /\ OneWaiter

LEMMA TailFacts ==
  ASSUME NEW S, NEW s \in Seq(S), s # <<>>
  PROVE  /\ Head(s) \in S /\ Tail(s) \in Seq(S)
         /\ Len(Tail(s)) = Len(s) - 1
         /\ Head(s) = s[1] /\ 1 \in DOMAIN s
         /\ \A i \in DOMAIN Tail(s) : i + 1 \in DOMAIN s /\ Tail(s)[i] = s[i + 1]
OBVIOUS

LEMMA NoItemFacts ==
  /\ NoItem \notin Item
  /\ NoItem.off = 0 /\ ~NoItem.live
<1>1. Len(Snapshots) \in Nat
  BY SnapshotsAssumption
<1> QED
  BY <1>1 DEF NoItem, Item

LEMMA EmptyFacts ==
  /\ \A S : <<>> \in Seq(S)
  /\ Len(<<>>) = 0 /\ Len(<<>>) <= MaxPending /\ Len(<<>>) <= ChanSize
  /\ Nil \in OptId /\ 0 \in 0 .. MaxLost /\ 0 \in 0 .. MaxStops
BY BoundsAssumption DEF OptId, Nil

(* Taking the waiter's claim off an item. *)
LEMMA DeadItem ==
  ASSUME NEW it \in Item \cup {NoItem}
  PROVE  /\ [it EXCEPT !.live = FALSE].live = FALSE
         /\ [it EXCEPT !.live = FALSE].off = it.off
         /\ it \in Item => [it EXCEPT !.live = FALSE] \in Item
         /\ it = NoItem => [it EXCEPT !.live = FALSE] = NoItem
<1>1. CASE it \in Item
  BY <1>1, NoItemFacts DEF Item
<1>2. CASE it = NoItem
  <2>1. [NoItem EXCEPT !.live = FALSE] = NoItem
    <3> DEFINE T == [off : {0}, live : BOOLEAN]
    <3>1. NoItem \in T /\ NoItem.off = 0 /\ NoItem.live = FALSE
      BY DEF NoItem
    <3> HIDE DEF T
    <3>2. \A r \in T : r.live = FALSE => [r EXCEPT !.live = FALSE] = r
      BY DEF T
    <3> QED
      BY <3>1, <3>2
  <2> QED
    BY <1>2, <2>1, NoItemFacts
<1> QED
  BY <1>1, <1>2

LEMMA ConstantTypes ==
  /\ EmptyBook \in Book
  /\ NoRow \in Row
  /\ Len(Deltas) \in Nat
  /\ Len(Snapshots) \in Nat
  /\ \A n \in 1 .. Len(Deltas) : Deltas[n] \in Delta
  /\ \A o \in 1 .. Len(Snapshots) : Snapshots[o] \in Snapshot
  /\ \A o \in 1 .. Len(Snapshots) : Exchange[Snapshots[o].after] \in Book
<1>1. EmptyBook \in Book
  BY DEF EmptyBook, Book
<1>2. NoRow \in Row
  BY <1>1 DEF NoRow, Row, OptId, Nil
<1>3. /\ Len(Deltas) \in Nat /\ Len(Snapshots) \in Nat
      /\ \A n \in 1 .. Len(Deltas) : Deltas[n] \in Delta
      /\ \A o \in 1 .. Len(Snapshots) : Snapshots[o] \in Snapshot
  BY DeltasAssumption, SnapshotsAssumption
<1>4. \A o \in 1 .. Len(Snapshots) : Snapshots[o].after \in 0 .. Len(Deltas)
  BY <1>3, SnapshotsAssumption DEF Snapshot
<1>5. \A o \in 1 .. Len(Snapshots) : Exchange[Snapshots[o].after] \in Book
  BY <1>4, ExchangeAssumption
<1> QED
  BY <1>1, <1>2, <1>3, <1>5

LEMMA ApplyOneType ==
  ASSUME levels \in Book, seq \in OptId, NEW d \in Delta, applyOne(d)
  PROVE  levels' \in Book /\ last' \in OptId /\ seq' \in OptId
<1>1. levels' \in Book
  BY DEF applyOne, ApplyLevels, Delta, Book, OptId, Nil
<1>2. last' \in OptId /\ seq' \in OptId
  BY DEF applyOne, Delta
<1> QED
  BY <1>1, <1>2

LEMMA InvInit == Init => Inv
<1> SUFFICES ASSUME Init PROVE Inv
  OBVIOUS
<1>1. TypeOK
  <2>1. /\ next \in 1 .. Len(Deltas) + 1
        /\ off \in 0 .. Len(Snapshots) /\ pos \in 0 .. Len(Snapshots)
        /\ committed \in 0 .. Len(Snapshots)
    BY ConstantTypes DEF Init
  <2>2. /\ levels \in Book /\ last \in OptId /\ seq \in OptId
        /\ pending \in Seq(Delta) /\ Len(pending) <= MaxPending
        /\ buf \in Seq(Delta)
        /\ chan \in Seq(Item) /\ Len(chan) <= ChanSize
        /\ gen \in Row /\ rows \subseteq Row
        /\ lost \in 0 .. MaxLost /\ stops \in 0 .. MaxStops
    BY ConstantTypes, EmptyFacts DEF Init
  <2> QED
    BY <2>1, <2>2 DEF Init, TypeOK
<1>2. OneWaiter
  BY DEF Init, OneWaiter, Waiting, NoItem
<1> QED
  BY <1>1, <1>2 DEF Inv

(* The steps of the delta callback and of the generator leave the snapshot  *)
(* worker and the channel alone.                                            *)
LEMMA InvDelta ==
  ASSUME Inv, DeltaStep \/ LoseDelta
  PROVE  Inv'
<1> USE ConstantTypes, BoundsAssumption DEF Inv
<1>0. next <= Len(Deltas) => Deltas[next] \in Delta /\ next + 1 \in 1 .. Len(Deltas) + 1
  BY DEF TypeOK
<1>1. CASE BufferDelta
  <2>1. pending' \in Seq(Delta) /\ Len(pending') <= MaxPending
    BY <1>1, <1>0 DEF BufferDelta, Deliver, BufferFull, TypeOK
  <2> QED
    BY <1>1, <1>0, <2>1
    DEF BufferDelta, Deliver, TypeOK, OneWaiter, Waiting, drain, snap, generate
<1>2. CASE applyDelta
  <2>1. levels' \in Book /\ last' \in OptId /\ seq' \in OptId
    BY <1>2, <1>0, ApplyOneType DEF applyDelta, Deliver, TypeOK
  <2> QED
    BY <1>2, <1>0, <2>1
    DEF applyDelta, Deliver, TypeOK, OneWaiter, Waiting, drain, snap, generate
<1>3. CASE DeltaFailed
  BY <1>3, <1>0
  DEF DeltaFailed, Deliver, TypeOK, OneWaiter, Waiting, book, drain, snap, generate
<1>4. CASE Reset
  <2>1. TypeOK'
    BY <1>4, EmptyFacts DEF Reset, TypeOK, drain, snap, generate
  <2>2. OneWaiter'
    BY <1>4 DEF Reset, OneWaiter, Waiting, drain, snap
  <2> QED
    BY <2>1, <2>2
<1>5. CASE LoseDelta
  BY <1>5, <1>0
  DEF LoseDelta, TypeOK, OneWaiter, Waiting, book, drain, snap, generate
<1> QED
  BY <1>1, <1>2, <1>3, <1>4, <1>5 DEF DeltaStep

LEMMA InvGenerate ==
  ASSUME Inv, GenerateStep
  PROVE  Inv'
<1> USE ConstantTypes DEF Inv
<1>1. CASE SnapshotTick
  BY <1>1 DEF SnapshotTick, TypeOK, OneWaiter, Waiting, book, drain, delta, snap
<1>2. CASE generateSnapshot
  <2>1. gen' \in Row
    BY <1>2 DEF generateSnapshot, TypeOK, Row
  <2> QED
    BY <1>2, <2>1 DEF generateSnapshot, TypeOK, OneWaiter, Waiting, book, drain, delta, snap
<1>3. CASE WriteOrderBookSnapshots
  BY <1>3
  DEF WriteOrderBookSnapshots, TypeOK, OneWaiter, Waiting, book, drain, delta, snap
<1> QED
  BY <1>1, <1>2, <1>3 DEF GenerateStep

LEMMA InvInput ==
  ASSUME Inv, InputStep \/ stopInput
  PROVE  Inv'
<1> USE ConstantTypes DEF Inv
<1>1. CASE startInput
  BY <1>1 DEF startInput, TypeOK, OneWaiter, Waiting, book, drain, delta, generate
<1>2. CASE Fetch
  BY <1>2 DEF Fetch, TypeOK, OneWaiter, Waiting, book, drain, delta, generate
<1>3. CASE Send
  <2> DEFINE it == [off |-> off, live |-> TRUE]
  <2>1. it \in Item
    BY <1>3 DEF Send, TypeOK, Item
  <2>2. /\ chan' \in Seq(Item) /\ Len(chan') = Len(chan) + 1
        /\ DOMAIN chan' = DOMAIN chan \cup {Len(chan) + 1}
        /\ \A i \in DOMAIN chan : chan'[i] = chan[i]
        /\ chan'[Len(chan) + 1] = it
    BY <1>3, <2>1 DEF Send, TypeOK
  <2>3. TypeOK'
    BY <1>3, <2>2, BoundsAssumption DEF Send, TypeOK, book, drain, delta, generate
  <2>4. ~rcv.live /\ \A i \in DOMAIN chan : ~chan[i].live
    BY <1>3 DEF Send, OneWaiter, Waiting
  <2>5. OneWaiter'
    BY <1>3, <2>2, <2>4 DEF Send, OneWaiter, Waiting, drain
  <2> QED
    BY <2>3, <2>5
<1>4. CASE Commit
  BY <1>4 DEF Commit, TypeOK, OneWaiter, Waiting, book, drain, delta, generate
<1>5. CASE stopInput
  <2>0. chan \in Seq(Item) /\ \A i \in DOMAIN chan : chan[i] \in Item
    BY DEF TypeOK
  <2>1. \A i \in DOMAIN chan : /\ [chan[i] EXCEPT !.live = FALSE] \in Item
                               /\ [chan[i] EXCEPT !.live = FALSE].live = FALSE
    BY <2>0, DeadItem
  <2>2. chan' \in Seq(Item) /\ Len(chan') = Len(chan) /\ DOMAIN chan' = DOMAIN chan
    <3>1. DOMAIN chan = 1 .. Len(chan) /\ Len(chan) \in Nat
      BY <2>0
    <3>2. chan' \in [1 .. Len(chan) -> Item]
      BY <1>5, <2>1, <3>1 DEF stopInput
    <3> QED
      BY <3>1, <3>2
  <2>3. rcv' \in Item \cup {NoItem} /\ ~rcv'.live
    BY <1>5, DeadItem DEF stopInput, TypeOK
  <2>4. \A i \in DOMAIN chan' : ~chan'[i].live
    BY <1>5, <2>1, <2>2 DEF stopInput
  <2>5. TypeOK'
    BY <1>5, <2>2, <2>3, BoundsAssumption DEF stopInput, TypeOK, book, delta, generate
  <2>6. OneWaiter'
    BY <2>3, <2>4 DEF OneWaiter, Waiting
  <2> QED
    BY <2>5, <2>6
<1> QED
  BY <1>1, <1>2, <1>3, <1>4, <1>5 DEF InputStep

(* The head of the channel moves to the receive loop, or is dropped. *)
LEMMA TakeItem ==
  ASSUME Inv, chan # <<>>, Unlocked, chan' = Tail(chan), spc' = spc, off' = off,
         rcv' \in {Head(chan), NoItem}
  PROVE  /\ chan' \in Seq(Item) /\ Len(chan') <= ChanSize
         /\ rcv' \in Item \cup {NoItem}
         /\ OneWaiter'
<1>1. chan \in Seq(Item) /\ Len(chan) <= ChanSize
  BY DEF Inv, TypeOK
<1>2. /\ Head(chan) \in Item /\ Tail(chan) \in Seq(Item)
      /\ Len(Tail(chan)) = Len(chan) - 1
      /\ Head(chan) = chan[1] /\ 1 \in DOMAIN chan
      /\ \A i \in DOMAIN Tail(chan) : i + 1 \in DOMAIN chan /\ Tail(chan)[i] = chan[i + 1]
  BY <1>1, TailFacts
<1>3. Len(chan') <= ChanSize
  BY <1>1, <1>2, BoundsAssumption
<1>4. DOMAIN chan' \subseteq Nat \ {0}
  BY <1>2
<1>5. \A i \in DOMAIN chan' : chan[1].live => ~chan'[i].live
  BY <1>2, <1>4 DEF Inv, OneWaiter
<1>6. \A i, j \in DOMAIN chan' : chan'[i].live /\ chan'[j].live => i = j
  BY <1>2, <1>4 DEF Inv, OneWaiter
<1>7. \A i \in DOMAIN chan' : Waiting(chan[i + 1]) /\ chan'[i] = chan[i + 1]
  BY <1>2 DEF Inv, OneWaiter
<1>8. rcv'.live => rcv' = chan[1]
  BY <1>2, NoItemFacts
<1>9. Waiting(chan[1])
  BY <1>2 DEF Inv, OneWaiter
<1>10. OneWaiter'
  BY <1>5, <1>6, <1>7, <1>8, <1>9 DEF OneWaiter, Waiting
<1> QED
  BY <1>2, <1>3, <1>10

LEMMA InvReceive ==
  ASSUME Inv, ReceiveStep
  PROVE  Inv'
<1> USE ConstantTypes DEF Inv
<1>1. CASE RejectSnapshot
  <2>1. chan' \in Seq(Item) /\ Len(chan') <= ChanSize /\ OneWaiter'
    BY <1>1, TakeItem DEF RejectSnapshot, Unlocked, drain
  <2>2. TypeOK'
    BY <1>1, <2>1 DEF RejectSnapshot, TypeOK, book, drain, delta, generate
  <2> QED
    BY <2>1, <2>2
<1>2. CASE applySnapshot
  <2>1. /\ chan' \in Seq(Item) /\ Len(chan') <= ChanSize
        /\ rcv' \in Item \cup {NoItem} /\ OneWaiter'
    BY <1>2, TakeItem DEF applySnapshot
  <2>2. Head(chan).off \in 1 .. Len(Snapshots)
    <3>1. Head(chan) \in Item
      BY <1>2, TailFacts DEF applySnapshot, TypeOK
    <3> QED
      BY <3>1 DEF Item
  <2>3. levels' \in Book /\ last' \in OptId /\ seq' \in OptId
    BY <1>2, <2>2, EmptyFacts DEF applySnapshot, Snapshot
  <2>4. pending' \in Seq(Delta) /\ Len(pending') <= MaxPending /\ buf' \in Seq(Delta)
    BY <1>2, EmptyFacts DEF applySnapshot, TypeOK
  <2>5. TypeOK'
    BY <1>2, <2>1, <2>3, <2>4 DEF applySnapshot, TypeOK, delta, generate
  <2> QED
    BY <2>1, <2>5
<1>3. CASE drainSkip
  <2>1. buf' \in Seq(Delta)
    BY <1>3, TailFacts DEF drainSkip, TypeOK
  <2> QED
    BY <1>3, <2>1
    DEF drainSkip, TypeOK, OneWaiter, Waiting, book, delta, snap, generate
<1>4. CASE drainPending
  <2>1. buf' \in Seq(Delta) /\ Head(buf) \in Delta
    BY <1>4, TailFacts DEF drainPending, TypeOK
  <2>2. levels' \in Book /\ last' \in OptId /\ seq' \in OptId
    BY <1>4, <2>1, ApplyOneType DEF drainPending, TypeOK
  <2> QED
    BY <1>4, <2>1, <2>2
    DEF drainPending, TypeOK, OneWaiter, Waiting, delta, snap, generate
<1>5. CASE drainGap
  BY <1>5, EmptyFacts, NoItemFacts
  DEF drainGap, TypeOK, OneWaiter, Waiting, book, delta, snap, generate
<1>6. CASE Acknowledge
  <2>1. rcv \in Item
    BY <1>6 DEF Acknowledge, Unlocked, TypeOK
  <2>2. rcv.live => off # 0 /\ \A i \in DOMAIN chan : ~chan[i].live
    BY <2>1 DEF OneWaiter, Waiting, TypeOK, Item
  <2>3. TypeOK'
    BY <1>6, <2>1, <2>2
    DEF Acknowledge, TypeOK, Item, book, delta, generate
  <2>4. OneWaiter'
    BY <1>6, <2>2, NoItemFacts DEF Acknowledge, OneWaiter, Waiting
  <2> QED
    BY <2>3, <2>4
<1> QED
  BY <1>1, <1>2, <1>3, <1>4, <1>5, <1>6 DEF ReceiveStep

LEMMA InvRestart ==
  ASSUME Inv, RestartWorker
  PROVE  Inv'
<1>1. TypeOK'
  <2>1. stops' \in 0 .. MaxStops
    BY BoundsAssumption DEF Inv, TypeOK, RestartWorker
  <2> QED
    BY <2>1, EmptyFacts, ConstantTypes DEF Inv, TypeOK, RestartWorker
<1>2. OneWaiter'
  BY NoItemFacts DEF RestartWorker, OneWaiter, Waiting
<1> QED
  BY <1>1, <1>2 DEF Inv

LEMMA InvNext == Inv /\ [Next]_vars => Inv'
<1> SUFFICES ASSUME Inv, [Next]_vars PROVE Inv'
  OBVIOUS
<1>1. CASE UNCHANGED vars
  BY <1>1
  DEF Inv, TypeOK, OneWaiter, Waiting, vars, book, drain, delta, snap, generate
<1> QED
  BY <1>1, InvDelta, InvGenerate, InvInput, InvReceive, InvRestart DEF Next

LEMMA Invariance == Spec => []Inv
BY InvInit, InvNext, PTL DEF Spec

(* Every variable keeps its type; in particular the buffer and the channel  *)
(* stay within their sizes, and a worker that sends, waits or commits has a *)
(* record.                                                                  *)
THEOREM TypeCorrect == Spec => []TypeOK
<1>1. Inv => TypeOK
  BY DEF Inv
<1> QED
  BY <1>1, Invariance, PTL

-----------------------------------------------------------------------------
(* The book is a book of the exchange, and so is what it is fed with: every *)
(* buffered delta is one of the exchange's, a ready book has a sequence and *)
(* equals the exchange's book there, and one that is not ready is empty.    *)
FromExchange(s) == \A i \in DOMAIN s : \E n \in 1 .. Len(Deltas) : s[i] = Deltas[n]

ExactInv ==
  /\ IF ready
     THEN seq \in 0 .. Len(Deltas) /\ levels = Exchange[seq] /\ pending = <<>>
     ELSE Unlocked /\ levels = EmptyBook
  /\ FromExchange(pending)
  /\ FromExchange(buf)
  /\ gpc = "write" => gen.seq \in 0 .. Len(Deltas) /\ gen.levels = Exchange[gen.seq]
  /\ RowsExact

(* Applying the delta after the book's sequence gives the next book. *)
LEMMA ApplyNext ==
  ASSUME Sequenced, NEW n \in 1 .. Len(Deltas),
         seq \in 0 .. Len(Deltas), levels = Exchange[seq],
         checkSequenceMatch(Deltas[n]), applyOne(Deltas[n])
  PROVE  seq' \in 0 .. Len(Deltas) /\ levels' = Exchange[seq']
<1>1. Deltas[n].seq = n /\ n # Nil /\ seq # Nil /\ n \in 1 .. Len(Deltas)
  BY ConstantTypes DEF Sequenced, Nil
<1>2. seq = n - 1
  BY <1>1, ConstantTypes DEF checkSequenceMatch
<1>3. seq' = n /\ levels' = ApplyLevels(Exchange[n - 1], Deltas[n])
  BY <1>1, <1>2 DEF applyOne
<1>4. levels' = Exchange[n]
  BY <1>3, ExchangeAssumption
<1> QED
  BY <1>1, <1>3, <1>4, ConstantTypes

LEMMA ExactInit == Init => ExactInv
BY DEF Init, ExactInv, FromExchange, RowsExact, Unlocked

LEMMA ExactNext ==
  ASSUME Sequenced, Inv, ExactInv, [Next]_vars
  PROVE  ExactInv'
<1> USE ConstantTypes
<1>1. CASE BufferDelta
  <2>1. next \in 1 .. Len(Deltas) /\ ~ready /\ pending \in Seq(Delta)
    BY <1>1 DEF BufferDelta, Deliver, Inv, TypeOK
  <2>2. /\ DOMAIN pending' = DOMAIN pending \cup {Len(pending) + 1}
        /\ \A i \in DOMAIN pending : pending'[i] = pending[i]
        /\ pending'[Len(pending) + 1] = Deltas[next]
    BY <1>1, <2>1 DEF BufferDelta
  <2>3. FromExchange(pending)'
    BY <2>1, <2>2 DEF FromExchange, ExactInv
  <2> QED
    BY <1>1, <2>1, <2>3
    DEF BufferDelta, ExactInv, FromExchange, RowsExact, Unlocked, drain, generate
<1>2. CASE applyDelta
  <2>1. next \in 1 .. Len(Deltas) /\ ready
    BY <1>2 DEF applyDelta, Deliver, Inv, TypeOK
  <2>2. seq' \in 0 .. Len(Deltas) /\ levels' = Exchange[seq']
    BY <1>2, <2>1, ApplyNext DEF applyDelta, ExactInv
  <2> QED
    BY <1>2, <2>1, <2>2
    DEF applyDelta, ExactInv, FromExchange, RowsExact, Unlocked, drain, generate
<1>3. CASE DeltaFailed \/ LoseDelta
  BY <1>3
  DEF DeltaFailed, LoseDelta, ExactInv, FromExchange, RowsExact, Unlocked, book, drain, generate
<1>4. CASE Reset
  BY <1>4 DEF Reset, ExactInv, FromExchange, RowsExact, Unlocked, drain, generate
<1>5. CASE startInput \/ Fetch \/ Send \/ Commit \/ RejectSnapshot
  BY <1>5
  DEF startInput, Fetch, Send, Commit, RejectSnapshot, ExactInv, FromExchange, RowsExact,
      Unlocked, book, drain, generate
<1>6. CASE stopInput
  <2>1. Unlocked => Unlocked'
    BY <1>6, DeadItem DEF stopInput, Unlocked
  <2> QED
    BY <1>6, <2>1 DEF stopInput, ExactInv, FromExchange, RowsExact, book, generate
<1>7. CASE applySnapshot
  <2>1. Head(chan) \in Item
    BY <1>7, TailFacts DEF applySnapshot, Inv, TypeOK
  <2>2. Head(chan).off \in 1 .. Len(Snapshots)
    BY <2>1 DEF Item
  <2>3. /\ Snapshots[Head(chan).off].seq = Snapshots[Head(chan).off].after
        /\ Snapshots[Head(chan).off].after \in 0 .. Len(Deltas)
    BY <2>2, SnapshotsAssumption DEF Sequenced, Snapshot
  <2> QED
    BY <1>7, <2>3 DEF applySnapshot, ExactInv, FromExchange, RowsExact, generate
<1>8. CASE drainSkip
  <2>1. \A i \in DOMAIN Tail(buf) : i + 1 \in DOMAIN buf /\ Tail(buf)[i] = buf[i + 1]
    BY <1>8, TailFacts DEF drainSkip, Inv, TypeOK
  <2>2. FromExchange(buf)'
    BY <1>8, <2>1 DEF drainSkip, FromExchange, ExactInv
  <2> QED
    BY <1>8, <2>2 DEF drainSkip, ExactInv, FromExchange, RowsExact, Unlocked, book, generate
<1>9. CASE drainPending
  <2>1. /\ Head(buf) = buf[1] /\ 1 \in DOMAIN buf
        /\ \A i \in DOMAIN Tail(buf) : i + 1 \in DOMAIN buf /\ Tail(buf)[i] = buf[i + 1]
    BY <1>9, TailFacts DEF drainPending, Inv, TypeOK
  <2>2. FromExchange(buf)'
    BY <1>9, <2>1 DEF drainPending, FromExchange, ExactInv
  <2>3. PICK n \in 1 .. Len(Deltas) : Head(buf) = Deltas[n]
    BY <2>1 DEF FromExchange, ExactInv
  <2>4. ready
    BY <1>9 DEF drainPending, ExactInv
  <2>5. seq' \in 0 .. Len(Deltas) /\ levels' = Exchange[seq']
    BY <1>9, <2>3, <2>4, ApplyNext DEF drainPending, ExactInv
  <2> QED
    BY <1>9, <2>2, <2>4, <2>5
    DEF drainPending, ExactInv, FromExchange, RowsExact, Unlocked, generate
<1>10. CASE drainGap \/ Acknowledge
  BY <1>10
  DEF drainGap, Acknowledge, ExactInv, FromExchange, RowsExact, Unlocked, book, generate
<1>11. CASE SnapshotTick
  BY <1>11 DEF SnapshotTick, ExactInv, FromExchange, RowsExact, Unlocked, book, drain
<1>12. CASE generateSnapshot
  <2>1. gpc' = "write" => gen'.seq \in 0 .. Len(Deltas) /\ gen'.levels = Exchange[gen'.seq]
    BY <1>12 DEF generateSnapshot, ExactInv
  <2> QED
    BY <1>12, <2>1
    DEF generateSnapshot, ExactInv, FromExchange, RowsExact, Unlocked, book, drain
<1>13. CASE WriteOrderBookSnapshots
  BY <1>13
  DEF WriteOrderBookSnapshots, ExactInv, FromExchange, RowsExact, Unlocked, book, drain
<1>14. CASE RestartWorker
  BY <1>14 DEF RestartWorker, ExactInv, FromExchange, RowsExact, Unlocked
<1>15. CASE UNCHANGED vars
  BY <1>15 DEF vars, ExactInv, FromExchange, RowsExact, Unlocked, book, drain, generate
<1> QED
  BY <1>1, <1>2, <1>3, <1>4, <1>5, <1>6, <1>7, <1>8, <1>9, <1>10, <1>11, <1>12, <1>13,
     <1>14, <1>15
  DEF Next, DeltaStep, InputStep, ReceiveStep, GenerateStep

LEMMA Exactness == ASSUME Sequenced PROVE Spec => []ExactInv
<1>1. Inv /\ ExactInv /\ [Next]_vars => ExactInv'
  BY ExactNext
<1> QED
  BY <1>1, ExactInit, Invariance, PTL DEF Spec

(* On a sequenced stream the book, whenever it is ready, is the exchange's  *)
(* book at its own sequence: no gap, stale delta, buffer overflow, reset or *)
(* restart makes orderBookState show levels that never stood together.      *)
THEOREM BookIsExact == ASSUME Sequenced PROVE Spec => []BookExact
<1>1. ExactInv => BookExact
  BY DEF ExactInv, BookExact
<1> QED
  BY <1>1, Exactness, PTL

(* And so is every row that snapshotGenerateLoop writes, though it reads    *)
(* the ready flag before it takes the lock.                                 *)
THEOREM PersistedSnapshotsExact == ASSUME Sequenced PROVE Spec => []RowsExact
<1>1. ExactInv => RowsExact
  BY DEF ExactInv
<1> QED
  BY <1>1, Exactness, PTL

-----------------------------------------------------------------------------
(* Whoever holds the lock over several steps has made the book ready, and   *)
(* nothing is buffered from then on.                                        *)
DrainInv == (ready => pending = <<>>) /\ (~Unlocked => ready)

LEMMA DrainNext == ASSUME DrainInv, [Next]_vars PROVE DrainInv'
<1>1. CASE DeltaStep \/ LoseDelta
  BY <1>1
  DEF DeltaStep, BufferDelta, applyDelta, DeltaFailed, Reset, LoseDelta, Deliver,
      DrainInv, Unlocked, book, drain
<1>2. CASE InputStep \/ GenerateStep
  BY <1>2
  DEF InputStep, startInput, Fetch, Send, Commit, GenerateStep, SnapshotTick,
      generateSnapshot, WriteOrderBookSnapshots, DrainInv, Unlocked, book, drain
<1>3. CASE ReceiveStep
  BY <1>3
  DEF ReceiveStep, RejectSnapshot, applySnapshot, drainSkip, drainPending, drainGap,
      Acknowledge, DrainInv, Unlocked, book, drain
<1>4. CASE stopInput
  BY <1>4, DeadItem DEF stopInput, DrainInv, Unlocked, book
<1>5. CASE RestartWorker
  BY <1>5 DEF RestartWorker, DrainInv, Unlocked
<1>6. CASE UNCHANGED vars
  BY <1>6 DEF vars, DrainInv, Unlocked, book, drain
<1> QED
  BY <1>1, <1>2, <1>3, <1>4, <1>5, <1>6 DEF Next

(* A ready book keeps no delta back, whatever cursors the stream carries,   *)
(* so applyDelta's own call of drainPending never has anything to drain.    *)
THEOREM ReadyIsDrained == Spec => []DrainedWhenReady
<1>1. Init => DrainInv
  BY DEF Init, DrainInv, Unlocked
<1>2. DrainInv /\ [Next]_vars => DrainInv'
  BY DrainNext
<1>3. DrainInv => DrainedWhenReady
  BY DEF DrainInv, DrainedWhenReady
<1> QED
  BY <1>1, <1>2, <1>3, PTL DEF Spec

-----------------------------------------------------------------------------
(* The snapshot worker goes past a decodable record only once it is         *)
(* applied: all it has fetched since it started are, but the one it is at.  *)
AckInv ==
  /\ spc \in {"send", "wait", "commit"} => off <= pos
  /\ spc = "commit" => off \in applied
  /\ spc # "off" => \A o \in 1 .. pos :
       Snapshots[o].kind # "bad" => o \in applied \/ (spc \in {"send", "wait"} /\ o = off)
  /\ CommittedAreApplied

LEMMA AckNext == ASSUME Inv, AckInv, [Next]_vars PROVE AckInv'
<1> USE ConstantTypes
<1>0. pos \in Nat /\ off \in Nat /\ committed \in Nat
  BY DEF Inv, TypeOK
<1>1. CASE \/ DeltaStep \/ LoseDelta \/ GenerateStep
           \/ RejectSnapshot \/ applySnapshot \/ drainSkip \/ drainPending \/ drainGap
  <2>1. UNCHANGED <<spc, off, pos, committed, applied>>
    BY <1>1
    DEF DeltaStep, BufferDelta, applyDelta, DeltaFailed, Reset, LoseDelta, GenerateStep,
        SnapshotTick, generateSnapshot, WriteOrderBookSnapshots, RejectSnapshot,
        applySnapshot, drainSkip, drainPending, drainGap, snap
  <2> QED
    BY <2>1 DEF AckInv, CommittedAreApplied
<1>2. CASE startInput
  BY <1>2 DEF startInput, AckInv, CommittedAreApplied
<1>3. CASE Fetch
  <2>1. \A o \in 1 .. pos' : o \in 1 .. pos \/ o = pos + 1
    BY <1>3, <1>0 DEF Fetch
  <2> QED
    BY <1>3, <1>0, <2>1 DEF Fetch, AckInv, CommittedAreApplied
<1>4. CASE Send
  BY <1>4 DEF Send, AckInv, CommittedAreApplied
<1>5. CASE Commit
  <2>1. \A o \in 1 .. off : o \in 1 .. pos
    BY <1>5, <1>0 DEF Commit, AckInv
  <2> QED
    BY <1>5, <2>1 DEF Commit, AckInv, CommittedAreApplied
<1>6. CASE stopInput \/ RestartWorker
  BY <1>6 DEF stopInput, RestartWorker, AckInv, CommittedAreApplied
<1>7. CASE Acknowledge
  <2>1. rcv.live => spc = "wait" /\ rcv.off = off
    BY DEF Inv, OneWaiter, Waiting
  <2> QED
    BY <1>7, <2>1 DEF Acknowledge, AckInv, CommittedAreApplied
<1>8. CASE UNCHANGED vars
  BY <1>8 DEF vars, snap, AckInv, CommittedAreApplied
<1> QED
  BY <1>1, <1>2, <1>3, <1>4, <1>5, <1>6, <1>7, <1>8 DEF Next, InputStep, ReceiveStep

(* A decodable reference snapshot is committed in Kafka only after the book *)
(* has taken it, through pauses that leave unacknowledged snapshots in the  *)
(* channel, failed commits and restarts of the worker.                      *)
THEOREM NoSnapshotLost == Spec => []CommittedAreApplied
<1>1. Init => AckInv
  BY DEF Init, AckInv, CommittedAreApplied
<1>2. Inv /\ AckInv /\ [Next]_vars => AckInv'
  BY AckNext
<1>3. AckInv => CommittedAreApplied
  BY DEF AckInv
<1> QED
  BY <1>1, <1>2, <1>3, Invariance, PTL DEF Spec
==============================================================================
