------------------------------ MODULE OrderBook ------------------------------
(***************************************************************************)
(* The in-memory order book of one group Worker: orderBookState, the delta *)
(* callback onDeltaApplied, the reference snapshots snapshotInputWorker    *)
(* hands over for snapshotReceiveLoop to apply and acknowledge, and the    *)
(* snapshots that snapshotGenerateLoop writes.                             *)
(*                                                                         *)
(* The exchange is a series of books: delta n turns book n - 1 into book   *)
(* n.  Deltas reach the callback in order, and some never do: the adapter  *)
(* drops one, or a canceled flush has stored it already.                   *)
(***************************************************************************)
EXTENDS Integers, Sequences

CONSTANTS
  Levels,      \* price levels, each a side and a price
  Deltas,      \* the exchange's deltas in order
  Exchange,    \* the exchange's book after each of them
  Snapshots,   \* the records of the orderbook_snapshot topic
  MaxPending,  \* orderBookState.maxPending
  ChanSize,    \* capacity of snapshotChan
  MaxLost,     \* bound on deltas that never reach the callback
  MaxStops     \* bound on restarts of the snapshot input and of the worker

Nil == -1
OptId == Nat \cup {Nil}

(* What is left at a level; 0 stands for the spellings "0" and "0.0". *)
Book == [Levels -> Nat]
EmptyBook == [l \in Levels |-> 0]

(* A delta sets the levels it names and leaves the others, marked Nil here. *)
Delta == [first : OptId, last : OptId, prev : OptId, seq : OptId,
          qty : [Levels -> OptId]]

(* A reference snapshot is the exchange's book after some delta; it may be  *)
(* out of price order, or not decode at all.                                *)
SnapKind == {"good", "unordered", "bad"}
Snapshot == [kind : SnapKind, seq : OptId, after : Nat]

ApplyLevels(b, d) == [l \in Levels |-> IF d.qty[l] = Nil THEN b[l] ELSE d.qty[l]]

ASSUME DeltasAssumption == Deltas \in Seq(Delta)
ASSUME ExchangeAssumption ==
  /\ Exchange \in [0 .. Len(Deltas) -> Book]
  /\ Exchange[0] = EmptyBook
  /\ \A n \in 1 .. Len(Deltas) : Exchange[n] = ApplyLevels(Exchange[n - 1], Deltas[n])
ASSUME SnapshotsAssumption ==
  /\ Snapshots \in Seq(Snapshot)
  /\ \A o \in 1 .. Len(Snapshots) : Snapshots[o].after <= Len(Deltas)
ASSUME BoundsAssumption ==
  /\ MaxPending \in Nat /\ MaxLost \in Nat /\ MaxStops \in Nat
  /\ ChanSize \in Nat \ {0}

(* The stream carries the universal cursor: deltas and snapshots are        *)
(* numbered by their sequence.                                              *)
Sequenced ==
  /\ \A n \in 1 .. Len(Deltas) : Deltas[n].seq = n
  /\ \A o \in 1 .. Len(Snapshots) : Snapshots[o].seq = Snapshots[o].after

VARIABLES
  ready,      \* orderBookState.ready
  levels,     \* bids and asks
  last,       \* lastUpdateID
  seq,        \* sequence
  pending,    \* deltas buffered before a reference snapshot
  rcv,        \* snapshot being applied under the lock, NoItem when it is free
  buf,        \* drainPending: deltas left to replay
  found,      \* drainPending: a delta has been applied
  dpc,        \* onDeltaApplied: "idle", or "reset" after an error
  next,       \* delta that is delivered next
  lost,       \* deltas that were not delivered
  spc,        \* where the snapshot input worker is
  off,        \* record it is busy with
  pos,        \* Kafka: record it fetches next
  committed,  \* Kafka: records its consumer group has committed
  chan,       \* snapshotChan
  applied,    \* history: records whose snapshot was applied and drained
  gpc,        \* where snapshotGenerateLoop is
  gen,        \* snapshot it is about to write
  rows,       \* orderbook_snapshots
  stops       \* restarts so far

book == <<ready, levels, last, seq, pending>>
drain == <<rcv, buf, found>>
delta == <<dpc, next, lost>>
snap == <<spc, off, pos, committed, chan, applied>>
generate == <<gpc, gen, rows>>
vars == <<book, drain, delta, snap, generate, stops>>

(* A snapshotResult: the record, and whether a worker waits for its done.   *)
Item == [off : 1 .. Len(Snapshots), live : BOOLEAN]
NoItem == [off |-> 0, live |-> FALSE]

Row == [seq : OptId, levels : Book]
NoRow == [seq |-> Nil, levels |-> EmptyBook]

TypeOK ==
  /\ ready \in BOOLEAN
  /\ levels \in Book
  /\ last \in OptId
  /\ seq \in OptId
  /\ pending \in Seq(Delta) /\ Len(pending) <= MaxPending
  /\ rcv \in Item \cup {NoItem}
  /\ buf \in Seq(Delta)
  /\ found \in BOOLEAN
  /\ dpc \in {"idle", "reset"}
  /\ next \in 1 .. Len(Deltas) + 1
  /\ lost \in 0 .. MaxLost
  /\ spc \in {"off", "fetch", "send", "wait", "commit"}
  /\ off \in 0 .. Len(Snapshots)
  /\ spc \in {"send", "wait", "commit"} => off # 0
  /\ pos \in 0 .. Len(Snapshots)
  /\ committed \in 0 .. Len(Snapshots)
  /\ chan \in Seq(Item) /\ Len(chan) <= ChanSize
  /\ applied \subseteq 1 .. Len(Snapshots)
  /\ gpc \in {"idle", "export", "write"}
  /\ gen \in Row
  /\ rows \subseteq Row
  /\ stops \in 0 .. MaxStops

Init ==
  /\ ready = FALSE /\ levels = EmptyBook /\ last = Nil /\ seq = Nil
  /\ pending = <<>>
  /\ rcv = NoItem /\ buf = <<>> /\ found = FALSE
  /\ dpc = "idle" /\ next = 1 /\ lost = 0
  /\ spc = "off" /\ off = 0 /\ pos = 0 /\ committed = 0
  /\ chan = <<>> /\ applied = {}
  /\ gpc = "idle" /\ gen = NoRow /\ rows = {}
  /\ stops = 0

(* s.mu is free: only applySnapshot keeps it over several of these steps. *)
Unlocked == rcv = NoItem

-----------------------------------------------------------------------------
(* Deltas. *)

(* Mutant: any later sequence will do. *)
checkSequenceMatchLoose(d) ==
  d.seq # Nil => seq = Nil \/ d.seq > seq

(* Whether a delta may follow the book.  The sequence decides when the      *)
(* delta has one, then the update ids; what cannot be compared is accepted. *)
checkSequenceMatch(d) ==
  \/ d.seq # Nil /\ seq \in {Nil, d.seq - 1}
  \/ d.seq = Nil /\ d.first # Nil /\ last \in {Nil, d.first - 1}
  \/ /\ d.seq = Nil /\ d.first = Nil
     /\ last # Nil /\ d.prev # Nil => d.prev = last

(* Mutant: a zero quantity does not remove its level. *)
applyOneKeepsZero(d) ==
  /\ levels' = [l \in Levels |-> IF d.qty[l] \in {Nil, 0} THEN levels[l] ELSE d.qty[l]]
  /\ last' = d.last
  /\ seq' = IF d.seq # Nil THEN d.seq ELSE seq

applyOne(d) ==
  /\ levels' = ApplyLevels(levels, d)
  /\ last' = d.last
  /\ seq' = IF d.seq # Nil THEN d.seq ELSE seq

(* The next delta is handed to onDeltaApplied. *)
Deliver ==
  /\ dpc = "idle"
  /\ Unlocked
  /\ next <= Len(Deltas)
  /\ next' = next + 1
  /\ UNCHANGED lost

(* Mutant: the buffer has no limit. *)
BufferFullNever == MaxPending < 0

BufferFull == Len(pending) >= MaxPending

(* applyDelta before there is a reference snapshot. *)
BufferDelta ==
  /\ Deliver
  /\ ~ready
  /\ ~BufferFull
  /\ pending' = Append(pending, Deltas[next])
  /\ UNCHANGED <<ready, levels, last, seq, drain, dpc, snap, generate, stops>>

(* applyDelta with one.  Nothing is buffered then (DrainedWhenReady), so    *)
(* its call of drainPending has nothing to do.                              *)
applyDelta ==
  /\ Deliver
  /\ ready
  /\ checkSequenceMatch(Deltas[next])
  /\ applyOne(Deltas[next])
  /\ UNCHANGED <<ready, pending, drain, dpc, snap, generate, stops>>

(* applyDelta returns an error, and gives up the lock: the buffer is full   *)
(* or the delta does not follow.                                            *)
DeltaFailed ==
  /\ Deliver
  /\ IF ready THEN ~checkSequenceMatch(Deltas[next]) ELSE BufferFull
  /\ dpc' = "reset"
  /\ UNCHANGED <<book, drain, snap, generate, stops>>

(* onDeltaApplied then takes it again to discard the state. *)
Reset ==
  /\ dpc = "reset"
  /\ Unlocked
  /\ ready' = FALSE /\ levels' = EmptyBook /\ last' = Nil /\ seq' = Nil
  /\ pending' = <<>>
  /\ dpc' = "idle"
  /\ UNCHANGED <<drain, next, lost, snap, generate, stops>>

LoseDelta ==
  /\ lost < MaxLost
  /\ next <= Len(Deltas)
  /\ next' = next + 1
  /\ lost' = lost + 1
  /\ UNCHANGED <<book, drain, dpc, snap, generate, stops>>

-----------------------------------------------------------------------------
(* snapshotInputWorker.run *)

startInput ==
  /\ spc = "off"
  /\ spc' = "fetch"
  /\ pos' = committed
  /\ UNCHANGED <<book, drain, delta, off, committed, chan, applied, generate, stops>>

(* A record that does not decode is skipped, a good one is to be sent. *)
Fetch ==
  /\ spc = "fetch"
  /\ pos < Len(Snapshots)
  /\ pos' = pos + 1
  /\ IF Snapshots[pos + 1].kind = "bad"
     THEN UNCHANGED <<spc, off>>
     ELSE spc' = "send" /\ off' = pos + 1
  /\ UNCHANGED <<book, drain, delta, committed, chan, applied, generate, stops>>

Send ==
  /\ spc = "send"
  /\ Len(chan) < ChanSize
  /\ chan' = Append(chan, [off |-> off, live |-> TRUE])
  /\ spc' = "wait"
  /\ UNCHANGED <<book, drain, delta, off, pos, committed, applied, generate, stops>>

(* A commit that fails is not retried. *)
Commit ==
  /\ spc = "commit"
  /\ committed' \in {off, committed}
  /\ spc' = "fetch"
  /\ UNCHANGED <<book, drain, delta, off, pos, chan, applied, generate, stops>>

(* The input is paused: nobody waits for what is in the channel any more. *)
stopInput ==
  /\ spc # "off"
  /\ stops < MaxStops
  /\ stops' = stops + 1
  /\ spc' = "off"
  /\ chan' = [i \in DOMAIN chan |-> [chan[i] EXCEPT !.live = FALSE]]
  /\ rcv' = [rcv EXCEPT !.live = FALSE]
  /\ UNCHANGED <<book, buf, found, delta, off, pos, committed, applied, generate>>

-----------------------------------------------------------------------------
(* snapshotReceiveLoop and applySnapshot *)

(* A snapshot out of order leaves the book alone and is not acknowledged. *)
RejectSnapshot ==
  /\ Unlocked
  /\ chan # <<>>
  /\ Snapshots[Head(chan).off].kind = "unordered"
  /\ chan' = Tail(chan)
  /\ UNCHANGED <<book, drain, delta, spc, off, pos, committed, applied, generate, stops>>

(* Mutant: the buffered deltas are left where they are. *)
applySnapshotUndrained ==
  LET s == Snapshots[Head(chan).off] IN
  /\ Unlocked /\ chan # <<>> /\ s.kind = "good"
  /\ rcv' = Head(chan) /\ chan' = Tail(chan)
  /\ levels' = Exchange[s.after] /\ last' = Nil /\ seq' = s.seq /\ ready' = TRUE
  /\ buf' = <<>> /\ UNCHANGED pending /\ found' = FALSE
  /\ UNCHANGED <<delta, spc, off, pos, committed, applied, generate, stops>>

applySnapshot ==
  LET s == Snapshots[Head(chan).off] IN
  /\ Unlocked
  /\ chan # <<>>
  /\ s.kind = "good"
  /\ rcv' = Head(chan)
  /\ chan' = Tail(chan)
  /\ levels' = Exchange[s.after]
  /\ last' = Nil
  /\ seq' = s.seq
  /\ ready' = TRUE
  /\ buf' = pending
  /\ pending' = <<>>
  /\ found' = FALSE
  /\ UNCHANGED <<delta, spc, off, pos, committed, applied, generate, stops>>

(* drainPending passes over deltas at or below the snapshot's cursors until *)
(* it has applied one. *)
Stale(d) ==
  /\ ~found
  /\ \/ last # Nil /\ d.last # Nil /\ d.last <= last
     \/ seq # Nil /\ d.seq # Nil /\ d.seq <= seq

drainSkip ==
  /\ ~Unlocked
  /\ buf # <<>>
  /\ Stale(Head(buf))
  /\ buf' = Tail(buf)
  /\ UNCHANGED <<book, rcv, found, delta, snap, generate, stops>>

drainPending ==
  /\ ~Unlocked
  /\ buf # <<>>
  /\ ~Stale(Head(buf))
  /\ checkSequenceMatch(Head(buf))
  /\ applyOne(Head(buf))
  /\ found' = TRUE
  /\ buf' = Tail(buf)
  /\ UNCHANGED <<ready, pending, rcv, delta, snap, generate, stops>>

(* Mutant: a snapshot whose buffered deltas do not follow is acknowledged. *)
drainGapAcked ==
  /\ ~Unlocked /\ buf # <<>> /\ ~Stale(Head(buf)) /\ ~checkSequenceMatch(Head(buf))
  /\ buf' = <<>> /\ rcv' = NoItem
  /\ spc' = IF rcv.live THEN "commit" ELSE spc
  /\ UNCHANGED <<book, found, delta, off, pos, committed, chan, applied, generate, stops>>

(* A gap in the buffer: the rest is dropped, the book stays ready with what *)
(* it has, and the snapshot is not acknowledged.                            *)
drainGap ==
  /\ ~Unlocked
  /\ buf # <<>>
  /\ ~Stale(Head(buf))
  /\ ~checkSequenceMatch(Head(buf))
  /\ buf' = <<>>
  /\ rcv' = NoItem
  /\ UNCHANGED <<book, found, delta, snap, generate, stops>>

(* The buffer is drained: unlock, and close done for the one who waits. *)
Acknowledge ==
  /\ ~Unlocked
  /\ buf = <<>>
  /\ rcv' = NoItem
  /\ applied' = applied \cup {rcv.off}
  /\ spc' = IF rcv.live THEN "commit" ELSE spc
  /\ UNCHANGED <<book, buf, found, delta, off, pos, committed, chan, generate, stops>>

-----------------------------------------------------------------------------
(* snapshotGenerateLoop: ready is read without the lock, the book under it. *)

SnapshotTick ==
  /\ gpc = "idle"
  /\ ready
  /\ gpc' = "export"
  /\ UNCHANGED <<book, drain, delta, snap, gen, rows, stops>>

generateSnapshot ==
  /\ gpc = "export"
  /\ Unlocked
  /\ IF levels = EmptyBook
     THEN gpc' = "idle" /\ UNCHANGED gen
     ELSE gpc' = "write" /\ gen' = [seq |-> seq, levels |-> levels]
  /\ UNCHANGED <<book, drain, delta, snap, rows, stops>>

(* The write may fail, and is not retried. *)
WriteOrderBookSnapshots ==
  /\ gpc = "write"
  /\ rows' \in {rows, rows \cup {gen}}
  /\ gpc' = "idle"
  /\ gen' = NoRow
  /\ UNCHANGED <<book, drain, delta, snap, stops>>

(* The group worker ends, and another starts with a book of its own. *)
RestartWorker ==
  /\ stops < MaxStops
  /\ stops' = stops + 1
  /\ ready' = FALSE /\ levels' = EmptyBook /\ last' = Nil /\ seq' = Nil
  /\ pending' = <<>>
  /\ rcv' = NoItem /\ buf' = <<>> /\ found' = FALSE
  /\ dpc' = "idle"
  /\ spc' = "off" /\ chan' = <<>>
  /\ gpc' = "idle" /\ gen' = NoRow
  /\ UNCHANGED <<next, lost, off, pos, committed, applied, rows>>

-----------------------------------------------------------------------------
DeltaStep == BufferDelta \/ applyDelta \/ DeltaFailed \/ Reset
InputStep == startInput \/ Fetch \/ Send \/ Commit
ReceiveStep ==
  \/ RejectSnapshot \/ applySnapshot \/ drainSkip \/ drainPending \/ drainGap
  \/ Acknowledge
GenerateStep == SnapshotTick \/ generateSnapshot \/ WriteOrderBookSnapshots

Next ==
  \/ DeltaStep \/ InputStep \/ ReceiveStep \/ GenerateStep
  \/ LoseDelta \/ stopInput \/ RestartWorker

Spec == Init /\ [][Next]_vars

-----------------------------------------------------------------------------
(* The book never shows a state the exchange was not in: whenever it is     *)
(* ready it equals the exchange's book at its own sequence, whatever was    *)
(* lost, buffered, replayed or reset before ("Sequence gaps discard the     *)
(* state").                                                                 *)
BookExact == ready /\ seq # Nil => levels = Exchange[seq]

(* So does every snapshot that is persisted, though its generation races    *)
(* with deltas, resets and reference snapshots.                             *)
RowsExact == \A r \in rows : r.seq # Nil => r.levels = Exchange[r.seq]

(* No decodable snapshot is committed in Kafka that the book has not taken: *)
(* "This prevents snapshot loss on restart".                                *)
CommittedAreApplied ==
  \A o \in 1 .. committed : Snapshots[o].kind # "bad" => o \in applied

(* A ready book holds no delta back: what was buffered is applied or        *)
(* discarded before the lock is given up ("Immediately drain any deltas").  *)
DrainedWhenReady == ready /\ Unlocked => pending = <<>>

==============================================================================
