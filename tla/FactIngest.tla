------------------------------ MODULE FactIngest ------------------------------
(***************************************************************************)
(* One input stream from Kafka to the fact tables: the consume loop of     *)
(* inputWorker, the transactional WriteFactBatch, the dead-letter path and *)
(* the manual Kafka commit.                                                *)
(*                                                                         *)
(* Workers are the incarnations of the input's worker.  Nothing in the     *)
(* write path checks the group lease, so more than one may be running: a   *)
(* worker that lost its lease and its successor, on any nodes.  Kafka      *)
(* gives a partition to one member of the consumer group at a time and     *)
(* restarts it at the committed offset.                                    *)
(***************************************************************************)
EXTENDS DeltaSequence, Sequences, FiniteSets

CONSTANTS
  Workers,     \* incarnations of the input worker
  None,        \* no worker
  Partitions,  \* partitions of the input's topic
  Log,         \* the records of each partition
  StreamKind,  \* "trade" or "orderbook_delta"
  BatchSize,   \* BatchConfig.Size
  BookCursors, \* baselines a delta worker may take over from the order book
  FaultKinds,  \* which of "crash", "stop" and "rebalance" may happen
  MaxFaults    \* bound on how many of them happen

(* A Kafka record: whether it decodes and validates, and its identity. *)
Message == [ok : BOOLEAN, id : DeltaId]

(* What getSequenceAndLastUpdateID hands to a restarting delta worker. *)
BookCursor == [last : OptId, seq : OptId]
NoBook == [last |-> Nil, seq |-> Nil]

ASSUME WorkersAssumption == None \notin Workers
ASSUME LogAssumption == Log \in [Partitions -> Seq(Message)]
ASSUME KindAssumption == StreamKind \in {"trade", "orderbook_delta"}
ASSUME BatchAssumption == BatchSize \in Nat \ {0}
ASSUME BookAssumption == BookCursors \subseteq BookCursor
ASSUME FaultAssumption ==
  MaxFaults \in Nat /\ FaultKinds \subseteq {"crash", "stop", "rebalance"}

IsDelta == StreamKind = "orderbook_delta"

(* Kafka offsets start at 0, sequences at 1. *)
Offsets(p) == 0 .. Len(Log[p]) - 1
Coords == UNION {{p} \X Offsets(p) : p \in Partitions}
Msg(c) == Log[c[1]][c[2] + 1]

(* buildTrade, buildOrderBookDelta: the record decodes and validates. *)
Decodes(c) == Msg(c).ok

(* A pendingRecord: its coordinates and whether it carries a fact. *)
Record == [at : Coords, fact : BOOLEAN]

VARIABLES
  committed,  \* Kafka: offset the consumer group resumes a partition at
  owner,      \* Kafka: the member a partition is assigned to, or None
  pos,        \* Kafka: next offset the owner fetches
  durable,    \* stream_write_progress.durable_offset, -1 when there is no row
  cursor,     \* stream_write_progress.last_raw_event_id / _update_id / _sequence
  facts,      \* fact table: how many rows a record has
  poison,     \* stream_poison_records
  pc,         \* where a worker is in consume / flushBatch
  cont,       \* where flushBatch returns to
  stop,       \* "none", or the policy stopInput canceled the worker with
  cur,        \* coordinates of the record fetched and not yet prepared
  pending,    \* records of the open batch
  tx,         \* durable_offset read under the row lock, NoTx outside WriteFactBatch
  durLoc,     \* inputWorker.durableByPartition, NotLoaded before ensureProgress
  lastDelta,  \* inputWorker.lastDeltaByPartition
  reset,      \* snapshotResetSeq and snapshotResetLastUpdate
  delivered,  \* history: records handed to onDeltaApplied
  faults      \* crashes, stops and rebalances so far

kafka == <<committed, owner, pos>>
store == <<durable, cursor, facts, poison>>
loaded == <<durLoc, lastDelta, reset>>
volatile == <<pc, cont, stop, cur, pending, tx, loaded>>
vars == <<kafka, store, volatile, delivered, faults>>

NotLoaded == -2
NoTx == -2
NoMsg == <<None, Nil>>

PCs == {"off", "fetch", "msg", "write", "tx", "commit", "notify",
        "poison", "poisonCommit"}
Flushing == {"write", "tx", "commit", "notify"}
Conts == {"fetch", "msg", "poison", "exit"}

(* Types, and what ties the program counter to the data it needs. *)
TypeOK ==
  /\ committed \in [Partitions -> Nat]
  /\ owner \in [Partitions -> Workers \cup {None}]
  /\ pos \in [Partitions -> Nat]
  /\ durable \in [Partitions -> Nat \cup {-1}]
  /\ cursor \in [Partitions -> DeltaId]
  /\ facts \in [Coords -> Nat]
  /\ poison \subseteq Coords
  /\ pc \in [Workers -> PCs]
  /\ cont \in [Workers -> Conts]
  /\ stop \in [Workers -> {"none", "flush", "discard"}]
  /\ cur \in [Workers -> Coords \cup {NoMsg}]
  /\ pending \in [Workers -> Seq(Record)]
  /\ tx \in [Workers -> Nat \cup {-1, NoTx}]
  /\ durLoc \in [Workers -> [Partitions -> Nat \cup {-1, NotLoaded}]]
  /\ lastDelta \in [Workers -> [Partitions -> DeltaId]]
  /\ reset \in [Workers -> BookCursor]
  /\ delivered \subseteq Coords
  /\ faults \in 0 .. MaxFaults
  /\ \A w \in Workers :
       /\ pc[w] \in {"msg", "poison", "poisonCommit"} => cur[w] # NoMsg
       /\ pc[w] \in Flushing =>
            pending[w] # <<>> /\ (cont[w] \in {"msg", "poison"} => cur[w] # NoMsg)
       /\ pc[w] = "tx" <=> tx[w] # NoTx

-----------------------------------------------------------------------------
Init ==
  /\ committed = [p \in Partitions |-> 0]
  /\ owner = [p \in Partitions |-> None]
  /\ pos = [p \in Partitions |-> 0]
  /\ durable = [p \in Partitions |-> -1]
  /\ cursor = [p \in Partitions |-> ZeroDelta]
  /\ facts = [c \in Coords |-> 0]
  /\ poison = {}
  /\ pc = [w \in Workers |-> "off"]
  /\ cont = [w \in Workers |-> "fetch"]
  /\ stop = [w \in Workers |-> "none"]
  /\ cur = [w \in Workers |-> NoMsg]
  /\ pending = [w \in Workers |-> <<>>]
  /\ tx = [w \in Workers |-> NoTx]
  /\ durLoc = [w \in Workers |-> [p \in Partitions |-> NotLoaded]]
  /\ lastDelta = [w \in Workers |-> [p \in Partitions |-> ZeroDelta]]
  /\ reset = [w \in Workers |-> NoBook]
  /\ delivered = {}
  /\ faults = 0

(* The last record of the open batch: flushBatch takes partition and offset from it. *)
Final(w) == pending[w][Len(pending[w])].at

Fault(kind) ==
  /\ kind \in FaultKinds
  /\ faults < MaxFaults
  /\ faults' = faults + 1

Goto(w, label) == pc' = [pc EXCEPT ![w] = label]

(* Leaving the goroutine: every local variable goes, the transaction is     *)
(* rolled back and the consumer group takes the partitions back.            *)
Gone(w) ==
  /\ pc' = [pc EXCEPT ![w] = "off"]
  /\ cont' = [cont EXCEPT ![w] = "fetch"]
  /\ stop' = [stop EXCEPT ![w] = "none"]
  /\ cur' = [cur EXCEPT ![w] = NoMsg]
  /\ pending' = [pending EXCEPT ![w] = <<>>]
  /\ tx' = [tx EXCEPT ![w] = NoTx]
  /\ durLoc' = [durLoc EXCEPT ![w] = [p \in Partitions |-> NotLoaded]]
  /\ lastDelta' = [lastDelta EXCEPT ![w] = [p \in Partitions |-> ZeroDelta]]
  /\ reset' = [reset EXCEPT ![w] = NoBook]
  /\ owner' = [p \in Partitions |-> IF owner[p] = w THEN None ELSE owner[p]]
  /\ UNCHANGED <<committed, pos>>

(* startInput: a delta worker started while the book is ready takes the     *)
(* book's sequence and update id along.                                     *)
startInput(w) ==
  /\ pc[w] = "off"
  /\ Goto(w, "fetch")
  /\ \E b \in {NoBook} \cup (IF IsDelta THEN BookCursors ELSE {}) :
       reset' = [reset EXCEPT ![w] = b]
  /\ UNCHANGED <<kafka, store, cont, stop, cur, pending, tx, durLoc, lastDelta,
                 delivered, faults>>

(* The consumer group gives a partition to a live member, which starts at   *)
(* the committed offset.  A partition that has an owner changes hands, or   *)
(* is given to its owner anew, in a rebalance.                              *)
Assign(p, w) ==
  /\ pc[w] # "off"
  /\ \/ owner[p] = None /\ UNCHANGED faults
     \/ owner[p] # None /\ Fault("rebalance")
  /\ owner' = [owner EXCEPT ![p] = w]
  /\ pos' = [pos EXCEPT ![p] = committed[p]]
  /\ UNCHANGED <<committed, store, volatile, delivered>>

(* fetch returns a record.  The reader may win against a canceled context. *)
fetch(w, p) ==
  /\ pc[w] = "fetch"
  /\ owner[p] = w
  /\ pos[p] \in Offsets(p)
  /\ cur' = [cur EXCEPT ![w] = <<p, pos[p]>>]
  /\ pos' = [pos EXCEPT ![p] = @ + 1]
  /\ Goto(w, "msg")
  /\ UNCHANGED <<committed, owner, store, cont, stop, pending, tx, loaded,
                 delivered, faults>>

(* Enter flushBatch with the open batch, to go on at label afterwards.      *)
(* Every caller has a record pending, so that flushBatch never returns from *)
(* its own test for an empty batch.                                         *)
BeginFlush(w, label) ==
  /\ Goto(w, "write")
  /\ cont' = [cont EXCEPT ![w] = label]

(* Mutant: pendingSince is never set, so the interval never ends. *)
FlushIntervalNever(w) == pc[w] = "fetch" /\ FALSE /\ UNCHANGED vars

(* fetch runs into the flush interval with records pending. *)
FlushInterval(w) ==
  /\ pc[w] = "fetch"
  /\ pending[w] # <<>>
  /\ BeginFlush(w, "fetch")
  /\ UNCHANGED <<kafka, store, stop, cur, pending, tx, loaded, delivered, faults>>

SwitchesPartition(w) == pending[w] # <<>> /\ pending[w][1].at[1] # cur[w][1]

FlushOtherPartition(w) ==
  /\ pc[w] = "msg"
  /\ SwitchesPartition(w)
  /\ BeginFlush(w, "msg")
  /\ UNCHANGED <<kafka, store, stop, cur, pending, tx, loaded, delivered, faults>>

(* The progress row; without one, nothing is found. *)
LoadStreamWriteProgress(p) ==
  [found |-> durable[p] # -1, durable |-> durable[p], cursor |-> cursor[p]]

(* The continuity baseline a delta worker loads: the stored cursor, with    *)
(* what the order book knew in the place of what it does not leave nil.     *)
LoadedDelta(w, stored) ==
  [raw |-> stored.raw,
   first |-> Nil,
   last |-> IF reset[w].last # Nil THEN reset[w].last ELSE stored.last,
   seq |-> IF reset[w].seq # Nil THEN reset[w].seq ELSE stored.seq]

ensureProgress(w) ==
  LET p == cur[w][1]
      progress == LoadStreamWriteProgress(p)
  IN
  /\ pc[w] = "msg"
  /\ ~SwitchesPartition(w)
  /\ durLoc[w][p] = NotLoaded
  /\ durLoc' = [durLoc EXCEPT ![w][p] = progress.durable]
  /\ IF ~progress.found
     THEN UNCHANGED <<lastDelta, reset>>
     ELSE /\ lastDelta' = IF IsDelta
                          THEN [lastDelta EXCEPT ![w][p] = LoadedDelta(w, progress.cursor)]
                          ELSE lastDelta
          /\ reset' = [reset EXCEPT ![w] = NoBook]
  /\ UNCHANGED <<kafka, store, pc, cont, stop, cur, pending, tx, delivered, faults>>

(* prepare is reached with progress loaded and no other partition's batch. *)
Preparing(w) ==
  /\ pc[w] = "msg"
  /\ ~SwitchesPartition(w)
  /\ durLoc[w][cur[w][1]] # NotLoaded

(* The record is at or below what this worker knows to be durable. *)
Replayed(w) == cur[w][2] <= durLoc[w][cur[w][1]]

(* consume appends the record and flushes a full batch. *)
AddPending(w, isFact) ==
  /\ pending' = [pending EXCEPT ![w] = Append(@, [at |-> cur[w], fact |-> isFact])]
  /\ IF Len(pending[w]) + 1 >= BatchSize
     THEN BeginFlush(w, "fetch")
     ELSE Goto(w, "fetch") /\ UNCHANGED cont
  /\ cur' = [cur EXCEPT ![w] = NoMsg]

prepareReplay(w) ==
  /\ Preparing(w)
  /\ Replayed(w)
  /\ AddPending(w, FALSE)
  /\ UNCHANGED <<kafka, store, stop, tx, loaded, delivered, faults>>

(* A record that decodes.  A delta passes the monotonicity gate, and a      *)
(* stale one stays in the batch without a fact.                             *)
prepareFact(w) ==
  LET p == cur[w][1]
      d == Msg(cur[w]).id
      advance == IsDelta => checkDeltaContinuity(lastDelta[w][p], d)
  IN
  /\ Preparing(w)
  /\ ~Replayed(w)
  /\ Decodes(cur[w])
  /\ AddPending(w, advance)
  /\ lastDelta' = IF IsDelta /\ advance
                  THEN [lastDelta EXCEPT ![w][p] = d] ELSE lastDelta
  /\ UNCHANGED <<kafka, store, stop, tx, durLoc, reset, delivered, faults>>

(* Mutant: the dead letter does not wait for the batch before it. *)
prepareBadSkipsFlush(w) ==
  /\ Preparing(w) /\ ~Replayed(w) /\ ~Decodes(cur[w])
  /\ Goto(w, "poison")
  /\ UNCHANGED <<kafka, store, cont, stop, cur, pending, tx, loaded, delivered, faults>>

(* A record that does not: the batch before it is flushed first. *)
prepareBad(w) ==
  /\ Preparing(w)
  /\ ~Replayed(w)
  /\ ~Decodes(cur[w])
  /\ IF pending[w] = <<>>
     THEN Goto(w, "poison") /\ UNCHANGED cont
     ELSE BeginFlush(w, "poison")
  /\ UNCHANGED <<kafka, store, stop, cur, pending, tx, loaded, delivered, faults>>

-----------------------------------------------------------------------------
(* Where the batch carries facts, and the records they are. *)
FactIdx(w) == {i \in DOMAIN pending[w] : pending[w][i].fact}
FactRecords(w) == {pending[w][i].at : i \in FactIdx(w)}

(* Mutant: offsets are checked for order and not against the batch's end. *)
validateFactBatchOpenEnd(w) ==
  \A i, j \in FactIdx(w) : j < i => pending[w][j].at[2] < pending[w][i].at[2]

(* The checks that a batch of one stream kind can fail: facts of another    *)
(* partition, beyond the batch's end, or not in increasing order.           *)
validateFactBatch(w) ==
  \A i \in FactIdx(w) :
    /\ pending[w][i].at[1] = Final(w)[1]
    /\ pending[w][i].at[2] <= Final(w)[2]
    /\ \A j \in FactIdx(w) : j < i => pending[w][j].at[2] < pending[w][i].at[2]

(* Mutant: SELECT without FOR UPDATE. *)
RowNeverLocked(p) == p \in Partitions

(* The progress row is locked FOR UPDATE until the transaction ends. *)
RowFree(p) == \A v \in Workers : tx[v] # NoTx => Final(v)[1] # p

(* Mutant: the first row after the durable offset is taken for a replay. *)
AfterOffsetOneLate(w) ==
  {c \in FactRecords(w) : c[2] > tx[w] + 1 /\ c[2] <= Final(w)[2]}

(* deltasAfterOffset, tradesAfterOffset *)
AfterOffset(w) ==
  {c \in FactRecords(w) : c[2] > tx[w] /\ c[2] <= Final(w)[2]}

(* Unique keys of the trades table: coordinates, and raw trade id. *)
SameTrade(c, d) == c = d \/ (Msg(c).id.raw # Nil /\ Msg(c).id.raw = Msg(d).id.raw)

(* INSERT ... ON CONFLICT DO NOTHING, row by row in the batch's order. *)
writeTradesTx(rows) ==
  {c \in rows : /\ \A d \in Coords : facts[d] > 0 => ~SameTrade(c, d)
                /\ \A d \in rows : d[2] < c[2] => ~SameTrade(c, d)}

(* COPY into a partitioned table without a unique key: every row lands. *)
writeOrderBookDeltasCopy(rows) == rows

NewRows(w) ==
  IF IsDelta THEN writeOrderBookDeltasCopy(AfterOffset(w))
             ELSE writeTradesTx(AfterOffset(w))

(* WriteFactBatch up to the row lock; an invalid batch is refused, and      *)
(* refused again at every retry.                                            *)
WriteBegin(w) ==
  /\ pc[w] = "write"
  /\ validateFactBatch(w)
  /\ RowFree(Final(w)[1])
  /\ tx' = [tx EXCEPT ![w] = durable[Final(w)[1]]]
  /\ Goto(w, "tx")
  /\ UNCHANGED <<kafka, store, cont, stop, cur, pending, loaded, delivered, faults>>

(* The rest of the transaction: a batch at or below the durable offset is   *)
(* a replay and writes nothing.                                             *)
WriteFactBatch(w) ==
  LET p == Final(w)[1] IN
  /\ pc[w] = "tx"
  /\ tx' = [tx EXCEPT ![w] = NoTx]
  /\ IF Final(w)[2] <= tx[w]
     THEN UNCHANGED <<durable, cursor, facts>>
     ELSE /\ facts' = [c \in Coords |->
                         facts[c] + (IF c \in NewRows(w) THEN 1 ELSE 0)]
          /\ durable' = [durable EXCEPT ![p] = Final(w)[2]]
          /\ cursor' = [cursor EXCEPT ![p] =
                          [lastDelta[w][p] EXCEPT !.first = Nil]]
  /\ UNCHANGED <<kafka, poison, cont, stop, cur, pending, loaded, delivered, faults>>

WriteAcked(w) == WriteFactBatch(w) /\ Goto(w, "commit")

(* The commit lands and its answer is lost: flushBatch retries. *)
WriteUnacked(w) == WriteFactBatch(w) /\ Goto(w, "write")

(* Mutant: a failed statement returns without the deferred rollback. *)
WriteRollbackNever(w) ==
  /\ pc[w] = "tx"
  /\ Goto(w, "write")
  /\ UNCHANGED <<kafka, store, cont, stop, cur, pending, tx, loaded, delivered, faults>>

WriteRollback(w) ==
  /\ pc[w] = "tx"
  /\ tx' = [tx EXCEPT ![w] = NoTx]
  /\ Goto(w, "write")
  /\ UNCHANGED <<kafka, store, cont, stop, cur, pending, loaded, delivered, faults>>

(* CommitMessages takes the highest record alone and sets the group's       *)
(* offset to the one after it, whoever owns the partition by now.           *)
Commit(c) == committed' = [committed EXCEPT ![c[1]] = c[2] + 1]

CommitAcked(w) ==
  /\ pc[w] = "commit"
  /\ Commit(Final(w))
  /\ Goto(w, "notify")
  /\ UNCHANGED <<owner, pos, store, cont, stop, cur, pending, tx, loaded,
                 delivered, faults>>

CommitUnacked(w) ==
  /\ pc[w] = "commit"
  /\ Commit(Final(w))
  /\ UNCHANGED <<owner, pos, store, volatile, delivered, faults>>

(* The end of flushBatch: deltas go to onDeltaApplied, the batch is closed. *)
FlushDone(w) ==
  /\ pc[w] = "notify"
  /\ delivered' = IF IsDelta
                  THEN delivered \cup FactRecords(w) ELSE delivered
  /\ IF cont[w] = "exit"
     THEN Gone(w)
     ELSE /\ durLoc' = [durLoc EXCEPT ![w][Final(w)[1]] = Final(w)[2]]
          /\ pending' = [pending EXCEPT ![w] = <<>>]
          /\ Goto(w, cont[w])
          /\ cont' = [cont EXCEPT ![w] = "fetch"]
          /\ UNCHANGED <<kafka, stop, cur, tx, lastDelta, reset>>
  /\ UNCHANGED <<store, faults>>

-----------------------------------------------------------------------------
(* The dead-letter path. *)
WritePoisonRecord(w) ==
  /\ pc[w] = "poison"
  /\ poison' = poison \cup {cur[w]}
  /\ Goto(w, "poisonCommit")
  /\ UNCHANGED <<kafka, durable, cursor, facts, cont, stop, cur, pending, tx,
                 loaded, delivered, faults>>

(* The call fails, before or after its effect: the loop goes on to the next *)
(* record.                                                                  *)
PoisonFailed(w) ==
  /\ pc[w] = "poison"
  /\ UNCHANGED poison \/ poison' = poison \cup {cur[w]}
  /\ Goto(w, "fetch")
  /\ cur' = [cur EXCEPT ![w] = NoMsg]
  /\ UNCHANGED <<kafka, durable, cursor, facts, cont, stop, pending, tx, loaded,
                 delivered, faults>>

(* One attempt to commit past the dead letter, whose failure is ignored. *)
CommitPoison(w) ==
  /\ pc[w] = "poisonCommit"
  /\ Commit(cur[w]) \/ UNCHANGED committed
  /\ Goto(w, "fetch")
  /\ cur' = [cur EXCEPT ![w] = NoMsg]
  /\ UNCHANGED <<owner, pos, store, cont, stop, pending, tx, loaded,
                 delivered, faults>>

-----------------------------------------------------------------------------
(* stopInput: cancel, with or without a last flush. *)
stopInput(w) ==
  /\ pc[w] # "off"
  /\ stop[w] = "none"
  /\ Fault("stop")
  /\ \E policy \in {"flush", "discard"} : stop' = [stop EXCEPT ![w] = policy]
  /\ UNCHANGED <<kafka, store, pc, cont, cur, pending, tx, loaded, delivered>>

(* A canceled worker returns from consume wherever it looks at its context; *)
(* the deferred function flushes what is pending under a context of its own *)
(* that may expire.                                                         *)
Leave(w) ==
  /\ \/ /\ stop[w] # "none"
        /\ \/ pc[w] \in {"fetch", "write", "commit", "poison"}
           \/ pc[w] = "msg" /\ durLoc[w][cur[w][1]] = NotLoaded /\ ~SwitchesPartition(w)
     \/ cont[w] = "exit" /\ pc[w] \in {"write", "commit"}
  /\ IF stop[w] = "flush" /\ pending[w] # <<>> /\ cont[w] # "exit"
     THEN BeginFlush(w, "exit") /\ UNCHANGED <<kafka, stop, cur, pending, tx, loaded>>
     ELSE Gone(w)
  /\ UNCHANGED <<store, delivered, faults>>

Crash(w) ==
  /\ pc[w] # "off"
  /\ Fault("crash")
  /\ Gone(w)
  /\ UNCHANGED <<store, delivered>>

-----------------------------------------------------------------------------
Step(w) ==
  \/ startInput(w)
  \/ \E p \in Partitions : Assign(p, w) \/ fetch(w, p)
  \/ FlushInterval(w) \/ FlushOtherPartition(w) \/ ensureProgress(w)
  \/ prepareReplay(w) \/ prepareFact(w) \/ prepareBad(w)
  \/ WriteBegin(w) \/ WriteAcked(w) \/ WriteUnacked(w) \/ WriteRollback(w)
  \/ CommitAcked(w) \/ CommitUnacked(w) \/ FlushDone(w)
  \/ WritePoisonRecord(w) \/ PoisonFailed(w) \/ CommitPoison(w)
  \/ stopInput(w) \/ Leave(w) \/ Crash(w)

Next == \E w \in Workers : Step(w)

Spec == Init /\ [][Next]_vars

(* A worker that runs keeps running, the runtime restarts one that is gone, *)
(* Kafka assigns a free partition to a member, and a retried call is        *)
(* answered in the end.                                                     *)
Fairness ==
  \A w \in Workers :
    /\ WF_vars(startInput(w))
    /\ \A p \in Partitions : WF_vars(owner[p] = None /\ Assign(p, w))
                             /\ WF_vars(fetch(w, p))
    /\ WF_vars(FlushInterval(w)) /\ WF_vars(FlushOtherPartition(w))
    /\ WF_vars(ensureProgress(w)) /\ WF_vars(prepareReplay(w))
    /\ WF_vars(prepareFact(w)) /\ WF_vars(prepareBad(w))
    /\ SF_vars(WriteBegin(w)) /\ SF_vars(WriteAcked(w)) /\ SF_vars(CommitAcked(w))
    /\ WF_vars(FlushDone(w)) /\ WF_vars(WritePoisonRecord(w))
    /\ WF_vars(CommitPoison(w)) /\ WF_vars(Leave(w))

FairSpec == Spec /\ Fairness

-----------------------------------------------------------------------------
(* No record is stored twice, however often its batch is retried, replayed  *)
(* or written by a second worker: WriteFactBatch's "without creating        *)
(* duplicate partitioned facts".  The delta table has no unique key, so the *)
(* progress row and its lock are all there is.                              *)
FactsAtMostOnce == \A c \in Coords : facts[c] <= 1

(* Why a decodable record may be missing from the fact table: an earlier    *)
(* record d is the same trade, or a delta that c is not newer than.         *)
Supersedes(d, c) ==
  IF IsDelta
  THEN d[1] = c[1] /\ d[2] < c[2] /\ ~checkDeltaContinuity(Msg(d).id, Msg(c).id)
  ELSE SameTrade(c, d)

Superseded(c) == \E d \in Coords : facts[d] > 0 /\ Supersedes(d, c)

(* The durable offset never passes a fact: every decodable record at or     *)
(* below it is in the fact table or superseded by one that is.              *)
NoFactSkipped ==
  \A c \in Coords :
    Decodes(c) /\ c[2] <= durable[c[1]] => facts[c] > 0 \/ Superseded(c)

(* At-least-once: Kafka never resumes behind a decodable record that is not *)
(* durable ("commits only the highest message after the database confirms").*)
CommittedIsDurable ==
  \A c \in Coords :
    Decodes(c) /\ c[2] < committed[c[1]] => c[2] <= durable[c[1]]

(* The order book is fed by persisted deltas only ("onDeltaApplied is       *)
(* called for each successfully persisted delta").                          *)
DeliveredAreDurable == \A c \in delivered : c[2] <= durable[c[1]]

(* Facts and progress move in one transaction: a row appears exactly in the *)
(* step that moves the durable offset of its partition from below it to it  *)
(* or past it, and the durable offset never moves back.                     *)
FactsMoveWithProgress ==
  [][/\ \A p \in Partitions : durable[p] <= durable'[p]
     /\ \A c \in Coords : facts'[c] # facts[c] =>
          durable[c[1]] < c[2] /\ c[2] <= durable'[c[1]]]_vars

(* Every decodable record becomes durable, through crashes, stops, lost     *)
(* answers and restarts.                                                    *)
StreamDrains ==
  <>(\A c \in Coords : Decodes(c) => c[2] <= durable[c[1]])

(* What the dead-letter comment promises: no undecodable record is passed   *)
(* by a Kafka commit unless its poison record is stored.                    *)
PoisonBeforeCommit ==
  \A c \in Coords : ~Decodes(c) /\ c[2] < committed[c[1]] => c \in poison

(* Workers that crash, stop, lose partitions and answers, and write over    *)
(* each other are, to the readers of the fact table, to Kafka and to the    *)
(* order book, one copy of the log that is never interrupted (FactStore).   *)
Store == INSTANCE FactStore WITH
  durable <- durable, facts <- facts, committed <- committed, delivered <- delivered
ImplementsFactStore == Store!Spec

=============================================================================
