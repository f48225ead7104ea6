# MarketDataBackend in TLA+

Modules, model-checking configurations and proofs for the runtime and the
storage layer of MarketDataBackend. Source paths are relative to the
repository. `PROJECT.json` maps every modelling definition to the lines it
stands for.

    tlc -config FactIngest.cfg FactIngestMC      # any run
    tlapm FactIngestProofs.tla                   # any proof module

## 1. Inventory

The control plane stores market groups and their inputs. Runtime nodes share
the groups out through leases in PostgreSQL. The node that holds a group's lease
runs a worker for it; the worker runs one input worker per Kafka stream, which
writes facts in batches, and keeps an order book from the stored deltas and
from reference snapshots. Clients query the stored rows page by page.

| component | state | operations | talks to | hard behaviour | what makes it correct |
|---|---|---|---|---|---|
| fact ingestion, `runtime/input_worker.go`, `sequence.go` | open batch, durable offset and continuity cursor per partition | fetch, prepare, flush, dead letter, stop | Kafka, storage, the order book's callback | lost answers, crash between transaction and commit, two workers of one input, rebalances | no fact twice, none skipped, Kafka behind the database |
| fact storage, `storage/postgres.go` | fact tables, `stream_write_progress`, poison records, snapshots | `WriteFactBatch`, `WritePoisonRecord`, `Query*` | workers, control plane | row lock instead of unique key, upserts of one candle from two batches, cursors between pages | facts and progress move together; the newest candle stays; walks are complete |
| node and scheduler, `runtime/node.go`, `reconcile.go` | worker map, context | reconcile pass, start, stop, prune, shutdown | metadata store, workers | races for leases, stop timeouts, failures in the middle of a pass | one node per group, capacity, no idle group |
| group worker, `runtime/worker.go` | phase, lease, order book, inputs | lease loop, stop, finish, snapshot loops | metadata store, input manager, storage | renewal against expiry, drain against a successor | stops when the lease is lost |
| input manager, `runtime/input_worker.go` | running inputs and their configuration | reconcile, start, stop | metadata store, input workers | changes while inputs run; an input that ended by itself | the running set follows the wanted set |
| order book, `runtime/orderbook_state.go` | levels, cursors, buffer, ready flag | apply delta or snapshot, drain, reset, generate | delta callback, snapshot input, storage | three goroutines on one lock, gaps, full buffer | a ready book is the exchange's |
| snapshot input, `runtime/snapshot_input_worker.go` | record in hand | fetch, hand over, wait, commit | Kafka, the worker's receive loop | acknowledgement that does not come, restarts | no snapshot committed before it is taken |
| metadata store, `metadata/postgres.go` | groups, inputs, nodes, leases, status | lease statements, CRUD | everything | database time, cascades | a live lease has one owner |
| partition manager, `storage/partitions.go` | hourly partitions and their registry | precreate, detach, drop | PostgreSQL | crash between DDL and registry | inserts always find a partition; old ones go |
| control-plane API, `api/` | none | CRUD and queries | metadata store, storage | walks during inserts, changes during passes | see storage and input manager |
| migrations, `db/migrate.go` | schema version | up, down | PostgreSQL | two processes at once | each script once |

Processes, configuration, logging, metrics and the plain model types keep no
state that another component reads back.

The hazards in `PROJECT.json` are the places where this code can go wrong
and a test would hardly get there, each with the properties that watch it.

## 2. Modules

### DeltaSequence
`sequence.go`: the monotonicity gate of a delta stream. Ids are numbers or
`Nil`. `checkDeltaContinuity` refuses a repetition first (the same raw id, or the same first
id, last id and sequence), then compares the terminals: the last update id, or the sequence
where there is none.

### FactIngest
One input, from Kafka to the fact tables. `Workers` are incarnations of the
input's worker: the write path checks no lease, so an old worker and its
successor may run side by side. A worker's `pc` is its place in `consume` and
`flushBatch`:

| `pc` | code |
|---|---|
| `fetch`, `msg` | `consume` up to and after `fetch`; `ensureProgress`, `prepare` |
| `write`, `tx` | `WriteFactBatch` before and under the row lock |
| `commit`, `notify` | `consumer.Commit`, then `onDeltaApplied` |
| `poison`, `poisonCommit` | `WritePoisonRecord` and the commit behind it |

`cont` says where `flushBatch` returns to. The row lock is `tx`, the durable
offset read `FOR UPDATE`. Every call can fail before or after its effect
(`WriteUnacked`, `WriteRollback`, `CommitUnacked`, `PoisonFailed`); workers are
stopped with either policy, crash, and lose partitions. Kafka's group
assignment (`Assign`) is external: it gives a partition to one member and
resumes it at the committed offset. Trades and deltas are modelled; klines take
the same path, and what differs is in Klines.

### FactStore
The promise of ingestion without its machinery: a log per partition is copied
front to back (`Copy`), Kafka is told of nothing that is not copied
(`Acknowledge`), the book is shown copied records only (`Deliver`). FactIngest
implements it: `Store` instantiates it with the ingestion's `durable`, `facts`,
`committed` and `delivered`, and `ImplementsFactStore` is its specification. A
transaction is one `Copy`, a Kafka commit or a dead letter's commit one
`Acknowledge`, a callback one `Deliver`; everything else a worker does, crashes
included, is a stuttering step.

### Klines
What `WriteFactBatch` does with candles. A batch is a transaction of
single-row upserts (`UpsertRow`); `tx` holds the candles it has written and so
locked. Two partitions of one input may write one candle; a batch that needs a
row of another waits (`Locked`), and two that wait for each other end by
`Rollback`. Which batches come is taken from FactIngest: `WriteBegin` lets a
batch repeat durable records and end anywhere, and lets it leave out no decodable
record after the durable offset.

### Scheduler
The reconcile loop of each node step by step (prune, list and plan, stops,
starts), each group's worker as a phase, and the lease statements against a
database clock (`left`, `Tick`). Faults are named (`error`, `crash`,
`shutdown`, `timeout`, `delete`, `late`), each run says which may happen, and `faults`
is the list of those that did. `MaxGroups` and `MaxWeight` are the limits of each node's own
configuration.
`late` is time overtaking a start, a renewal or a drain. A failing store call
may have had its effect. `disabled` and `paused` are one status because
`ListRunnableGroups` treats them alike. Registration, heartbeats and status
reports are left out: nothing that schedules reads them.

### OrderBook
`orderBookState` with the goroutines that share it: the delta callback, the
snapshot input, `snapshotReceiveLoop` and `snapshotGenerateLoop`. The exchange
is a series of books, and delta *n* turns book *n - 1* into book *n*. `drainPending`
is one step per delta, with the lock held (`rcv`). `LoseDelta` is a delta that
never reaches the callback: dropped by the adapter, or stored by a flush that was
canceled before the callback. Levels are one function for both sides, quantities
are numbers (the spelling `"0.00"` is left out). The call of `drainPending` at the
end of `applyDelta` finds an empty buffer: that is `DrainedWhenReady`.

### InputManager
One market group, its inputs and their status rows. A run is one life of the
group's worker on some node, so that two may overlap. `phase` is the worker's
`run`, `mpc` the manager's `loop` and `reconcile`:

| `mpc` | code |
|---|---|
| `wait` | the `select` of `loop` |
| `list` | `ListGroupInputs` and the maps `desired` and `inactive` |
| `stops`, `inactive`, `starts` | the three loops of a pass |
| `stopAll` | `stopAll`, after the cancellation |

`live` is the goroutine of an input worker: it runs, or has ended and nobody has
looked yet. The control plane's changes interleave with every step. Reports are
upserts by whoever comes last (`ReportStreamRuntimeStatus`); `by` is the run that
wrote the row. A report that the code does not repeat may fail at any time, one that
the next pass repeats fails only as a fault. `foreign` inputs have a Kafka cluster
that `startInput` refuses. The lease is here only who holds it; its clock is in
Scheduler.

### Partitions
The maintenance passes of several processes over hourly partitions, one step per
SQL statement, since no two of them share a transaction. The clock ticks in half
hours. `DETACH ... CONCURRENTLY` is two transactions (`DetachBegin`,
`DetachFinish`), so that a pass can end between them and leave the partition
`pending`; PostgreSQL then refuses further concurrent detaches of the parent
(`DetachRefused`). `PassFails` ends a pass at any statement: an error, a
cancellation or the death of the process, and the session's lock goes with each.

### Pagination
A client's walk over one of the three query endpoints while rows are
inserted. A row is its keyset key, `<<time, id>>` or
`<<time, source, interval>>`; a cursor is what `formatCursor` makes of a key
and `parseCursor` reads. `First(p, s, n)` is `ORDER BY ... LIMIT n`. Each request may
ask for another limit. A failed request changes nothing.

The `*MC` modules hold the small instances.

## 3. Runs

| run | result | what it shows |
|---|---|---|
| `FactIngest` | pass | Two workers, one delta partition of four records (one does not decode, one is a repetition), three faults of crash, stop and rebalance, any lost answer. `FactsAtMostOnce`, `NoFactSkipped`, `CommittedIsDurable`, `DeliveredAreDurable`, `FactsMoveWithProgress`, and the refinement `ImplementsFactStore` |
| `FactIngestLive` | pass | Trades on two partitions with raw ids that repeat, two faults: `StreamDrains`, `ImplementsFactStore` |
| `FactIngestPoison` | violation | `PoisonBeforeCommit`: see findings |
| `FactIngestResume` | violation | `NoFactSkipped` with a book cursor ahead of the stored one |
| `Scheduler` | pass | Two nodes, two groups, one fault of any kind, one change of status; one node may run one group, the other a weight of two: `OneNodeWhilePunctual`, `WithinCapacity`, `RunnableGroupsRun`, `UnwantedGroupsStop`, `LosersStop` |
| `SchedulerStopTimeout` | violation | `AtMostOneNode` after a stop that timed out |
| `OrderBook` | pass | Four sequenced deltas, four snapshots (good, undecodable, newer, out of order), a lost delta, a buffer of two, two restarts: `BookExact`, `RowsExact`, `CommittedAreApplied`, `DrainedWhenReady` |
| `Pagination` | pass | Three endpoints, five keys each, three of them at one instant, every window, three limits: `PagesAscend`, `OneRowPerBoundary` |
| `PaginationBoundary` | violation | `NoRowSkipped` at a page boundary: see findings |
| `InputManager` | pass | A delta input and a snapshot input that is added, two runs of the worker, one change besides the creation of the group, one fault (expiry, shutdown, crash, failing call): `WorkersManaged`, `TerminalIsLast`, `InputsFollow`, `StatusSettles` |
| `Partitions` | pass | Two managers, five hours, three faults: `RetainedHoursAttached`, `TablesAreRegistered`, `ExpiredHoursGo` |
| `Klines` | pass | Two partitions, two candles, four records of eight kinds in any order, batches of two: `NewestKept`, `OnePassOverLog` |

Each property of a passing run has a mutant in `PROJECT.json`: a plausible
mistake in one definition that makes TLC refute the property.

**Bounds.** The interesting cases of ingestion need two workers on one
partition, a batch that is full and one that is not, and a fault before, in and
after a write: two workers, batches of two and three faults give each. A lease
race needs two nodes; capacity needs two groups of which not both fit, here in number
on one node and in weight on the other. One fault of each of the six kinds, with a
change of status and lease races at any time before and after it, is what liveness can
be checked with; that more of them break neither the leases nor the limits is proved
(section 4). The order book needs a delta on either
side of a snapshot, a buffer that overflows (two of four deltas) and a snapshot
that is newer than the buffered deltas. A page boundary inside a group of equal
timestamps needs three rows of one instant. A terminal report that overwrites the
next run's needs two runs and one fault; a pass that is overtaken needs one
change. Three faults let a pass end after `CREATE TABLE`, one inside a
detach and one after a drop. The migrations create hours 0 to 2; with a retention of two
half hours the two that passes create next expire at 10 and at 12, the last instant of the
run, so that an hour whose registration was cut off is seen to go as well. A revision that is overtaken, a
closed candle that is revised and two batches that wait for each other fit into four
records of two partitions. `MaxFaults`, `MaxChanges`, `MaxLost`, `MaxStops`,
`MaxRecords` and `MaxTime` are the only counters, each in the guard of what it counts;
the proofs hold for any value of them. `MaxOutage` is an assumption and not a bound:
some pass creates its partitions before the horizon of the last one is used up
(`OutageAssumption`). `config.go` accepts horizons for which no schedule of passes can.

**Deadlock** is checked for `Scheduler`, `Pagination` and `Partitions`. Ingestion may
stop: the log is finite, and a refused batch stays refused. The order book and the
candles stop when their streams end, the input manager when its group is deleted.

**Fairness.** FactIngest: goroutines keep running (weak fairness), and a call that
is retried for ever is answered some day (strong fairness of `WriteBegin`,
`WriteAcked`, `CommitAcked`); `flushBatch` retries without a limit, so no weaker
assumption drains a stream. Scheduler: loops and tickers run, drains end, time
passes; a node that was asked to end gets to `shutdown` (strong fairness, the
`select` may choose the ticker for a while); a node that is down is started again
by its deployment. InputManager: the goroutines of a run keep running; some node
starts a runnable group without a lease, stops the worker of one that is not runnable
and releases the lease of one that ended (what Scheduler shows of the nodes); a
manager that is canceled gets to `stopAll` (strong fairness, its `select` may choose
the ticker for a while). The worker's steps and an input's have one weak fairness
each, since a report that stays possible must not hide a step that is due.
Partitions: the clock and the tickers go on, and a pass that nothing cuts short ends.
Faults are never fair.

## 4. Proofs

Every safety property of a passing run is a theorem, for any number of workers, nodes,
groups, inputs, partitions, records, deltas, snapshots and keys, and for any bounds on
faults and changes. The proofs rest on the named assumptions on the constants; four
theorems have a hypothesis besides, which is said with them and is needed.

**FactIngestProofs.** `TypeCorrect`; `NoDuplicateFacts` (`FactsAtMostOnce`);
`BookFedFromDurable`; `AtomicProgress` (`FactsMoveWithProgress`). At most one row
per record is not inductive: nothing in the table prevents a second copy. The
invariant `StoreInv` adds why it cannot happen: the row lock is exclusive
(`RowLockExclusive`), what a transaction read under it is still the durable
offset (`RowLockReads`), rows exist only up to that offset (`RowsUpToDurable`),
and a batch that passed validation stays as it was (`BatchSettled`). Most actions
touch none of this, which `Quiet` says once for all.

**FactStoreProofs.** That the ingestion keeps the promises of FactStore.

- `AtLeastOnce` (`CommittedIsDurable`). What Kafka is told depends on what a worker has in
  hand, so the invariant `OrderInv` follows the records through its loop: before the
  record in hand (`CurFollows`) and before the fetch position of a partition's owner
  (`PosFollows`) every fact is durable or in the open batch, and a dead letter is
  written with an empty batch only (`PoisonIsBad`). No hypothesis.
- `DurableIsStored` (`NoFactSkipped`). `CopyInv` says that a batch holds every fact between
  the durable offset and any of its records (`Contiguous`), that what it carries without a
  fact is stale for a reason (`Justified`), and that the continuity baseline a worker
  compares with is the id of a delta that is stored or in its batch (`BaselineKnown`,
  `CursorKnown`).
- `IngestionIsACopy` (`ImplementsFactStore`): each action is mapped to one of FactStore or
  to a stutter, from all the invariants above.

The last two assume `Identified`. `checkDeltaContinuity` compares a delta with the last
accepted one alone; "stale" is then meaningful only if it is transitive on the stream, and
if no order book cursor replaces the stored one (finding 2). Ids for which it is
transitive: every delta has a sequence or a terminal update id, and a raw id does not come
back with another one (`OrderedIdsIdentify`). Without it the theorem is false: of four
deltas, raw 1; raw 4 with sequence 5; raw 4 with sequence 9; sequence 8, in batches of
three and with two rebalances, TLC finds a run in which the last one is skipped and nothing
that supersedes it is stored. Trades need no hypothesis. The streams of the runs
`FactIngest` and `FactIngestLive` are identified.

**OrderBookProofs.** `TypeCorrect` needs `OneWaiter`: at most one snapshot, in the
channel or being applied, has its input worker waiting. `BookIsExact` and
`PersistedSnapshotsExact` assume `Sequenced`, that deltas and snapshots carry
the universal cursor; without it they are false (finding 4).
`ExactInv` strengthens them by what is buffered, being drained or about to be
written. `ReadyIsDrained` and `NoSnapshotLost` need no such assumption; the
second rests on `AckInv`: every record before the fetch position is applied, or is
the one in hand.

**PaginationProofs.** `TypeCorrect`, `NoRowTwice` (`PagesAscend`) and
`LossIsBounded` (`OneRowPerBoundary`), from `WalkInv`: what was returned lies before the
cursor (`Behind`), and of what the walk began with no more rows than it has pages are neither
returned nor still to come (`Ahead`). `OneRowMore` is the cardinality fact behind
`LIMIT limit + 1`, `LessTransitive` the one about row comparison.

**KlinesProofs.** `TypeCorrect`, `NewestIsKept` (`NewestKept`) and `CandleIsOnePass`
(`OnePassOverLog`), for any number of partitions, candles, records and open transactions. What the table promises of durable
records (`TableInv`) is not inductive: a commit replaces a row by the transaction's.
`TxCoversTable` says that such a row covers what the table's row covers, and holds
because no other transaction can hold the same candle (`LocksExclude`);
`TxCoversBatch` says the same of the records the transaction has upserted, and
`BatchDecodes` and `InLog` that these are all decodable records up to its end.
`UpsertCovers` is the fact about the `WHERE` clause behind all of it: an upsert covers the
new row and everything the old row covered.

For `CandleIsOnePass` the result of a pass is said of a row (`IsPass`), instead of being
chosen: `PassGoesOn` shows that one upsert takes a pass one record further, whatever the
revisions and closing flags, and `PassIsUnique` that only one row can be the result.
`PassInv` then says, of candles whose durable records are of one partition, that the
table's row is a pass over those (`TablePass`) and a transaction's row one over the records
before `next` (`TxPass`), and that a transaction holds no row without having had a record
of it (`TxReason`), so that its commit cannot touch a candle of another partition alone.
The log grows by steps of the specification, so no induction over data is needed. The proof
uses that there are finitely many partitions (`PartitionsAssumption`): the property counts
them.

**SchedulerProofs.** `TypeCorrect` from `LoopInv`: a node is busy with a group exactly while
it stops or starts one (`Busy`), candidates have no worker (`Fresh`), and stops are over when
starts begin (`Planned`).

- `OneNodeConsumes` (`OneNodeWhilePunctual`): at most one node consumes a group until a stop
  times out, a group is deleted under its worker, or a start, renewal or drain takes longer
  than its lease. Store errors, calls that took effect and were answered with an error,
  crashes, shutdowns and changes of status are allowed, any number of them. Each of the three
  faults that end it breaks the property by itself (finding 3 and section 5). `LeaseInv`:
  whoever consumes a group, or is about to, owns its lease, and the lease has not run out. It
  is inductive as long as the log of faults is punctual, and the log only grows
  (`FaultsOnlyAdded`).
- `CapacityRespected` (`WithinCapacity`) holds under every fault. Groups: those that run and
  are not about to be stopped fit into `MaxGroups` together with the slots that are left.
  Weight: the group between its check and its start fits as well. `runningWeight` is a fold over a
  set; that the order of the fold does not matter is shown by counting units of weight, and
  the fold's function is pinned down by the least set size at which two could differ.

**InputManagerProofs.** `TypeCorrect`, `NoWorkerEscapes` (`WorkersManaged`) and the action
property `TerminalReportIsLast` (`TerminalIsLast`). `ManagerInv` couples worker and manager
(`Coupled`), says that a manager that is gone holds nothing and that `stopAll` still visits
every worker that is left (`Emptied`), that only a loop of stops waits for a worker
(`Drains`), and that every goroutine is in the map or waited for (`Held`). No worker survives
its manager because `stopAll` is reached only with the context canceled, when no pass
starts another. The proof needs that no input has the name of the marker for "none", which
`RunsAssumption` says.

**PartitionsProofs.** `TypeCorrect` (with the exclusion that the advisory lock gives),
`RetainedAttached` (`RetainedHoursAttached`) and `TablesRegistered` (`TablesAreRegistered`).
`CoverInv` ties the clock to the last pass that created all its partitions (`ClockInv`), says
that only expired hours are without an attached partition (`LostBy`), also by the older clock
reading of a pass that is under way (`ReadingFits`), that it drops only what has expired
by that reading (`OnlyExpired`), and that everything inside the horizon is registered
(`Registered`). Both rest on `OutageAssumption`, that maintenance is never away for as long as
its horizon, and on the migrations' first partitions (`MigratedAssumption`).

**Only model-checked:** the liveness properties (`StreamDrains`, `RunnableGroupsRun`,
`UnwantedGroupsStop`, `LosersStop`, `InputsFollow`, `StatusSettles`, `ExpiredHoursGo`).
They depend on fairness, which is out of the prover's reach.

## 5. Findings

The first three and the sixth have a run each that shows them; the others were met while
modelling.

1. **Dead letters** (`input_worker.go:277`). After a failed `WritePoisonRecord` the
   worker goes on, and the next commit passes the record that the comment wants to
   "keep ... uncommitted for retry". `FactIngestPoison`.
2. **Resuming a delta input** (`input_worker.go:352`). The book's cursor replaces the
   stored one; deltas in between that are not stored yet are carried as stale and
   the durable offset passes them. `FactIngestResume`.
3. **Stop timeout** (`node.go:318`). The node forgets a worker that still drains,
   renews its own lease for a second one, releases it with that one's stop, and
   another node starts the group. `SchedulerStopTimeout`.
4. **Update ids only** (`orderbook_state.go:373`). `lastUpdateID` is nil after a
   reference snapshot, so the first delta without a sequence is accepted across any
   gap, and the ready book is one the exchange never had. The proofs of `BookExact`
   and `RowsExact` assume `Sequenced` for this reason.
5. **Rejected snapshot** (`worker.go:435`). It is never acknowledged, and its input
   worker reads no further record until it is stopped, a corrected snapshot included.
6. **Page boundaries** (`postgres.go:793`). `NextCursor` is the key of the row that was
   cut off, and the next page starts strictly behind it: one row per boundary is
   returned on no page, although `storage.go:24-26` says the cursor "avoids skipping rows at
   page boundaries". `PaginationBoundary`. `OneRowPerBoundary`, checked and proved, shows
   that ties in time and concurrent inserts add nothing to that.
7. **Interrupted detach** (`partitions.go:204`). A concurrent detach that ends
   between its transactions leaves the partition pending. From then on the code's
   `DETACH ... CONCURRENTLY` is refused, and nothing issues `FINALIZE`: "retried on the
   next tick" does not help, and retention stops. `ExpiredHoursGo` makes this its one
   exception.
8. **Gaps that end a worker.** `checkDeltaContinuity` never returns an error, so the
   path of `consume` that returns on a gap, and with it `gapExited`, is reached
   only when a pass meets a worker that its own cancellation ended. Were it
   reached, `run` would wait in `wg.Wait` for `reportLoop`, which ends with the context only.
9. **Graceful stop.** `inputManager.stop` cancels the workers before `stopInput` stores
   `flushOnStop`, so an open batch may be dropped instead of flushed. It is delivered
   again: nothing is lost, and FactIngest stops workers with either policy.
10. **Status rows.** `Worker.inputs` is read once, so an input that is added later gets
    no terminal status; a running snapshot input is never reported running (which is
    why `StatusSettles` excepts it); the terminal report of an old run may overwrite
    the row of its successor until that one reports again, which it does for every
    other input.
11. **Renewal.** One failed renewal ends a worker that still has its lease.
12. **Candles.** A closing record whose revision is below that of the open row is
    refused, and the candle stays open. `NewestKept` says so.

A rebalance while a batch is open makes the worker append the same records again;
`validateFactBatch` refuses the batch at every retry. Nothing is lost, but that worker
makes no progress until it is stopped, which is why `StreamDrains` is checked without
rebalances.

`AtMostOneNode` does not hold after a fault `late`, `timeout` or `delete`, which is what
`OneNodeWhilePunctual` excepts: the write path has no fencing. `FactsAtMostOnce` shows that the facts survive two
workers at once.

## 6. Not modelled

- Migrations: each script and its bookkeeping row are one transaction, and the row's
  primary key makes the second of two processes fail and roll back.
- Registration, heartbeats and node status: nothing that schedules reads them.
- Offsets, lag and times in status reports; metrics and logs.
- Deleting a group removes its progress rows. Records stored and not committed before
  are stored again when the group is created again with its derived ids; the
  facts "left intact" are then there twice. FactIngest's input lives for ever.
- Parsing beyond "decodes or not" and the fields later decisions read; spellings of
  numbers such as `"0.00"`.
- The snapshot consumer that is not closed after a pause: what Kafka's group does with
  the leaked member is outside the repository.
- `WriteTrades`, `WriteKlines` and `WriteOrderBookDeltas`, which the runtime does not
  call; the aggregated views of the API.

## 7. Plan

Done: DeltaSequence, FactIngest, FactStore, Klines, Scheduler, InputManager,
OrderBook, Partitions, Pagination, and the proofs of section 4: every safety property that
a run checks, and the refinement of FactStore.

Next, all of it proof:

1. Safety facts behind the liveness properties: that a canceled manager's `stopAll` only
   shrinks, that a pass of the scheduler visits each candidate once, that an hour which is
   dropped stays dropped.
2. `BookExact` on streams with update ids alone, under the condition that makes it true:
   no gap at the first delta after a reference snapshot.
3. Which streams are `Identified`, beyond the sufficient condition that is proved.
