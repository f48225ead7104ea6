CONSTANTS
  bid = bid
  ask = ask
  Levels = {bid, ask}
  Deltas <- SequencedDeltas
  Exchange <- SequencedBooks
  Snapshots <- MixedSnapshots
  MaxPending = 2
  ChanSize = 1
  MaxLost = 1
  MaxStops = 2
SPECIFICATION Spec
INVARIANTS TypeOK BookExact RowsExact CommittedAreApplied DrainedWhenReady
CHECK_DEADLOCK FALSE
