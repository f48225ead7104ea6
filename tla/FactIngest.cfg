SPECIFICATION Spec
CONSTANTS
  w1 = w1
  w2 = w2
  p1 = p1
  p2 = p2
  None = None
  Workers = {w1, w2}
  Partitions = {p1}
  Log <- DeltaLog
  StreamKind = "orderbook_delta"
  BatchSize = 2
  BookCursors = {}
  FaultKinds = {"crash", "stop", "rebalance"}
  MaxFaults = 3
CHECK_DEADLOCK FALSE
SYMMETRY WorkerSymmetry
INVARIANTS TypeOK FactsAtMostOnce NoFactSkipped CommittedIsDurable DeliveredAreDurable
PROPERTIES FactsMoveWithProgress ImplementsFactStore
