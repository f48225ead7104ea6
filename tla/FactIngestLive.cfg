SPECIFICATION FairSpec
CONSTANTS
  w1 = w1
  w2 = w2
  p1 = p1
  p2 = p2
  None = None
  Workers = {w1}
  Partitions = {p1, p2}
  Log <- TradeLog
  StreamKind = "trade"
  BatchSize = 2
  BookCursors = {}
  FaultKinds = {"crash", "stop"}
  MaxFaults = 2
CHECK_DEADLOCK FALSE
PROPERTIES StreamDrains ImplementsFactStore
