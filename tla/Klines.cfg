SPECIFICATION Spec
CONSTANTS
  p1 = p1
  p2 = p2
  c1 = c1
  c2 = c2
  Nil = Nil
  Partitions = {p1, p2}
  Candles = {c1, c2}
  Messages <- SomeMessages
  BatchSize = 2
  MaxRecords = 4
CHECK_DEADLOCK FALSE
INVARIANTS TypeOK NewestKept OnePassOverLog
