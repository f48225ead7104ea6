SPECIFICATION FairSpec
CONSTANTS
  r1 = r1
  r2 = r2
  d = d
  s = s
  None = None
  Runs = {r1, r2}
  Inputs = {d, s}
  Kind <- DeltaAndSnapshot
  Created = {d}
  MaxChanges = 1
  FaultKinds = {"expire", "shutdown", "crash", "call"}
  MaxFaults = 1
CHECK_DEADLOCK FALSE
INVARIANTS TypeOK WorkersManaged
PROPERTIES TerminalIsLast InputsFollow StatusSettles
