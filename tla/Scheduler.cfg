SPECIFICATION FairSpec
CONSTANTS
  n1 = n1
  n2 = n2
  None = None
  Nodes = {n1, n2}
  Groups = {1, 2}
  Weight <- Weights
  MaxGroups <- GroupLimits
  MaxWeight <- WeightLimits
  TTL = 1
  FaultKinds = {"error", "crash", "shutdown", "timeout", "delete", "late"}
  MaxFaults = 1
  MaxChanges = 1
INVARIANTS TypeOK OneNodeWhilePunctual WithinCapacity
PROPERTIES RunnableGroupsRun UnwantedGroupsStop LosersStop
