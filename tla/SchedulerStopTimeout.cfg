SPECIFICATION Spec
CONSTANTS
  n1 = n1
  n2 = n2
  None = None
  Nodes = {n1, n2}
  Groups = {1}
  Weight <- Weights
  MaxGroups <- Unlimited
  MaxWeight <- Unlimited
  TTL = 1
  FaultKinds = {"timeout"}
  MaxFaults = 1
  MaxChanges = 3
INVARIANT AtMostOneNode
