CONSTANTS
  Keys <- FewKeys
  Times = {0, 1, 2, 3}
  Limits = {0, 1, 4}
  defaultQueryLimit = 2
  maxQueryLimit = 3
SPECIFICATION Spec
INVARIANT NoRowSkipped
