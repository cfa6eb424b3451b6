SPECIFICATION Spec
CONSTANTS
  n1 = n1 n2 = n2 v1 = v1 v2 = v2
  Nodes = {n1, n2}
  EmptyId = EmptyId
  Volumes = {v1}
  Requirements <- Nil
  Space <- Room1
  MaxLost = 1
  MaxStarts = 3
CHECK_DEADLOCK FALSE
INVARIANT OneCopy
