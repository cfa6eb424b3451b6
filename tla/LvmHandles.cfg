SPECIFICATION Spec
CONSTANTS
  c1 = c1 c2 = c2 d1 = d1 g1 = g1 n1 = n1 n2 = n2
  Clients = {c1, c2}
  Devices = {d1}
  Groups = {g1}
  Names = {n1, n2}
  Sizes = {3, 5}
  Extent = 4
  DevExtents = 3
  MaxFaults = 1
  MaxIds = 4
CHECK_DEADLOCK FALSE
SYMMETRY Symmetry
INVARIANTS TypeOK HandleWithinVolume CreatedGroupsKnown
