SPECIFICATION NodeSpec
CONSTANTS
  h1 = h1 h2 = h2 p1 = p1 p2 = p2 v1 = v1
  Handlers = {h1, h2}
  Pods = {p1, p2}
  Volumes = {v1}
  Targets <- Paths
  VolumeOf <- Volume
  Context <- OnlyPlain
  InitialSize <- Size8
  GrownSizes = {16}
  NoTarget = NoTarget
  Mi = 2 Gi = 8 Extent = 4
  Forgotten = {p1, p2}
  TailLines = 2
  MaxFaults = 1
  MaxCrashes = 1
  MaxTimeouts = 0
CHECK_DEADLOCK FALSE
SYMMETRY Symmetry
INVARIANTS RepairsAreFinal
PROPERTIES DataSurvives OnlyLeavingPodsLoseVolumes
