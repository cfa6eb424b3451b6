SPECIFICATION Spec
CONSTANTS
  h1 = h1 h2 = h2 v1 = v1 v2 = v2 t1 = t1 t2 = t2
  Handlers = {h1, h2}
  Volumes = {v1}
  Targets = {t1, t2}
  VolumeOf <- OneVolume
  Context <- Striped
  InitialSize <- Size6
  GrownSizes = {16, 24}
  NoTarget = NoTarget
  Mi = 2 Gi = 8 Extent = 4
  MaxFaults = 0
  MaxCrashes = 1
  MaxTimeouts = 1
CHECK_DEADLOCK FALSE
SYMMETRY Symmetry
INVARIANTS RunningPodHasItsVolume FilesystemFitsDevice CapacityHonoured
