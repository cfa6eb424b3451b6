SPECIFICATION Spec
CONSTANTS
  h1 = h1 h2 = h2 v1 = v1 v2 = v2 t1 = t1 t2 = t2
  Handlers = {h1, h2}
  Volumes = {v1, v2}
  Targets = {t1, t2}
  VolumeOf <- Separate
  Context <- Mixed
  InitialSize <- Sizes8
  GrownSizes = {}
  NoTarget = NoTarget
  Mi = 2 Gi = 8 Extent = 4
  MaxFaults = 1
  MaxCrashes = 1
  MaxTimeouts = 1
CHECK_DEADLOCK FALSE
SYMMETRY Symmetry
INVARIANTS TypeOK PublishedSomewhere NoLeakedMount PublishedDeviceExists
PROPERTY ImplementsPromise
