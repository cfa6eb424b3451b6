SPECIFICATION FairSpec
CONSTANTS
  h1 = h1 h2 = h2 v1 = v1 v2 = v2 t1 = t1 t2 = t2
  Handlers = {h1}
  Volumes = {v1, v2}
  Targets = {t1, t2}
  VolumeOf <- Separate
  Context <- NoGroup
  InitialSize <- Sizes8
  GrownSizes = {16}
  NoTarget = NoTarget
  Mi = 2 Gi = 8 Extent = 4
  MaxFaults = 1
  MaxCrashes = 1
  MaxTimeouts = 0
CHECK_DEADLOCK FALSE
PROPERTIES PodsStart PodsLeave ExpansionsFinish
