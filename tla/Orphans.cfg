SPECIFICATION FairSpec
CONSTANTS
  p1 = p1 c1 = c1 c2 = c2 l1 = l1
  Pods = {p1}
  Vols = {c1, c2}
  Links = {l1}
  BlockLinks = {l1}
  IssueBlockReference = TRUE
  IssueOrphanedPod = TRUE
  TailLines = 2
  MaxFaults = 1
  MaxCrashes = 1
  MaxNoise = 1
CHECK_DEADLOCK FALSE
INVARIANTS TypeOK JsonKeptWhileMounted FixedAreClean
PROPERTY OrphansLeave
