SPECIFICATION FairSpec
CONSTANTS
  node = node controller = controller other = other
  e1 = e1 e2 = e2 e3 = e3 host = host
  Unset = Unset Id = Id Page = Page
  Processes = {node, controller, other}
  DriverCount <- Counts
  Endpoint <- Sockets
  NodeIdFlag <- Flags
  ServiceType <- Types
  ServicePort <- NoPorts
  Empty = Unset
  Instance = Id
  ErrorPage = Page
  MaxFaults = 1
INVARIANTS TypeOK ServingIsReachable NodeIdStable
PROPERTY EventuallyServes
CHECK_DEADLOCK FALSE
