SPECIFICATION FairSpec
CONSTANTS
  d1 = d1
  d2 = d2
  p1 = p1
  p2 = p2
  r1 = r1
  Conns = {d1, p1, p2}
  Kind <- KindOf
  OwnId <- FarIds
  Replaces <- Restarts
  IdBase = 1
  IdCount = 4
  MaxAsks <- Once
  MaxByes = 1
  PendingTimeout = FALSE
INVARIANTS
  EndpointsAreLeaves
PROPERTIES
  EventuallyAdopted
