SPECIFICATION Spec
CONSTANTS
  d1 = d1
  d2 = d2
  p1 = p1
  p2 = p2
  r1 = r1
  Conns = {d1, d2, r1}
  Kind <- KindOf
  OwnId <- FarIds
  Replaces <- NoRestarts
  IdBase = 1
  IdCount = 5
  MaxAsks <- FirstTwice
  MaxByes = 1
  PendingTimeout = TRUE
INVARIANTS
  TypeOK
  IdsUnique
  NodeHoldsItsId
PROPERTIES
  NodesKept
