SPECIFICATION BlobFairSpec
CONSTANTS
  r1 = r1
  r2 = r2
  k1 = k1
  BlobCount = 1
  Kind <- OneKind
  Size = 4
  Frag = 1
  Receivers = {r1}
  Expecting = {r1}
  MaxFragments = 2
  MaxRequests = 1
  MaxLost = 1
  MaxDoubled = 1
INVARIANTS
  BlobInv
  FetchedIntact
  FetchedOnce
PROPERTIES
  EventuallyFetched
CHECK_DEADLOCK FALSE
