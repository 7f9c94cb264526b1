SPECIFICATION BlobSpec
CONSTANTS
  r1 = r1
  r2 = r2
  k1 = k1
  BlobCount = 2
  Kind <- OneKind
  Size = 2
  Frag = 1
  Receivers = {r1}
  Expecting = {}
  MaxFragments = 4
  MaxRequests = 0
  MaxLost = 0
  MaxDoubled = 0
INVARIANT
  FetchedIntact
CHECK_DEADLOCK FALSE
