SPECIFICATION FairSpec
CONSTANTS
  r0 = r0
  r1 = r1
  s1 = s1
  s2 = s2
  t1 = t1
  t2 = t2
  u1 = u1
  k0 = k0
  k1 = k1
  Boards = {r0, r1, s1, s2, t1, t2, u1}
  SolvedBoards = {s1, s2, u1}
  Alternatives <- AlternativesOf
  Below <- BelowOf
  Keys = {k0, k1}
  First = k0
  Needs <- NeedsOf
  Start <- StartAt
  Unsolved = Unsolved
  h1 = h1
  Helpers = {h1}
  Ordered = TRUE
  BacklogMax = 0
  AliveBelow = 1
  MaxUnderWay = 2
  MaxFaults = 1
INVARIANTS
  NoBranchLost
  TilesFit
PROPERTIES
  EventuallyIdle
  EventuallyTiled
