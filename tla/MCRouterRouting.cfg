SPECIFICATION FairSpec
CONSTANTS
  root = root
  left = left
  right = right
  e1 = e1
  e2 = e2
  Routers = {root, left, right}
  Endpoints = {e1, e2}
  Parent <- ParentOfAll
  Start <- StartAt
  Off = Off
  All = All
  None = None
  Targets = {e1}
  MaxHops = 4
  MaxSays = 3
  Movers = {e1}
  MaxLeaves = 1
INVARIANTS
  TypeOK
  ByeForgotten
  AtMostOnce
  IndexTowardsHome
PROPERTIES
  EventuallyQuiet
  EventuallyDelivered
CHECK_DEADLOCK FALSE
