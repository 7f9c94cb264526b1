SPECIFICATION FairSpec
CONSTANTS
  MaxSaid = 3
  Sizes = {1, 3}
  ReadStep = 2
INVARIANTS
  RelayInv
PROPERTIES
  EventuallyRelayed
  ByeHeeded
CHECK_DEADLOCK FALSE
