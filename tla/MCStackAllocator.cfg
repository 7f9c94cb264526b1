SPECIFICATION Spec
CONSTANTS
  Top = 10
  Sizes = {0, 1, 3}
  Aligns = {1, 4}
  MaxBlocks = 4
INVARIANTS
  BlocksApart
  Accounting
  AllReturned
CHECK_DEADLOCK FALSE
