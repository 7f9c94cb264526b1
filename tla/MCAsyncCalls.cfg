\* Two invokers whose first calls have the same number, and two workers.
SPECIFICATION FairSpec
CONSTANTS
  i1 = i1
  i2 = i2
  w1 = w1
  w2 = w2
  Invokers = {i1, i2}
  Workers = {w1, w2}
  MaxCalls = 2
  Quota <- QuotaOf
  MaxLost = 1
INVARIANTS
  WorkAlive
  OutcomeRight
PROPERTIES
  EventuallyResolved
  WaitersReturn
\* the calls are over, or their messages were lost
CHECK_DEADLOCK FALSE
