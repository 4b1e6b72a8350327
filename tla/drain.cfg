SPECIFICATION FairSpec
CONSTANTS
  Entries = {a, b, c}
  Workers = {w1}
  BatchSize = 2
  MaxFaults = 2
INVARIANTS
  TypeOK
  BatchIsHead
  NothingLost
  CopiesNeedFaults
PROPERTIES
  ImplementsStore
  EventuallyKept
CHECK_DEADLOCK FALSE
