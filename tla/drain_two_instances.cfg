SPECIFICATION Spec
CONSTANTS
  Entries = {a, b, c}
  Workers = {w1, w2}
  BatchSize = 2
  MaxFaults = 0
PROPERTY
  TrimRemovesOnlyHandled
CHECK_DEADLOCK FALSE
