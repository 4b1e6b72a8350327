SPECIFICATION Spec
CONSTANTS
  NumGroups = 2
  Op <- MCOp
  Passages = {p1}
  NoPassage = none
  ContentErrors = {}
  Reviewable = {}
  Reviewers = {v1}
  MaxSplits = 1
  MaxOps = 3
  MaxFaults = 0
PROPERTY
  LastRejectClosesTask
CHECK_DEADLOCK FALSE
