SPECIFICATION FairSpec
CONSTANTS
  NumGroups = 2
  Op <- MCOp
  Passages = {p1}
  NoPassage = none
  ContentErrors = {"template", "signature"}
  Reviewable = {"template"}
  Reviewers = {v1}
  MaxSplits = 2
  MaxOps = 1
  MaxFaults = 1
PROPERTY
  EveryNumberDecided
CHECK_DEADLOCK FALSE
