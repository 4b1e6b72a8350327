SPECIFICATION Spec
CONSTANTS
  NumGroups = 2
  Op <- MCOp
  Passages = {p1}
  NoPassage = none
  ContentErrors = {}
  Reviewable = {}
  Reviewers = {v1}
  MaxSplits = 1
  MaxOps = 3
  MaxFaults = 0
INVARIANT
  PassedTaskPublishesAuto
CHECK_DEADLOCK FALSE
