SPECIFICATION Spec
CONSTANTS
  NumGroups = 2
  Op <- MCOp
  Passages = {p1}
  NoPassage = none
  ContentErrors = {"template"}
  Reviewable = {"template"}
  Reviewers = {v1, v2}
  MaxSplits = 2
  MaxOps = 2
  MaxFaults = 1
INVARIANTS
  TypeOK
  FlaggedNeedsApproval
  HandlingPublished
  ClosedTaskHidesNothing
  RejectedIsReported
  NothingForgotten
CHECK_DEADLOCK FALSE
