SPECIFICATION MCSpec
CONSTANTS
  p1 = p1
  p2 = p2
  none = none
  NumGroups = 3
  Op <- MCOp
  Passages = {p1, p2}
  NoPassage = none
  ContentErrors = {"template", "signature"}
  Reviewable = {"template"}
  MaxNumbers = 3
  SizeLimits = {0, 1}
  DefaultSize = 2
INVARIANTS
  TypeOK
  LoopMeetsClosedForm
  VerdictCoversPackets
  NumbersCoveredOnce
  PacketFitsPassage
  AutoOnlyWhenClean
CHECK_DEADLOCK FALSE
