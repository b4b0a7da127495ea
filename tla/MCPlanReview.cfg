SPECIFICATION Spec
CONSTANTS
  p1 = p1
  p2 = p2
  Plans = {p1, p2}
  MaxVersion <- MCMaxVersion
INVARIANT PendingHasReview
PROPERTIES PostedPlansWait ReviewEnds
CHECK_DEADLOCK FALSE
