SPECIFICATION Spec
CONSTANTS
  p = p
  q = q
  Callers = {p, q}
  Replies <- TwoReplies
  MaxJobQueue = 1
  MaxFrame = 2
  MaxPushes = 1
  None = None
INVARIANTS
  TypeOK
  NoLostWakeup
  NoGap
  FailsAfterDraining
  ClosedHasReason
  NoLostPush
CHECK_DEADLOCK FALSE
