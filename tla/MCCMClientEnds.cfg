SPECIFICATION FairSpec
CONSTANTS
  p = p
  q = q
  Callers = {p}
  Replies <- LongReply
  MaxJobQueue = 2
  MaxFrame = 1
  MaxPushes = 1
  None = None
PROPERTIES
  AnswerWakes
  EndsAfterFail
CHECK_DEADLOCK FALSE
