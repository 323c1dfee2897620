SPECIFICATION ReplySpec
CONSTANTS
  Base = 16
  WordLen = 2
  FirstCap = 4
  SevCap = 3
  MsgCap = 4
  CodeCap = 2
  LineCap = 9
  OutCaps = {1, 2, 5, 40}
  Replies <- MCReplies
  AuthReplies <- MCAuthReplies
  NoValue = NoValue
INVARIANT ReplyTypeOK
INVARIANT ReadyIsFound
INVARIANT OutputIsExact
INVARIANT AnswersTheRequest
 
CHECK_DEADLOCK FALSE
