SPECIFICATION Spec
CONSTANTS
  MaxMessages = 1
  HeadSize = 2
  BodySize = 3
  ReplySize = 3
  BUF_SIZE = 6
  STEPSIZE = 2
INVARIANT PollNeverBlocks
