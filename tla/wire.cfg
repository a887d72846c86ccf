SPECIFICATION FairSpec
CONSTANTS
  MaxMessages = 3
  HeadSize = 2
  BodySize = 3
  ReplySize = 3
  BUF_SIZE = 6
  STEPSIZE = 2
INVARIANTS TypeOK NoByteAstray WholeReplies
PROPERTIES ImplementsChannel EveryRequestArrives
