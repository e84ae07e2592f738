SPECIFICATION FairSpec
CONSTANTS
  Rows = 3
  Links = 3
  Sloppy = {1}
  MaxInFlight = 2
  MaxRetries = 1
INVARIANTS TypeOK OwnAnswers AnsweredNotAskedAgain FallbackAfterExhaustion LastLinkAsked
PROPERTIES BatchReturns ImplementsChain
CHECK_DEADLOCK FALSE
