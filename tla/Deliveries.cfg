SPECIFICATION FairSpec
CONSTANTS
  Limit = 4
  HistoryLimit = 4
  Threads = {t1}
  BotPairs <- MCPairs
  NotAnId = NotAnId
  Texts <- MCTexts
  Targets = {"dev", "qa"}
  Header <- MCHeader
  Retries = 2
  PostLimit = 5
  MaxCalls = 2
  MaxChat = 1
CHECK_DEADLOCK FALSE
INVARIANTS TypeOK DeliveredIsWhole CopiesAreFewAndInOrder CutIsFaithful HistoryIsFaithful
PROPERTIES AnswerIsFinal CallsReturn
