SPECIFICATION MCSpec
CONSTANTS
  Null = Null
  Mails <- AllMails
  Mailings <- SplitThread
  MsgIds <- MCMsgIds
  Projects <- MCProjects
  People <- MCPeople
  Names <- MCNames
  Title <- MCTitle
  Similarity <- MCSimilarity
  Delay = 2
  AutoSupersede <- MCProjects
CHECK_DEADLOCK FALSE
INVARIANTS
  OneSeriesPerThread
