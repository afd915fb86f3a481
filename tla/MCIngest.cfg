SPECIFICATION MCSpec
CONSTANTS
  Null = Null
  Mails <- AllMails
  Mailings <- Situations
  MsgIds <- MCMsgIds
  Projects <- MCProjects
  People <- MCPeople
  Names <- MCNames
  Title <- MCTitle
  Similarity <- MCSimilarity
  Delay = 2
  AutoSupersede <- MCProjects
CHECK_DEADLOCK FALSE
INVARIANTS
  TypeOK
  SeriesIsHomogeneous
  PreviousIsPriorVersion
  SupersededByNextVersion
  ThreadsStayTogether
  PatchCompletedExactlyOnce
  EveryNumberedPatchHasItsSlot
  SeriesCompletedWhenAllArrived
  ReferencesStayInProject
  TagsCountEveryComment
