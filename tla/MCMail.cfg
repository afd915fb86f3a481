SPECIFICATION MCSpec
CONSTANTS
  Mails <- GitMails
  Tags <- MCTags
  Titles <- MCTitles
CHECK_DEADLOCK FALSE
INVARIANTS NothingIsLost DiffIsWhole HashFindsTheEdit MailboxKeepsThePatch AlikeForDifflib
