SPECIFICATION MCSpec
CONSTANTS
  p1 = p1
  p2 = p2
  p3 = p3
  c0 = c0
  k1 = k1
  k2 = k2
  mia = mia
  ned = ned
  bob = bob
  net = net
  mm = mm
  ctx = ctx
  new = new
  done = done
  a0 = a0
  a1 = a1
  a2 = a2
  a3 = a3
  b2 = b2
  b3 = b3
  s1 = s1
  s2 = s2
  Null = Null
  None = None
  Patches = {p1, p2, p3}
  Covers = {c0}
  ProjectOf <- MCProjectOf
  Users = {mia, ned, bob}
  Sessions = {s1, s2}
  Maintained <- MCMaintained
  SubmittedBy <- MCSubmittedBy
  Notified = {p1}
  Comments = {k1, k2}
  CommentOn <- MCCommentOn
  States = {new, done}
  InitialState = new
  Bodies <- MCBodies
  Forms <- MCForms
  ListForms <- MCListForms
  MaxRelations = 3
  Contexts = {ctx}
  Maintains <- MCMaintains
  MaxRequests = 3
  BundleIds = {1, 2}
  Names = {"a", "b"}
  PatchLists <- MCLists
  MaxOrder = 2
  PerPage = 2
  SortKeys = {1, 2}
  MaxRows = 4
  MaxPages = 2
  Mails = {a1, a2, a3, b2, b3}
  Cover = a0
  Sender <- MCSender
  Number <- MCNumber
  Refs <- MCRefs
  Total = 3
CHECK_DEADLOCK FALSE
INVARIANT
  CompletionIsAnnounced
