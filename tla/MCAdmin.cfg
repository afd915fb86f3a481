SPECIFICATION MCSpec
SYMMETRY MCSymmetry
CONSTANTS
  u1 = u1
  lower = lower
  upper = upper
  c1 = c1
  c2 = c2
  s1 = s1
  s2 = s2
  w1 = w1
  mia = mia
  bob = bob
  ada = ada
  net = net
  mm = mm
  rfc = rfc
  new = new
  fixed = fixed
  l = l
  Null = Null
  Users = {u1}
  Addresses = {lower, upper}
  Lower <- MCLower
  Confirmations = {c1, c2}
  Sessions = {s1, s2}
  Workers = {w1, w2}
  MaxEpoch = 0
  None = None
  People = {mia, bob, ada}
  Admins = {ada}
  Setup <- MCSetup
  NewProjects <- MCNewProjects
  States = {new, fixed}
  Ordering <- MCOrdering
  RuleRows <- MCRuleRows
  HookRows <- MCHookRows
  HookChanges <- MCHookChanges
  Mails <- MCMails
  UserOf <- MCUserOf
  Matching <- MCMatching
  PathOrder <- MCPathOrder
  MaxHooks = 2
CHECK_DEADLOCK FALSE
INVARIANTS
  UsedUpMeansDone
  NoSessionOutlivesAChange
  ReferencesHold
PROPERTIES
  PendingIsSpared
  PatchesWellRouted
  DelegatesByTheRules
