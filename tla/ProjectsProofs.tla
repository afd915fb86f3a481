----------------------------- MODULE ProjectsProofs ---------------------------
(***************************************************************************)
(* Proofs about the set-up of an instance, for any projects, accounts,     *)
(* rules, webhooks and mails: nothing refers to what was deleted, mails    *)
(* reach the project whose pattern takes them, and delegates follow the    *)
(* rules.                                                                  *)
(***************************************************************************)
EXTENDS Projects, FiniteSetTheorems, TLAPS

\* A row has the columns of its table.
IsHook(row) ==
  row = [project |-> row.project, url |-> row.url, creator |-> row.creator,
         active |-> row.active]

IsPatch(row) ==
  row = [project |-> row.project, state |-> row.state, delegate |-> row.delegate]

\* What the proofs assume of the constants: webhooks have their columns, rules
\* a number for their priority, and no address is not one of an account.
Columns ==
  /\ \A row \in HookRows : IsHook(row)
  /\ \A row \in RuleRows : row.priority \in Int
  /\ IsFiniteSet(People)
  /\ UserOf[None] \notin People

(***************************************************************************)
(* The parts of ReferencesHold, each from what an action says of them.     *)
(***************************************************************************)

HooksHold ==
  /\ lastHook \in Nat
  /\ \A h \in DOMAIN hooks :
       /\ IsHook(hooks[h])
       /\ h \in 1..lastHook /\ hooks[h].project \in DOMAIN projects
       /\ hooks[h].creator \in users

PatchesHold ==
  \A m \in DOMAIN patches :
    /\ IsPatch(patches[m])
    /\ patches[m].project \in DOMAIN projects
    /\ patches[m].state \in states
    /\ patches[m].delegate \in users \cup {None}

RulesHold ==
  /\ users \subseteq People
  /\ maintainers \subseteq users \X DOMAIN projects
  /\ rules \subseteq RuleRows
  /\ \A r \in rules : r.project \in DOMAIN projects /\ r.user \in users

\* Rows keep their columns, and accounts and rules are among those there may be.
ProjectsInvariant == RulesHold /\ HooksHold /\ PatchesHold

LEMMA InvariantGivesReferences == ProjectsInvariant => ReferencesHold
BY DEF ProjectsInvariant, RulesHold, HooksHold, PatchesHold, ReferencesHold

\* What is kept when only the rows of others come or go.
LEMMA HooksStay ==
  ASSUME HooksHold, UNCHANGED <<hooks, lastHook>>,
         DOMAIN projects \subseteq DOMAIN projects', users \subseteq users'
  PROVE  HooksHold'
BY DEF HooksHold

LEMMA PatchesStay ==
  ASSUME PatchesHold, UNCHANGED patches, DOMAIN projects \subseteq DOMAIN projects',
         states \subseteq states', users \subseteq users'
  PROVE  PatchesHold'
BY DEF PatchesHold

LEMMA RulesStay ==
  ASSUME RulesHold, UNCHANGED <<users, maintainers, rules>>,
         DOMAIN projects \subseteq DOMAIN projects'
  PROVE  RulesHold'
BY DEF RulesHold

(***************************************************************************)
(* Administration.                                                         *)
(***************************************************************************)

LEMMA ProjectKeeps ==
  ASSUME ProjectsInvariant, NEW p, NEW row,
         ProjectCreate(p, row) \/ ProjectUpdate(p, row)
  PROVE  ProjectsInvariant'
<1>1. /\ DOMAIN projects \subseteq DOMAIN projects'
      /\ UNCHANGED <<users, states, maintainers, rules, hooks, lastHook, patches>>
  BY DEF Set, ProjectCreate, ProjectUpdate
<1> QED BY <1>1, HooksStay, PatchesStay, RulesStay DEF ProjectsInvariant

LEMMA ProjectDeleteKeeps ==
  ASSUME ProjectsInvariant, NEW p, ProjectDelete(p)
  PROVE  ProjectsInvariant'
<1>1. /\ DOMAIN projects' = DOMAIN projects \ {p} /\ UNCHANGED <<users, states, lastHook>>
      /\ maintainers' = {m \in maintainers : m[2] # p}
      /\ rules' = {r \in rules : r.project # p}
  BY DEF Drop, ProjectDelete
<1>2. \A h \in DOMAIN hooks' :
        h \in DOMAIN hooks /\ hooks'[h] = hooks[h] /\ hooks[h].project # p
  <2> DEFINE gone == {h \in DOMAIN hooks : hooks[h].project = p}
  <2>1. hooks' = Drop(hooks, gone)
    BY DEF ProjectDelete
  <2>2. \A h \in DOMAIN hooks \ gone : hooks[h].project # p
    OBVIOUS
  <2> HIDE DEF gone
  <2> QED BY <2>1, <2>2 DEF Drop
<1>3. \A m \in DOMAIN patches' :
        m \in DOMAIN patches /\ patches'[m] = patches[m] /\ patches[m].project # p
  <2> DEFINE gone == {m \in DOMAIN patches : patches[m].project = p}
  <2>1. patches' = Drop(patches, gone)
    BY DEF ProjectDelete
  <2>2. \A m \in DOMAIN patches \ gone : patches[m].project # p
    OBVIOUS
  <2> HIDE DEF gone
  <2> QED BY <2>1, <2>2 DEF Drop
<1>4. RulesHold'
  BY <1>1 DEF RulesHold, ProjectsInvariant
<1>5. HooksHold'
  BY <1>1, <1>2 DEF HooksHold, ProjectsInvariant
<1>6. PatchesHold'
  BY <1>1, <1>3 DEF PatchesHold, ProjectsInvariant
<1> QED BY <1>4, <1>5, <1>6 DEF ProjectsInvariant

LEMMA StateKeeps ==
  ASSUME ProjectsInvariant, NEW s, StateCreate(s) \/ StateDelete(s)
  PROVE  ProjectsInvariant'
<1>1. UNCHANGED <<users, projects, maintainers, rules, hooks, lastHook, patches>>
  BY DEF StateCreate, StateDelete
<1>2. \A m \in DOMAIN patches : patches[m].state \in states => patches[m].state \in states'
  BY DEF StateCreate, StateDelete, InUse
<1>3. PatchesHold'
  BY <1>1, <1>2 DEF PatchesHold, ProjectsInvariant
<1> QED BY <1>1, <1>3, HooksStay, RulesStay DEF ProjectsInvariant

LEMMA MaintainerKeeps ==
  ASSUME ProjectsInvariant, NEW p, NEW u, MaintainerAdd(p, u) \/ MaintainerRemove(p, u)
  PROVE  ProjectsInvariant'
<1>1. UNCHANGED <<users, projects, states, rules, hooks, lastHook, patches>>
  BY DEF MaintainerAdd, MaintainerRemove
<1>2. RulesHold'
  BY <1>1 DEF RulesHold, MaintainerAdd, MaintainerRemove, ProjectsInvariant
<1> QED BY <1>1, <1>2, HooksStay, PatchesStay DEF ProjectsInvariant

LEMMA AccountDeleteKeeps ==
  ASSUME ProjectsInvariant, NEW u, AccountDelete(u)
  PROVE  ProjectsInvariant'
<1>1. /\ users' = users \ {u} /\ UNCHANGED <<projects, states, hooks, lastHook>>
      /\ maintainers' = {m \in maintainers : m[1] # u}
      /\ rules' = {r \in rules : r.user # u}
      /\ \A h \in DOMAIN hooks : hooks[h].creator # u
  BY DEF AccountDelete
<1>2. RulesHold'
  BY <1>1 DEF RulesHold, ProjectsInvariant
<1>3. HooksHold'
  BY <1>1 DEF HooksHold, ProjectsInvariant
<1>4. DOMAIN patches' = DOMAIN patches
  BY DEF AccountDelete
<1>5. ASSUME NEW m \in DOMAIN patches
      PROVE  /\ IsPatch(patches'[m]) /\ patches'[m].project = patches[m].project
             /\ patches'[m].state = patches[m].state
             /\ patches'[m].delegate \in users' \cup {None}
  <2>1. patches'[m] = IF patches[m].delegate = u
                      THEN [patches[m] EXCEPT !.delegate = None] ELSE patches[m]
    BY <1>5 DEF AccountDelete
  <2>2. IsPatch(patches[m]) /\ patches[m].delegate \in users \cup {None}
    BY <1>5 DEF PatchesHold, ProjectsInvariant
  <2>3. PICK row : row = patches[m]
    OBVIOUS
  <2> QED BY <1>1, <2>1, <2>2, <2>3 DEF IsPatch
<1>6. PatchesHold'
  BY <1>1, <1>4, <1>5 DEF PatchesHold, ProjectsInvariant
<1> QED BY <1>2, <1>3, <1>6 DEF ProjectsInvariant

LEMMA RuleKeeps ==
  ASSUME ProjectsInvariant, NEW rule \in RuleRows,
         DelegateRuleCreate(rule) \/ DelegateRuleDelete(rule)
  PROVE  ProjectsInvariant'
<1>1. UNCHANGED <<users, projects, states, maintainers, hooks, lastHook, patches>>
  BY DEF DelegateRuleCreate, DelegateRuleDelete
<1>2. RulesHold'
  BY <1>1 DEF RulesHold, DelegateRuleCreate, DelegateRuleDelete, ProjectsInvariant
<1> QED BY <1>1, <1>2, HooksStay, PatchesStay DEF ProjectsInvariant

(***************************************************************************)
(* Webhooks.                                                               *)
(***************************************************************************)

LEMMA InsertKeeps ==
  ASSUME ProjectsInvariant, NEW row, IsHook(row), row.project \in DOMAIN projects,
         row.creator \in users, Insert(row), UNCHANGED <<config, patches>>
  PROVE  ProjectsInvariant'
<1>1. lastHook' = lastHook + 1 /\ hooks' = Set(hooks, lastHook + 1, row)
      /\ UNCHANGED <<users, projects, states, maintainers, rules, patches>>
  BY DEF Insert, config
<1>2. HooksHold'
  <2> SUFFICES ASSUME NEW h \in DOMAIN hooks'
               PROVE  /\ IsHook(hooks'[h]) /\ h \in 1..lastHook'
                      /\ hooks'[h].project \in DOMAIN projects
                      /\ hooks'[h].creator \in users
    BY <1>1 DEF HooksHold, ProjectsInvariant
  <2>1. CASE h = lastHook + 1
    BY <1>1, <2>1 DEF Set, HooksHold, ProjectsInvariant
  <2>2. CASE h # lastHook + 1
    <3>1. h \in DOMAIN hooks /\ hooks'[h] = hooks[h]
      BY <1>1, <2>2 DEF Set
    <3> QED BY <1>1, <3>1 DEF HooksHold, ProjectsInvariant
  <2> QED BY <2>1, <2>2
<1> QED BY <1>1, <1>2, PatchesStay, RulesStay DEF ProjectsInvariant

LEMMA UpdateKeeps ==
  ASSUME ProjectsInvariant, NEW h \in DOMAIN hooks, NEW body, Update(h, body),
         UNCHANGED <<config, lastHook, patches>>
  PROVE  ProjectsInvariant'
<1> DEFINE row == hooks[h]
           new == Changed(row, body)
<1>1. hooks' = [hooks EXCEPT ![h] = new] /\ IsHook(row)
      /\ UNCHANGED <<users, projects, states, maintainers, rules, patches, lastHook>>
  BY DEF Update, config, HooksHold, ProjectsInvariant
<1>2. IsHook(new) /\ new.project = row.project /\ new.creator = row.creator
  <2>1. new = [row EXCEPT !.url = Given(body.url, row.url),
                          !.active = Given(body.active, row.active)]
    BY DEF Changed
  <2> HIDE DEF row, new
  <2> QED BY <1>1, <2>1 DEF IsHook
<1> HIDE DEF new
<1>3. HooksHold'
  BY <1>1, <1>2 DEF HooksHold, ProjectsInvariant
<1> QED BY <1>1, <1>3, PatchesStay, RulesStay DEF ProjectsInvariant

LEMMA DeleteKeeps ==
  ASSUME ProjectsInvariant, NEW h, hooks' = Drop(hooks, {h}),
         UNCHANGED <<config, lastHook, patches>>
  PROVE  ProjectsInvariant'
<1>1. /\ UNCHANGED <<users, projects, states, maintainers, rules, patches, lastHook>>
      /\ \A g \in DOMAIN hooks' : g \in DOMAIN hooks /\ hooks'[g] = hooks[g]
  BY DEF Drop, config
<1>2. HooksHold'
  BY <1>1 DEF HooksHold, ProjectsInvariant
<1> QED BY <1>1, <1>2, PatchesStay, RulesStay DEF ProjectsInvariant

LEMMA CreateWebhookKeeps ==
  ASSUME Columns, ProjectsInvariant, NEW u, NEW p, NEW row \in HookRows,
         CreateWebhook(u, p, row)
  PROVE  ProjectsInvariant'
<1> DEFINE new == [row EXCEPT !.project = p, !.creator = u]
<1>1. p \in DOMAIN projects /\ u \in users /\ Insert(new) /\ UNCHANGED <<config, patches>>
  BY DEF CreateWebhook, MayManage
<1>2. IsHook(new) /\ new.project = p /\ new.creator = u
  <2>1. PICK at, by, url, active :
          row = [project |-> at, url |-> url, creator |-> by, active |-> active]
    BY DEF Columns, IsHook
  <2> DEFINE columns == {"project", "url", "creator", "active"}
  <2>2. row = [c \in columns |-> CASE c = "project" -> at [] c = "url" -> url
                                   [] c = "creator" -> by [] c = "active" -> active]
    BY <2>1
  <2>3. new = [c \in columns |-> CASE c = "project" -> p [] c = "url" -> url
                                   [] c = "creator" -> u [] c = "active" -> active]
    BY <2>2
  <2>4. new = [project |-> p, url |-> url, creator |-> u, active |-> active]
    BY <2>3
  <2> HIDE DEF new
  <2> QED BY <2>4 DEF IsHook
<1> HIDE DEF new
<1> QED BY <1>1, <1>2, InsertKeeps

(***************************************************************************)
(* Mails.                                                                  *)
(***************************************************************************)

\* The one user that the deciding rules name.
LEMMA DelegateByFilenameFacts ==
  ASSUME Columns, ProjectsInvariant, NEW p, NEW files,
         NEW u, u = FindDelegateByFilename(p, files), u # None
  PROVE  /\ u \in users
         /\ \A f \in files : \E r \in Deciding(p, f) : r.user = u
<1> DEFINE deciders == {r.user : r \in UNION {Deciding(p, f) : f \in files}}
<1>1. /\ Cardinality(deciders) = 1
      /\ \A f \in files : Deciding(p, f) # {}
      /\ u = CHOOSE v \in deciders : TRUE
  BY DEF FindDelegateByFilename
<1>2. \A f \in files : Deciding(p, f) \subseteq rules
  BY DEF Deciding
<1>3. deciders \subseteq users /\ deciders \subseteq People
  BY <1>2 DEF ProjectsInvariant, RulesHold
<1>4. \A f \in files : \A r \in Deciding(p, f) : r.user \in deciders
  OBVIOUS
<1> HIDE DEF deciders
<1>5. IsFiniteSet(deciders)
  BY <1>3, FS_Subset DEF Columns
<1>6. PICK v : deciders = {v}
  BY <1>1, <1>5, FS_Singleton
<1>7. u = v
  BY <1>1, <1>6
<1> QED BY <1>1, <1>3, <1>4, <1>6, <1>7

LEMMA HandlePatchFacts ==
  ASSUME Columns, ProjectsInvariant, NEW m, HandlePatch(m)
  PROVE  \E p \in ResolveProject(m) : \E s \in FindState(m, p) :
           /\ patches' = Set(patches, m, [project |-> p, state |-> s,
                                          delegate |-> FindDelegate(m, p)])
           /\ p \in DOMAIN projects /\ s \in states
           /\ FindDelegate(m, p) \in users \cup {None}
<1>1. PICK p \in ResolveProject(m) : \E s \in FindState(m, p) :
        patches' = Set(patches, m,
          [project |-> p, state |-> s, delegate |-> FindDelegate(m, p)])
  BY DEF HandlePatch
<1>2. PICK s \in FindState(m, p) :
        patches' = Set(patches, m,
          [project |-> p, state |-> s, delegate |-> FindDelegate(m, p)])
  BY <1>1
<1>3. p \in DOMAIN projects
  BY DEF ResolveProject, OnList
<1>4. s \in states
  BY DEF FindState, Default
<1>5. FindDelegateByFilename(p, m.files) \in users \cup {None}
  BY DelegateByFilenameFacts
<1>6. FindDelegate(m, p) \in users \cup {None}
  BY <1>5 DEF FindDelegate
<1> QED BY <1>2, <1>3, <1>4, <1>6

LEMMA HandlePatchKeeps ==
  ASSUME Columns, ProjectsInvariant, NEW m, HandlePatch(m)
  PROVE  ProjectsInvariant'
<1>1. \E row : /\ patches' = Set(patches, m, row) /\ IsPatch(row)
                /\ row.project \in DOMAIN projects /\ row.state \in states
                /\ row.delegate \in users \cup {None}
  <2>1. PICK p, s :
          /\ patches' = Set(patches, m, [project |-> p, state |-> s,
                                         delegate |-> FindDelegate(m, p)])
          /\ p \in DOMAIN projects /\ s \in states
          /\ FindDelegate(m, p) \in users \cup {None}
    BY HandlePatchFacts
  <2> DEFINE row == [project |-> p, state |-> s, delegate |-> FindDelegate(m, p)]
  <2>2. row.project = p /\ row.state = s /\ row.delegate = FindDelegate(m, p)
    OBVIOUS
  <2>3. IsPatch(row)
    BY DEF IsPatch
  <2>4. patches' = Set(patches, m, row)
    BY <2>1
  <2> HIDE DEF row
  <2> QED BY <2>1, <2>2, <2>3, <2>4
<1> PICK row : /\ patches' = Set(patches, m, row) /\ IsPatch(row)
               /\ row.project \in DOMAIN projects /\ row.state \in states
               /\ row.delegate \in users \cup {None}
  BY <1>1
<1>2. UNCHANGED <<users, projects, states, maintainers, rules, hooks, lastHook>>
  BY DEF HandlePatch, config
<1>3. ASSUME NEW n \in DOMAIN patches'
      PROVE  patches'[n] = row \/ (n \in DOMAIN patches /\ patches'[n] = patches[n])
  BY <1>1, <1>3 DEF Set
<1>4. PatchesHold'
  BY <1>1, <1>2, <1>3 DEF PatchesHold, ProjectsInvariant
<1> QED BY <1>2, <1>4, HooksStay, RulesStay DEF ProjectsInvariant

(***************************************************************************)
(* The invariant.                                                          *)
(***************************************************************************)

LEMMA InvariantInit == ProjectsInit => ProjectsInvariant
BY DEF ProjectsInit, ProjectsInvariant, RulesHold, HooksHold, PatchesHold

LEMMA AdminKeeps ==
  ASSUME Columns, ProjectsInvariant, Admin
  PROVE  ProjectsInvariant'
<1>1. ASSUME NEW row \in HookRows, WebhookCreate(row)
      PROVE  ProjectsInvariant'
  BY <1>1, InsertKeeps DEF WebhookCreate, Columns
<1>2. ASSUME NEW h \in DOMAIN hooks, WebhookDelete(h)
      PROVE  ProjectsInvariant'
  BY <1>2, DeleteKeeps DEF WebhookDelete
<1>3. ASSUME NEW h \in DOMAIN hooks, NEW body \in HookChanges, WebhookUpdate(h, body)
      PROVE  ProjectsInvariant'
  BY <1>3, UpdateKeeps DEF WebhookUpdate
<1> QED BY <1>1, <1>2, <1>3, ProjectKeeps, ProjectDeleteKeeps, StateKeeps,
           MaintainerKeeps, AccountDeleteKeeps, RuleKeeps DEF Admin

LEMMA ApiKeeps ==
  ASSUME Columns, ProjectsInvariant, Api
  PROVE  ProjectsInvariant'
<1>1. ASSUME NEW u, NEW p, NEW h \in DOMAIN hooks, NEW body, UpdateWebhook(u, p, h, body)
      PROVE  ProjectsInvariant'
  BY <1>1, UpdateKeeps DEF UpdateWebhook
<1>2. ASSUME NEW u, NEW p, NEW h, DeleteWebhook(u, p, h)
      PROVE  ProjectsInvariant'
  BY <1>2, DeleteKeeps DEF DeleteWebhook
<1> QED BY <1>1, <1>2, CreateWebhookKeeps DEF Api

LEMMA ProjectsStep ==
  ASSUME Columns, ProjectsInvariant, [ProjectsNext]_projectVars
  PROVE  ProjectsInvariant'
<1>1. CASE UNCHANGED projectVars
  BY <1>1 DEF projectVars, ProjectsInvariant, RulesHold, HooksHold, PatchesHold
<1> QED BY <1>1, AdminKeeps, ApiKeeps, HandlePatchKeeps DEF ProjectsNext

LEMMA ProjectsIsInvariant ==
  ASSUME Columns
  PROVE  ProjectsSpec => []ProjectsInvariant
<1>1. ProjectsInvariant /\ [ProjectsNext]_projectVars => ProjectsInvariant'
  BY ProjectsStep
<1> QED BY InvariantInit, <1>1, PTL DEF ProjectsSpec

\* Nothing refers to a project, state or account that was deleted, in whatever
\* order commands, requests and mails come: what a foreign key does not delete
\* with it keeps it alive, or forgets it (the tables of pkg/db/models.go).
THEOREM ReferencesAreKept ==
  ASSUME Columns
  PROVE  ProjectsSpec => []ReferencesHold
BY InvariantGivesReferences, ProjectsIsInvariant, PTL

(***************************************************************************)
(* What becomes of a mail.                                                 *)
(***************************************************************************)

\* Only mails bring patches.
LEMMA OnlyMailsArrive ==
  ASSUME ProjectsNext
  PROVE  Arrived = {} \/ \E m \in Mails : HandlePatch(m)
<1>1. ASSUME Admin \/ Api PROVE DOMAIN patches' \subseteq DOMAIN patches
  <2>1. ASSUME NEW p, ProjectDelete(p) PROVE DOMAIN patches' \subseteq DOMAIN patches
    BY <2>1 DEF Drop, ProjectDelete
  <2>2. ASSUME NEW u, AccountDelete(u) PROVE DOMAIN patches' \subseteq DOMAIN patches
    BY <2>2 DEF AccountDelete
  <2>3. CASE Api
    BY <2>3 DEF Api, CreateWebhook, UpdateWebhook, DeleteWebhook
  <2>4. CASE Admin
    BY <2>1, <2>2, <2>4
    DEF Admin, ProjectCreate, ProjectUpdate, StateCreate, StateDelete, MaintainerAdd,
        MaintainerRemove, DelegateRuleCreate, DelegateRuleDelete, WebhookCreate,
        WebhookDelete, WebhookUpdate
  <2> QED BY <1>1, <2>3, <2>4
<1> QED BY <1>1 DEF ProjectsNext, Arrived

LEMMA ArrivedRow ==
  ASSUME NEW m, NEW p, NEW s, NEW u, m \notin DOMAIN patches,
         patches' = Set(patches, m, [project |-> p, state |-> s, delegate |-> u])
  PROVE  \A n \in Arrived :
           n = m /\ patches'[n].project = p /\ patches'[n].delegate = u
<1> DEFINE row == [project |-> p, state |-> s, delegate |-> u]
<1>1. row.project = p /\ row.delegate = u /\ patches' = Set(patches, m, row)
  OBVIOUS
<1> HIDE DEF row
<1>2. \A n \in Arrived : n = m /\ patches'[n] = row
  BY <1>1 DEF Set, Arrived
<1> QED BY <1>1, <1>2

LEMMA HandlePatchRoutes ==
  ASSUME NEW m, HandlePatch(m)
  PROVE  WellRouted
<1>1. PICK p \in ResolveProject(m) : \E s \in FindState(m, p) :
        patches' = Set(patches, m,
          [project |-> p, state |-> s, delegate |-> FindDelegate(m, p)])
  BY DEF HandlePatch
<1>2. \A n \in Arrived : n = m /\ patches'[n].project = p
  BY <1>1, ArrivedRow DEF HandlePatch
<1>3. /\ projects[p].list = m.list
      /\ \/ projects[p].match \in m.subject
         \/ CatchAll(p) /\ \A q \in OnList(m) : projects[q].match \notin m.subject
  BY DEF ResolveProject, OnList
<1> QED BY <1>2, <1>3 DEF WellRouted

\* A patch lands in a project whose pattern takes its subject, or in the
\* catch-all of its list when no pattern there does, whatever projects come and
\* go and in whatever order the rows are read (resolveProject).
THEOREM MailsReachTheirProject == ProjectsSpec => PatchesWellRouted
<1>1. ASSUME ProjectsNext PROVE WellRouted
  BY <1>1, OnlyMailsArrive, HandlePatchRoutes DEF WellRouted
<1>2. [ProjectsNext]_projectVars => [WellRouted]_projectVars
  BY <1>1
<1> QED BY <1>2, PTL DEF ProjectsSpec, PatchesWellRouted

LEMMA HandlePatchDelegates ==
  ASSUME Columns, ProjectsInvariant, NEW m, HandlePatch(m)
  PROVE  ByTheRules
<1>1. PICK p \in ResolveProject(m) : \E s \in FindState(m, p) :
        patches' = Set(patches, m,
          [project |-> p, state |-> s, delegate |-> FindDelegate(m, p)])
  BY DEF HandlePatch
<1> DEFINE u == FindDelegate(m, p)
           Rules(f) == {r \in rules : r.project = p /\ f \in Matching[r.path]}
<1>2. \A n \in Arrived : n = m /\ patches'[n].project = p /\ patches'[n].delegate = u
  BY <1>1, ArrivedRow DEF HandlePatch
<1>3. ASSUME m.delegate = None, u # None, NEW f \in m.files
      PROVE  \E r \in Rules(f) :
               /\ r.user = u
               /\ \A q \in Rules(f) : q.priority > r.priority => q.user = r.user
  <2>1. UserOf[m.delegate] \notin users
    BY <1>3 DEF Columns, ProjectsInvariant, RulesHold
  <2>2. u = FindDelegateByFilename(p, m.files)
    BY <2>1 DEF FindDelegate
  <2>3. PICK r \in Deciding(p, f) : r.user = u
    BY <1>3, <2>2, DelegateByFilenameFacts
  <2>4. r \in Rules(f) /\ \A q \in Rules(f) : q # r => Before(r, q)
    BY DEF Deciding
  <2>5. \A q \in Rules(f) : q.priority \in Int
    BY DEF Columns, ProjectsInvariant, RulesHold
  <2>6. \A q \in Rules(f) : ~(q.priority > r.priority)
    BY <2>4, <2>5 DEF Before
  <2> QED BY <2>3, <2>4, <2>6
<1> QED BY <1>2, <1>3 DEF ByTheRules

\* A delegate whom no header names has a rule for every file of the patch, and
\* no rule of a higher priority there is for another user, whatever rules and
\* accounts come and go (findDelegate, FindDelegateByFilename).
THEOREM DelegatesFollowTheRules ==
  ASSUME Columns
  PROVE  ProjectsSpec => DelegatesByTheRules
<1>1. ProjectsInvariant /\ ProjectsNext => ByTheRules
  BY OnlyMailsArrive, HandlePatchDelegates DEF ByTheRules
<1>2. ProjectsInvariant /\ [ProjectsNext]_projectVars => [ByTheRules]_projectVars
  BY <1>1
<1> QED BY <1>2, ProjectsIsInvariant, PTL DEF ProjectsSpec, DelegatesByTheRules
=============================================================================
