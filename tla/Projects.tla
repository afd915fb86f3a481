------------------------------- MODULE Projects -------------------------------
(***************************************************************************)
(* What an instance is set up with, and what mails make of it: projects,   *)
(* states, maintainers, delegation rules and webhooks, kept by the         *)
(* administrator with pw admin (cmd/pw/admin) and by maintainers through   *)
(* the REST API (pkg/api/webhooks.go), and the project, state and delegate *)
(* a new patch gets (pkg/mail/project.go).                                 *)
(*                                                                         *)
(* Every command and request is a transaction of its own and one action; a *)
(* command that fails changes nothing and is a stuttering step.  The       *)
(* foreign keys are those of pkg/db/models.go.                             *)
(***************************************************************************)
EXTENDS Integers, FiniteSets

CONSTANTS
  People,           \* accounts
  Admins,          \* those with is_admin
  Setup,           \* the projects at first: a function to their rows
  NewProjects,     \* rows a project may be created with or updated to
  States,          \* states that may exist
  Ordering,        \* the ordering of a state
  RuleRows,        \* the rules that may be created
  HookRows,        \* the webhooks that may be created
  HookChanges,     \* the bodies of updates, None for a field left out
  Mails,           \* the patches that may arrive; subject holds the patterns
                   \* that match it
  UserOf,          \* the active account of an address, or None
  Matching,        \* the files a rule's path matches
  PathOrder,       \* how paths sort
  MaxHooks,        \* bound: webhooks ever created
  None

VARIABLES
  users,           \* accounts that exist
  projects,        \* table project, by id: its list and its subject pattern
  states,          \* table state
  maintainers,     \* table project_maintainer
  rules,           \* table delegation_rule
  hooks,           \* table webhook, by id
  lastHook,        \* the last id of table webhook
  patches          \* table patch, by mail: its project, state and delegate

projectVars == <<users, projects, states, maintainers, rules, hooks, lastHook, patches>>

config == <<users, projects, states, maintainers, rules>>

Drop(f, gone) == [x \in DOMAIN f \ gone |-> f[x]]

Set(f, x, value) == [y \in DOMAIN f \cup {x} |-> IF y = x THEN value ELSE f[y]]

IsMaintainer(u, p) == u \in Admins \/ <<u, p>> \in maintainers

-----------------------------------------------------------------------------
(* pw admin project, state and maintainer                                  *)

\* UNIQUE (listid, subject_match).
ProjectRowFree(p, row) == \A q \in DOMAIN projects \ {p} : projects[q] # row

ProjectCreate(p, row) ==
  /\ p \notin DOMAIN projects
  /\ ProjectRowFree(p, row)
  /\ projects' = Set(projects, p, row)
  /\ UNCHANGED <<users, states, maintainers, rules, hooks, lastHook, patches>>

Given(new, old) == IF new = None THEN old ELSE new

\* An option left out leaves its column: a pattern cannot be taken away.
ProjectUpdate(p, options) ==
  /\ p \in DOMAIN projects
  /\ LET row == [list |-> Given(options.list, projects[p].list),
                 match |-> Given(options.match, projects[p].match)]
     IN /\ ProjectRowFree(p, row)
        /\ projects' = Set(projects, p, row)
  /\ UNCHANGED <<users, states, maintainers, rules, hooks, lastHook, patches>>

\* Everything of the project goes with it.
ProjectDelete(p) ==
  /\ p \in DOMAIN projects
  /\ projects' = Drop(projects, {p})
  /\ maintainers' = {m \in maintainers : m[2] # p}
  /\ rules' = {r \in rules : r.project # p}
  /\ hooks' = Drop(hooks, {h \in DOMAIN hooks : hooks[h].project = p})
  /\ patches' = Drop(patches, {m \in DOMAIN patches : patches[m].project = p})
  /\ UNCHANGED <<users, states, lastHook>>

\* UNIQUE (ordering).
StateCreate(s) ==
  /\ s \notin states
  /\ \A t \in states : Ordering[t] # Ordering[s]
  /\ states' = states \cup {s}
  /\ UNCHANGED <<users, projects, maintainers, rules, hooks, lastHook, patches>>

\* Mutant: patches refer to their state without a foreign key.
MutantInUse(s) == FALSE

\* The foreign key of a patch keeps its state alive.
InUse(s) == \E m \in DOMAIN patches : patches[m].state = s

StateDelete(s) ==
  /\ s \in states
  /\ ~InUse(s)
  /\ states' = states \ {s}
  /\ UNCHANGED <<users, projects, maintainers, rules, hooks, lastHook, patches>>

MaintainerAdd(p, u) ==
  /\ p \in DOMAIN projects
  /\ u \in users
  /\ maintainers' = maintainers \cup {<<u, p>>}
  /\ UNCHANGED <<users, projects, states, rules, hooks, lastHook, patches>>

MaintainerRemove(p, u) ==
  /\ <<u, p>> \in maintainers
  /\ maintainers' = maintainers \ {<<u, p>>}
  /\ UNCHANGED <<users, projects, states, rules, hooks, lastHook, patches>>

\* The user's rules and rights go with the account, patches lose their
\* delegate; a webhook keeps its creator alive.
AccountDelete(u) ==
  /\ u \in users
  /\ \A h \in DOMAIN hooks : hooks[h].creator # u
  /\ users' = users \ {u}
  /\ maintainers' = {m \in maintainers : m[1] # u}
  /\ rules' = {r \in rules : r.user # u}
  /\ patches' = [m \in DOMAIN patches |->
                   IF patches[m].delegate = u
                   THEN [patches[m] EXCEPT !.delegate = None] ELSE patches[m]]
  /\ UNCHANGED <<projects, states, hooks, lastHook>>

-----------------------------------------------------------------------------
(* pw admin delegate-rule                                                  *)

\* UNIQUE (path, project).
DelegateRuleCreate(rule) ==
  /\ rule.project \in DOMAIN projects
  /\ rule.user \in users
  /\ \A r \in rules : r.project = rule.project => r.path # rule.path
  /\ rules' = rules \cup {rule}
  /\ UNCHANGED <<users, projects, states, maintainers, hooks, lastHook, patches>>

DelegateRuleDelete(rule) ==
  /\ rule \in rules
  /\ rules' = rules \ {rule}
  /\ UNCHANGED <<users, projects, states, maintainers, hooks, lastHook, patches>>

-----------------------------------------------------------------------------
(* Webhooks, by pw admin webhook and by the API                            *)

\* UNIQUE (project, url).
UrlFree(h, project, url) ==
  \A g \in DOMAIN hooks \ {h} : hooks[g].project = project => hooks[g].url # url

Insert(row) ==
  /\ UrlFree(lastHook + 1, row.project, row.url)
  /\ lastHook < MaxHooks
  /\ lastHook' = lastHook + 1
  /\ hooks' = Set(hooks, lastHook + 1, row)

Changed(row, body) ==
  [row EXCEPT !.url = Given(body.url, @), !.active = Given(body.active, @)]

Update(h, body) ==
  /\ UrlFree(h, hooks[h].project, Changed(hooks[h], body).url)
  /\ hooks' = [hooks EXCEPT ![h] = Changed(@, body)]

WebhookCreate(row) ==
  /\ row.project \in DOMAIN projects
  /\ row.creator \in users
  /\ Insert(row)
  /\ UNCHANGED <<config, patches>>

WebhookUpdate(h, body) ==
  /\ h \in DOMAIN hooks
  /\ Update(h, body)
  /\ UNCHANGED <<config, lastHook, patches>>

WebhookDelete(h) ==
  /\ h \in DOMAIN hooks
  /\ hooks' = Drop(hooks, {h})
  /\ UNCHANGED <<config, lastHook, patches>>

\* requireMaintainer of the project in the path: admins of any id at all.
MayManage(u, p) == u \in users /\ IsMaintainer(u, p)

\* The webhooks a path with the project can name.
HooksOf(p) == {h \in DOMAIN hooks : hooks[h].project = p}

\* The creator is the user who asks; the foreign key wants a project.
CreateWebhook(u, p, row) ==
  /\ MayManage(u, p)
  /\ p \in DOMAIN projects
  /\ Insert([row EXCEPT !.project = p, !.creator = u])
  /\ UNCHANGED <<config, patches>>

UpdateWebhook(u, p, h, body) ==
  /\ MayManage(u, p)
  /\ h \in HooksOf(p)
  /\ Update(h, body)
  /\ UNCHANGED <<config, lastHook, patches>>

DeleteWebhook(u, p, h) ==
  /\ MayManage(u, p)
  /\ h \in HooksOf(p)
  /\ hooks' = Drop(hooks, {h})
  /\ UNCHANGED <<config, lastHook, patches>>

-----------------------------------------------------------------------------
(* A mail's project, state and delegate                                    *)

OnList(m) == {p \in DOMAIN projects : projects[p].list = m.list}

CatchAll(p) == projects[p].match = None

\* Mutant: the first project of the list takes the mail.
MutantResolveProject(m) == OnList(m)

\* The projects that the loop over the rows of the list, which come in no
\* particular order, may end with: a match ends it, a catch-all does not.
ResolveProject(m) ==
  LET matches == {p \in OnList(m) : projects[p].match \in m.subject}
  IN IF matches # {} THEN matches ELSE {p \in OnList(m) : CatchAll(p)}

\* The control headers count only when the sender's address is that of an
\* account with rights on the project.
SenderIsMaintainer(m, p) ==
  LET u == UserOf[m.from] IN u \in users /\ IsMaintainer(u, p)

Default == {s \in states : Ordering[s] = 0}

FindState(m, p) ==
  IF m.state \in states /\ SenderIsMaintainer(m, p) THEN {m.state} ELSE Default

\* Mutant: lower values first, as the help of the command has it.
MutantBefore(r1, r2) ==
  \/ r1.priority < r2.priority
  \/ r1.priority = r2.priority /\ PathOrder[r1.path] < PathOrder[r2.path]

\* ORDER BY priority DESC, path.
Before(r1, r2) ==
  \/ r1.priority > r2.priority
  \/ r1.priority = r2.priority /\ PathOrder[r1.path] < PathOrder[r2.path]

\* The rule that decides about a file: the first that matches it.
Deciding(p, file) ==
  LET matching == {r \in rules : r.project = p /\ file \in Matching[r.path]}
  IN {r \in matching : \A q \in matching \ {r} : Before(r, q)}

\* All files have a rule, and their rules name one user.
FindDelegateByFilename(p, files) ==
  LET deciders == {r.user : r \in UNION {Deciding(p, f) : f \in files}}
  IN IF Cardinality(deciders) = 1 /\ \A f \in files : Deciding(p, f) # {}
     THEN CHOOSE u \in deciders : TRUE
     ELSE None

FindDelegate(m, p) ==
  IF UserOf[m.delegate] \in users /\ SenderIsMaintainer(m, p)
  THEN UserOf[m.delegate]
  ELSE FindDelegateByFilename(p, m.files)

\* Without a default state the mail is refused.
HandlePatch(m) ==
  /\ m \notin DOMAIN patches
  /\ \E p \in ResolveProject(m) : \E s \in FindState(m, p) :
       patches' = Set(patches, m,
         [project |-> p, state |-> s, delegate |-> FindDelegate(m, p)])
  /\ UNCHANGED <<config, hooks, lastHook>>

-----------------------------------------------------------------------------
ProjectsInit ==
  /\ users = People
  /\ projects = Setup
  /\ states = States
  /\ maintainers = {}
  /\ rules = {}
  /\ hooks = <<>>
  /\ lastHook = 0
  /\ patches = <<>>

Names == DOMAIN Setup \cup {row.name : row \in NewProjects}

Admin ==
  \/ \E row \in NewProjects :
       \/ ProjectCreate(row.name, [list |-> row.list, match |-> row.match])
       \/ ProjectUpdate(row.name, [list |-> row.list, match |-> row.match])
  \/ \E p \in Names : ProjectDelete(p)
  \/ \E s \in States : StateCreate(s) \/ StateDelete(s)
  \/ \E p \in Names, u \in People : MaintainerAdd(p, u) \/ MaintainerRemove(p, u)
  \/ \E u \in People : AccountDelete(u)
  \/ \E rule \in RuleRows : DelegateRuleCreate(rule) \/ DelegateRuleDelete(rule)
  \/ \E row \in HookRows : WebhookCreate(row)
  \/ \E h \in DOMAIN hooks : WebhookDelete(h)
  \/ \E h \in DOMAIN hooks, body \in HookChanges : WebhookUpdate(h, body)

Api ==
  \E u \in People, p \in Names :
    \/ \E row \in HookRows : CreateWebhook(u, p, row)
    \/ \E h \in DOMAIN hooks, body \in HookChanges : UpdateWebhook(u, p, h, body)
    \/ \E h \in DOMAIN hooks : DeleteWebhook(u, p, h)

ProjectsNext == Admin \/ Api \/ \E m \in Mails : HandlePatch(m)

ProjectsSpec == ProjectsInit /\ [][ProjectsNext]_projectVars

-----------------------------------------------------------------------------
(* Properties                                                              *)

\* Nothing refers to what was deleted, in whatever order users, projects and
\* states go while mails arrive.
ReferencesHold ==
  /\ maintainers \subseteq users \X DOMAIN projects
  /\ \A r \in rules : r.project \in DOMAIN projects /\ r.user \in users
  /\ \A h \in DOMAIN hooks :
       h \in 1..lastHook /\ hooks[h].project \in DOMAIN projects
         /\ hooks[h].creator \in users
  /\ \A m \in DOMAIN patches :
       /\ patches[m].project \in DOMAIN projects
       /\ patches[m].state \in states
       /\ patches[m].delegate \in users \cup {None}

Arrived == {m \in DOMAIN patches' \ DOMAIN patches : m \in Mails}

\* A patch never lands in the catch-all project of a list while a pattern of
\* the list takes its subject, in whatever order the rows come, and never in
\* a project whose pattern does not.
WellRouted ==
  \A m \in Arrived :
    LET p == patches'[m].project
    IN /\ projects[p].list = m.list
       /\ \/ projects[p].match \in m.subject
          \/ /\ CatchAll(p)
             /\ \A q \in OnList(m) : projects[q].match \notin m.subject

PatchesWellRouted == [][WellRouted]_projectVars

\* A delegate who was not asked for answers for every file of the patch: no
\* file is without a rule for the delegate, or has a rule of a higher priority
\* for another user.
ByTheRules ==
  \A m \in Arrived :
    LET row == patches'[m]
        Rules(f) == {r \in rules : r.project = row.project
                                   /\ f \in Matching[r.path]}
    IN m.delegate = None /\ row.delegate # None =>
         \A f \in m.files :
           \E r \in Rules(f) : /\ r.user = row.delegate
                               /\ \A q \in Rules(f) :
                                    q.priority > r.priority => q.user = r.user

DelegatesByTheRules == [][ByTheRules]_projectVars

=============================================================================
