------------------------------- MODULE MCAdmin -------------------------------
(***************************************************************************)
(* The accounts of an instance, and what they may configure.  An initial   *)
(* state takes one of five parts: of Accounts, links whose steps two       *)
(* workers interleave, and sessions with passwords; of Projects, mails     *)
(* while projects, states, maintainers and users come and go, rules and    *)
(* their order with the mails, and the webhooks of two projects.  The      *)
(* parts of Projects start where deletions lead from ProjectsInit.         *)
(***************************************************************************)
EXTENDS Accounts, Projects, Integers, TLC

CONSTANTS u1, lower, upper, c1, c2, s1, s2, w1,
          mia, bob, ada, net, mm, rfc, new, fixed, l

VARIABLE part

-----------------------------------------------------------------------------
MCLower == [a \in {lower, upper} |-> lower]

\* Sessions and passwords; Accounts itself, as the cfg has it, is the links.
Logins == INSTANCE Accounts WITH
  Users <- {u1}, Addresses <- {lower}, Lower <- MCLower,
  Confirmations <- {c1, c2}, Sessions <- {s1, s2}, Workers <- {w1}, MaxEpoch <- 2

-----------------------------------------------------------------------------
MCSetup == (net :> [list |-> l, match |-> None]) @@ (mm :> [list |-> l, match |-> "mm"])

Row(name, match) == [name |-> name, list |-> l, match |-> match]

MCNewProjects == {Row(mm, "mm"), Row(rfc, "rfc"), Row(net, "mm")}

MCOrdering == [s \in {new, fixed} |-> IF s = new THEN 0 ELSE 1]

\* Three overlapping rules: the files a path matches.
MCMatching == [p \in 1..3 |-> CASE p = 1 -> {"a"} [] p = 2 -> {"a", "b"}
                                [] p = 3 -> {"b"}]

MCPathOrder == [p \in 1..3 |-> p]

MCRuleRows ==
  [project : {net}, path : 1..3, user : {mia, bob}, priority : 0..1]

RoutingRule == [project |-> net, path |-> 1, user |-> bob, priority |-> 0]

Hook(project, url) == [project |-> project, url |-> url, creator |-> mia,
                       active |-> TRUE]

MCHookRows == {Hook(net, "x"), Hook(mm, "y")}

MCHookChanges == {[url |-> "x", active |-> None], [url |-> None, active |-> FALSE]}

Mail(n, subject, from, state, delegate, files) ==
  [id |-> n, list |-> l, subject |-> subject, from |-> from, state |-> state,
   delegate |-> delegate, files |-> files]

\* Mails with control headers, for projects with and without a pattern.
RoutingMails == {Mail(1, {"mm", "rfc"}, mia, fixed, None, {"a"}),
                 Mail(2, {"mm"}, mia, None, bob, {"b"})}

RuleMails == {Mail(1, {}, ada, None, None, {"a"}),
              Mail(2, {}, ada, None, None, {"a", "b"})}

MCMails == RoutingMails \cup RuleMails

MCUserOf == [x \in {mia, bob, ada, None} |-> x]

-----------------------------------------------------------------------------
NoAccounts == Init

\* An instance with these users, projects and states, and nothing else yet.
Instance(people, names, kinds) ==
  /\ users = people /\ projects = Drop(MCSetup, DOMAIN MCSetup \ names)
  /\ states = kinds /\ maintainers = {} /\ rules = {}
  /\ hooks = <<>> /\ lastHook = 0 /\ patches = <<>>

MCInit ==
  \/ part = "links" /\ Init /\ Instance({}, {}, {})
  \/ part = "logins" /\ Logins!Init /\ Instance({}, {}, {})
  \/ part = "routing" /\ NoAccounts /\ Instance({mia, bob}, {net}, {new, fixed})
  \/ part = "rules" /\ NoAccounts /\ Instance({mia, bob}, {net}, {new})
  \/ part = "webhooks" /\ NoAccounts /\ Instance({mia, bob, ada}, {net, mm}, {new})

\* The rows that a part has of each table; only routing creates and changes
\* projects, or has more than the default state.
Within ==
  /\ rules' \subseteq CASE part = "routing"  -> {RoutingRule}
                        [] part = "rules"    -> MCRuleRows
                        [] part = "webhooks" -> {}
  /\ part # "webhooks" => hooks' = <<>>
  /\ DOMAIN patches' \subseteq CASE part = "routing"  -> RoutingMails
                               [] part = "rules"    -> RuleMails
                               [] part = "webhooks" -> {}
  /\ part # "routing" =>
       /\ states' \subseteq {new}
       /\ \A p \in DOMAIN projects' :
            p \in DOMAIN projects /\ projects'[p] = projects[p]

MCNext ==
  /\ UNCHANGED part
  /\ \/ part = "links" /\ Next /\ UNCHANGED projectVars
     \/ part = "logins" /\ Logins!Next /\ UNCHANGED projectVars
     \/ /\ part \in {"routing", "rules", "webhooks"}
        /\ ProjectsNext /\ Within /\ UNCHANGED vars

MCVars == <<part, vars, projectVars>>

MCSpec == MCInit /\ [][MCNext]_MCVars

\* Keys of links and of sessions are random.
MCSymmetry == Permutations({c1, c2}) \cup Permutations({s1, s2})
=============================================================================
