-------------------------------- MODULE Schema --------------------------------
(***************************************************************************)
(* The tables of pkg/db/models.go: which tables the foreign keys of each   *)
(* lead to, and the orders in which the code creates and copies them.      *)
(***************************************************************************)
EXTENDS Naturals, Sequences

Refer(tables, to) == tables \X to

accountRefs ==
  Refer({"auth_token", "person", "auth_session", "email_confirmation"}, {"auth_user"})

projectRefs ==
  Refer({"project_maintainer", "delegation_rule"}, {"auth_user", "project"})

seriesRefs ==
  Refer({"series"}, {"project", "cover", "series", "person"})
  \cup Refer({"series_metadata", "series_dependencies"}, {"series"})
  \cup Refer({"series_reference"}, {"project", "series"})

patchRefs ==
  Refer({"patch"}, {"person", "project", "auth_user", "state", "series",
                    "patch_relation"})
  \cup Refer({"patch_tag"}, {"patch", "tag"})
  \cup Refer({"patch_comment"}, {"person", "patch"})

coverRefs ==
  Refer({"cover"}, {"person", "project"}) \cup Refer({"cover_comment"}, {"person", "cover"})

workRefs ==
  Refer({"bundle", "webhook"}, {"auth_user", "project"})
  \cup Refer({"bundle_patch"}, {"bundle", "patch"})
  \cup Refer({"ci_check"}, {"patch", "auth_user"})
  \cup Refer({"event"}, {"project", "auth_user", "patch", "series", "cover", "state",
                         "patch_relation", "ci_check", "cover_comment", "patch_comment"})

\* Pairs of a table and one that its foreign keys lead to.
References ==
  accountRefs \cup projectRefs \cup seriesRefs \cup patchRefs \cup coverRefs \cup workRefs

\* CreateSchema.
CreationOrder ==
  <<"auth_user", "auth_token", "auth_session", "state", "tag", "project",
    "project_maintainer", "delegation_rule", "person", "patch_relation", "cover",
    "series", "series_reference", "series_metadata", "series_dependencies", "patch",
    "patch_tag", "patch_comment", "cover_comment", "ci_check", "bundle",
    "bundle_patch", "event", "email_confirmation", "webhook">>

\* Mutant: checks before the patches they are about.
MutantDumpOrder ==
  <<"auth_user", "auth_token", "state", "tag", "project", "project_maintainer",
    "delegation_rule", "person", "patch_relation", "cover", "series",
    "series_reference", "series_metadata", "series_dependencies", "ci_check",
    "patch", "patch_tag", "patch_comment", "cover_comment", "bundle",
    "bundle_patch", "event", "email_confirmation", "webhook">>

\* exportTables; sessions are not copied.
DumpOrder ==
  <<"auth_user", "auth_token", "state", "tag", "project", "project_maintainer",
    "delegation_rule", "person", "patch_relation", "cover", "series",
    "series_reference", "series_metadata", "series_dependencies", "patch",
    "patch_tag", "patch_comment", "cover_comment", "ci_check", "bundle",
    "bundle_patch", "event", "email_confirmation", "webhook">>

TablesOf(table) == {ref[2] : ref \in {r \in References : r[1] = table}}

\* Every foreign key of a table leads to the table itself or to an earlier one.
Ordered(order) ==
  \A i \in 1..Len(order) : TablesOf(order[i]) \subseteq {order[j] : j \in 1..i}
=============================================================================
