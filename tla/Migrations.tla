------------------------------ MODULE Migrations ------------------------------
(***************************************************************************)
(* The schema of the database and its versions (pkg/db/migrations): the    *)
(* HTTP and the ingress daemon bring it up to date or check it when they   *)
(* start, as pw db sync does, and systemd starts a daemon that failed      *)
(* again (etc/pw-http.service).                                            *)
(*                                                                         *)
(* The state of the schema is the set of those indexes that differ between *)
(* versions and whether usernames are unique, by an index or by the column *)
(* itself.  A migration and its record are one transaction, that is one    *)
(* action; a database that commits each CREATE INDEX alone is not modelled.*)
(* A schema_migrations table without rows counts as absent in the code.    *)
(***************************************************************************)
EXTENDS Schema

CONSTANTS
  Daemons,         \* pw http and pw ingress
  AutoSync,        \* those that migrate by themselves
  Sync,            \* pw db sync
  MaxCrashes       \* bound: crashes

VARIABLES
  applied,         \* table schema_migrations
  indexes,         \* the indexes of the database
  uniqueNames,     \* whether usernames are unique
  duplicates,      \* whether two accounts have one username
  pc,              \* what each process does
  at,              \* the version it has read or reached
  crashes

vars == <<applied, indexes, uniqueNames, duplicates, pc, at, crashes>>

Procs == Daemons \cup {Sync}

Nums == 1..4

Latest(nums) == IF nums = {} THEN 0 ELSE CHOOSE n \in nums : \A m \in nums : m <= n

-----------------------------------------------------------------------------
(* The versions                                                            *)

\* The indexes of 0001 that later versions drop.
Indexes0001 ==
  {"idx_patch_date", "idx_ci_check_context", "idx_event_category",
   "idx_series_metadata_key", "idx_cover_date_project_id_submitter_id_name"}

Up0002(had) == (had \cup {"idx_patch_project_id_archived_date_desc"}) \ Indexes0001

\* Mutant: the index that the new one replaces stays.
MutantUp0003(had) ==
  had \cup {"idx_patch_project_id_archived_state_id_date_desc",
            "idx_ci_check_patch_id_state"}

Up0003(had) ==
  (had \ {"idx_patch_project_id_archived_date_desc"})
    \cup {"idx_patch_project_id_archived_state_id_date_desc",
          "idx_ci_check_patch_id_state"}

Up(n, had) ==
  CASE n = 2 -> Up0002(had)
    [] n = 3 -> Up0003(had)
    [] n = 4 -> had

\* The indexes, of these, that the models ask for; the column username of
\* auth_user is unique there.
ModelIndexes ==
  {"idx_patch_project_id_archived_state_id_date_desc", "idx_ci_check_patch_id_state"}

\* A database that a release left at version n.
Left[n \in 0..4] ==
  IF n = 0 THEN {} ELSE IF n = 1 THEN Indexes0001 ELSE Up(n, Left[n - 1])

-----------------------------------------------------------------------------
Become(p, state) == pc' = [pc EXCEPT ![p] = state]

schema == <<applied, indexes, uniqueNames>>

Ready(p) == IF p = Sync THEN "done" ELSE "serving"

\* RunMigrations up to its loop.
Start(p) ==
  /\ pc[p] = "down"
  /\ p \in AutoSync \cup {Sync}
  /\ Become(p, IF applied = {} THEN "bootstrap" ELSE "migrating")
  /\ at' = [at EXCEPT ![p] = Latest(applied)]
  /\ UNCHANGED <<schema, duplicates, crashes>>

\* Without auto-sync a daemon only compares versions.
CheckSchemaVersion(p) ==
  /\ pc[p] = "down"
  /\ p \in Daemons \ AutoSync
  /\ Become(p, IF Latest(applied) = Latest(Nums) THEN "serving" ELSE "failed")
  /\ UNCHANGED <<schema, duplicates, at, crashes>>

\* Tables that exist cannot be created, nor those that refer to later ones.
Creatable == applied = {} /\ indexes = {} /\ Ordered(CreationOrder)

Created(p) ==
  /\ Creatable
  /\ applied' = Nums
  /\ indexes' = ModelIndexes
  /\ uniqueNames' = TRUE
  /\ Become(p, Ready(p))

Refused(p) == Become(p, "failed") /\ UNCHANGED schema

\* Mutant: the schema is committed before the versions are recorded.
MutantBootstrap(p) ==
  /\ pc[p] = "bootstrap"
  /\ \/ Created(p)
     \/ /\ Creatable
        /\ indexes' = ModelIndexes
        /\ uniqueNames' = TRUE
        /\ Become(p, "failed")
        /\ UNCHANGED applied
     \/ ~Creatable /\ Refused(p)
  /\ UNCHANGED <<duplicates, at, crashes>>

\* All in one transaction.
Bootstrap(p) ==
  /\ pc[p] = "bootstrap"
  /\ Created(p) \/ (~Creatable /\ Refused(p))
  /\ UNCHANGED <<duplicates, at, crashes>>

\* One migration and its record; the primary key refuses a second record, and
\* 0004 refuses usernames that are not unique.
Migrate(p) ==
  LET n == at[p] + 1
      refused == n \in applied \/ (n = 4 /\ duplicates)
  IN /\ pc[p] = "migrating"
     /\ n \in Nums
     /\ ~refused
     /\ applied' = applied \cup {n}
     /\ indexes' = Up(n, indexes)
     /\ uniqueNames' = (uniqueNames \/ n = 4)
     /\ at' = [at EXCEPT ![p] = n]
     /\ UNCHANGED <<duplicates, pc, crashes>>

MigrateFails(p) ==
  LET n == at[p] + 1
  IN /\ pc[p] = "migrating"
     /\ n \in applied \/ (n = 4 /\ duplicates)
     /\ Refused(p)
     /\ UNCHANGED <<duplicates, at, crashes>>

Migrated(p) ==
  /\ pc[p] = "migrating"
  /\ at[p] = Latest(Nums)
  /\ Become(p, Ready(p))
  /\ UNCHANGED <<schema, duplicates, at, crashes>>

\* systemd, or the administrator with pw db sync.
Restart(p) ==
  /\ pc[p] = "failed"
  /\ Become(p, "down")
  /\ UNCHANGED <<schema, duplicates, at, crashes>>

\* An open transaction is lost, nothing else.
Crash(p) ==
  /\ pc[p] \notin {"down", "failed", "done"}
  /\ crashes < MaxCrashes
  /\ crashes' = crashes + 1
  /\ Become(p, "failed")
  /\ UNCHANGED <<schema, duplicates, at>>

\* The administrator deletes one of the accounts.
Resolve ==
  /\ duplicates
  /\ duplicates' = FALSE
  /\ UNCHANGED <<schema, pc, at, crashes>>

-----------------------------------------------------------------------------
Init ==
  /\ \E n \in 0..4 :
       /\ applied = 1..n
       /\ indexes = Left[n]
       /\ uniqueNames = (n = 4)
       /\ duplicates \in IF n \in 1..3 THEN BOOLEAN ELSE {FALSE}
  /\ pc = [p \in Procs |-> "down"]
  /\ at = [p \in Procs |-> 0]
  /\ crashes = 0

Step(p) ==
  \/ Start(p) \/ CheckSchemaVersion(p) \/ Bootstrap(p)
  \/ Migrate(p) \/ MigrateFails(p) \/ Migrated(p)

Next ==
  \/ Resolve
  \/ \E p \in Procs : Step(p) \/ Restart(p) \/ Crash(p)

\* Daemons run, and systemd restarts them; no one has to run pw db sync.
Fairness == \A p \in Daemons : WF_vars(Step(p)) /\ WF_vars(Restart(p))

Spec == Init /\ [][Next]_vars /\ Fairness

-----------------------------------------------------------------------------
(* Properties                                                              *)

\* A process that serves does so on the schema of the models, whichever version
\* it started from and whoever else migrated at the same time: the migrations
\* and the models describe one schema.
ServesModelSchema ==
  \A p \in Procs : pc[p] \in {"serving", "done"} =>
    applied = Nums /\ indexes = ModelIndexes /\ uniqueNames

\* A daemon with auto-sync comes up in the end once usernames are unique,
\* whatever fails on the way: what one process leaves behind when it fails or
\* loses a race never stops the next attempt.
DaemonsComeUp == \A p \in AutoSync : ~duplicates ~> pc[p] = "serving"
=============================================================================
