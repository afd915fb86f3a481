------------------------------ MODULE MCStorage ------------------------------
(***************************************************************************)
(* The schema and the data of an instance, of which an initial state takes *)
(* one: two daemons that migrate, one that does not and pw db sync on      *)
(* databases of every version; and the export and import of a small        *)
(* database of the old instance, which is still receiving.                 *)
(***************************************************************************)
EXTENDS Migrations, Dump

CONSTANTS http, ingress, other, Null

VARIABLE part

Row(table, id, refs, keys, date, semi) ==
  [table |-> table, id |-> id, refs |-> refs, keys |-> keys, date |-> date,
   semi |-> semi]

User(id)            == Row("auth_user", id, {}, {"name"}, 0, FALSE)
Series(id, refs)    == Row("series", id, refs, {}, 0, FALSE)
Patch(id, semi)     == Row("patch", id, {<<"series", 1>>}, {}, 0, semi)
Check(id, date)     == Row("ci_check", id, {<<"patch", 1>>}, {"k"}, date, FALSE)
Event(id, refs)     == Row("event", id, refs, {}, 0, FALSE)

OldRows == {User(1), Series(1, {}), Series(2, {<<"series", 1>>}),
            Series(3, {<<"series", 2>>}), Patch(1, FALSE)}

MCNews ==
  {{User(2)},
   {Patch(2, TRUE), Event(1, {<<"patch", 2>>})},
   {Check(1, 1), Event(2, {<<"patch", 1>>, <<"ci_check", 1>>})},
   {Check(2, 2), Event(3, {<<"patch", 1>>, <<"ci_check", 2>>})},
   {Check(3, 2), Event(4, {<<"patch", 1>>, <<"ci_check", 3>>})}}

MCModes == {"postgres", "mysql", "sqlite"} \X {"native", "pw"}

\* The database in which pw db import has only the cut to fail for.
Cutting == {<<"mysql", "pw">>}

ASSUME OldInstanceAssumption == OldInstance

\* A schema that nobody migrates.
NoSchema == Init /\ applied = 1..1 /\ duplicates
NoDump == /\ source = Null /\ mode = Null /\ next = Null /\ dump = Null
          /\ moved = Null /\ place = Null /\ staged = Null /\ target = Null
          /\ outcome = Null

MCInit ==
  \/ part = "schema" /\ Init /\ NoDump
  \/ part = "data" /\ DumpInit /\ NoSchema

MCNext ==
  /\ UNCHANGED part
  /\ \/ part = "schema" /\ Next /\ UNCHANGED dumpVars
     \/ part = "data" /\ DumpNext /\ UNCHANGED vars

MCVars == <<part, vars, dumpVars>>

\* The fairness of Migrations.
MCFairness ==
  \A p \in Daemons :
    /\ WF_MCVars(part = "schema" /\ Step(p) /\ UNCHANGED <<part, dumpVars>>)
    /\ WF_MCVars(part = "schema" /\ Restart(p) /\ UNCHANGED <<part, dumpVars>>)

MCSpec == MCInit /\ [][MCNext]_MCVars /\ MCFairness
=============================================================================
