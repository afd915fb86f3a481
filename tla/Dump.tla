--------------------------------- MODULE Dump ---------------------------------
(***************************************************************************)
(* pw db export from a Django database (pkg/db/export.go) and the loading  *)
(* of what it wrote, by pw db import (cmd/pw/db/import_.go) or by the      *)
(* database's own client.                                                  *)
(*                                                                         *)
(* The export reads one table after the other, outside a transaction, and  *)
(* may run beside the old instance (docs/deployment/migration.rst moves    *)
(* the mail to the new one in step 8, after the import).  A row has its    *)
(* table, an id, the rows it refers to, what the unique keys of the new    *)
(* schema see of it (for a check its patch, context and user), a date, and *)
(* whether its text has a line that ends in a semicolon.  The columns that *)
(* the schemas differ in, and the limits on sizes, are left out.           *)
(*                                                                         *)
(* External: psql and mysql give up at the first error, sqlite3 carries on *)
(* with the next statement; foreign keys are off for mysql, by the dump    *)
(* itself, and for the sqlite3 client, by default.  pw db import opens     *)
(* SQLite with foreign keys on, and the PRAGMA of the dump, which comes    *)
(* after BEGIN, has no effect in a transaction.                            *)
(***************************************************************************)
EXTENDS Schema, FiniteSets

CONSTANTS
  Rows,            \* what the old instance holds at first
  News,            \* what it may add, each in one transaction: sets of rows
  Modes,           \* <<dialect, client>> that may be used
  BatchSize        \* rows of an INSERT

VARIABLES
  source,          \* the rows of the Django database
  mode,            \* the dialect of the dump and who will load it
  next,            \* the next table of DumpOrder to export
  dump,            \* the statements written
  moved,           \* whether the old instance wrote during the export
  place,           \* the next statement to execute; 0 before the import
  staged,          \* the rows seen by the transaction of the import
  target,          \* the rows of the new database
  outcome          \* "loading", "loaded", "failed" or "partial"

dumpVars == <<source, mode, next, dump, moved, place, staged, target, outcome>>

Dialect == mode[1]
ByPw == mode[2] = "pw"

Of(table) == {r \in source : r.table = table}

-----------------------------------------------------------------------------
(* The old instance                                                        *)

Write(new) ==
  /\ next <= Len(DumpOrder)
  /\ new \cap source = {}
  /\ source' = source \cup new
  /\ moved' = (moved \/ next > 1)
  /\ UNCHANGED <<mode, next, dump, place, staged, target, outcome>>

-----------------------------------------------------------------------------
(* The export                                                              *)

\* INNER JOIN on the greatest date of the key: rows of one date all stay.
LatestChecks ==
  {c \in Of("ci_check") :
     \A d \in Of("ci_check") : d.keys = c.keys => d.date <= c.date}

\* The rows that the query of a table returns.
Selected(table) ==
  CASE table = "ci_check" -> LatestChecks
    [] table = "event" ->
         {e \in Of("event") :
            \A r \in e.refs : r[1] = "ci_check" => \E c \in LatestChecks : c.id = r[2]}
    [] OTHER -> Of(table)

Statement(kind, rows) == [kind |-> kind, rows |-> rows]

\* No ORDER BY: any order of the rows.
Orders(rows) ==
  {f \in [1..Cardinality(rows) -> rows] :
     \A i, j \in DOMAIN f : f[i] = f[j] => i = j}

\* Mutant: the last batch is only written when it is full.
MutantBatches(f) ==
  [b \in 1..(Len(f) \div BatchSize) |->
     Statement("insert", {f[i] : i \in {j \in DOMAIN f : (j - 1) \div BatchSize = b - 1}})]

Batches(f) ==
  [b \in 1..((Len(f) + BatchSize - 1) \div BatchSize) |->
     Statement("insert", {f[i] : i \in {j \in DOMAIN f : (j - 1) \div BatchSize = b - 1}})]

\* COPY takes all rows in one statement, if only none; INSERT takes a batch.
Statements(rows) ==
  IF Dialect = "postgres" THEN {<<Statement("copy", rows)>>}
  ELSE {Batches(f) : f \in Orders(rows)}

ExportTable ==
  /\ next \in 1..Len(DumpOrder)
  /\ \E stmts \in Statements(Selected(DumpOrder[next])) : dump' = dump \o stmts
  /\ next' = next + 1
  /\ UNCHANGED <<source, mode, moved, place, staged, target, outcome>>

\* The head deletes the rows of all tables that are copied.
Preamble == <<Statement("delete", {})>>

-----------------------------------------------------------------------------
(* The import                                                              *)

\* What the client does not hand to the database as it stands.  pw db import
\* ends a statement after any line that ends in a semicolon, lines within a text
\* included, and executes a COPY without the lines behind it that are its input.
Cut(stmt) == ByPw /\ (stmt.kind = "copy" \/ \E r \in stmt.rows : r.semi)

ForeignKeysOn == Dialect = "postgres" \/ mode = <<"sqlite", "pw">>

Ids(rows) == {<<r.table, r.id>> : r \in rows}

\* A unique key forbids the two rows.
Clash(r, s) == r # s /\ r.table = s.table /\ r.keys \cap s.keys # {}

\* What the database makes of the rows: it looks at the unique keys, and at the
\* foreign keys when the statement ends.
Accepts(rows) ==
  LET after == staged \cup rows
  IN /\ \A r \in rows, s \in after : ~Clash(r, s)
     /\ ForeignKeysOn => \A r \in rows : r.refs \subseteq Ids(after)

Begin ==
  /\ next = Len(DumpOrder) + 1
  /\ place = 0
  /\ place' = 1
  /\ staged' = target
  /\ UNCHANGED <<source, mode, next, dump, moved, target, outcome>>

Execute ==
  LET stmt == dump[place]
  IN /\ outcome = "loading"
     /\ place \in DOMAIN dump
     /\ IF stmt.kind = "delete" THEN staged' = {} /\ UNCHANGED outcome
        ELSE IF ~Cut(stmt) /\ Accepts(stmt.rows)
        THEN staged' = staged \cup stmt.rows /\ UNCHANGED outcome
        ELSE /\ UNCHANGED staged
             /\ outcome' = IF mode = <<"sqlite", "native">> THEN outcome ELSE "failed"
     /\ place' = place + 1
     /\ UNCHANGED <<source, mode, next, dump, moved, target>>

Commit ==
  /\ outcome = "loading"
  /\ place = Len(dump) + 1
  /\ target' = staged
  /\ outcome' = "loaded"
  /\ UNCHANGED <<source, mode, next, dump, moved, place, staged>>

-----------------------------------------------------------------------------
DumpInit ==
  /\ source = Rows
  /\ mode \in Modes
  /\ next = 1
  /\ dump = Preamble
  /\ moved = FALSE
  /\ place = 0
  /\ staged = {}
  /\ target = {}
  /\ outcome = "loading"

DumpNext ==
  \/ \E new \in News : Write(new)
  \/ ExportTable \/ Begin \/ Execute \/ Commit

DumpSpec == DumpInit /\ [][DumpNext]_dumpVars

-----------------------------------------------------------------------------
(* The old instance as the proofs assume it: its rows are of tables that   *)
(* are copied, and the foreign keys of models.go hold among them, before   *)
(* and after each of its transactions.                                     *)

AllRows == Rows \cup UNION News

Keyed(rows) == \A r \in rows : r.refs \subseteq Ids(rows)

OldInstance ==
  /\ BatchSize \in Nat \ {0}
  /\ IsFiniteSet(Rows) /\ \A new \in News : IsFiniteSet(new)
  /\ \A r \in AllRows :
       /\ \E i \in 1..Len(DumpOrder) : r.table = DumpOrder[i]
       /\ \A ref \in r.refs : ref[1] \in TablesOf(r.table)
  /\ Keyed(Rows) /\ \A new \in News : Keyed(Rows \cup new)

-----------------------------------------------------------------------------
(* Properties                                                              *)

\* Rows that the queries select and a unique key of the new schema forbids: two
\* checks of one patch, context and user with one date, both the latest, or two
\* users of one name, which the old schema allows.
Forbidden ==
  \E i \in 1..Len(DumpOrder) : \E r, s \in Selected(DumpOrder[i]) : Clash(r, s)

\* The export saw one state of the old database, without such rows.
Clean == ~moved /\ ~Forbidden

\* After a clean export the new database has every row but the checks that a
\* later one replaces and their events, and refers to nothing it lacks, even
\* where the client checks no foreign key.  Where it checks them, nothing is
\* lacking even if the old instance wrote during the export.
LoadsEverything ==
  outcome = "loaded" =>
    /\ ForeignKeysOn => Keyed(target)
    /\ Clean => target = {r \in source :
                           /\ r.table = "ci_check" => r \in LatestChecks
                           /\ r.refs \subseteq Ids(LatestChecks)
                                \cup Ids(source \ Of("ci_check"))}

\* If the old instance did not write during the export, an import fails for rows
\* that a unique key forbids, or in pw db import: for any dump that PostgreSQL is
\* to load, for a text with a line that ends in a semicolon, and in SQLite, whose
\* foreign keys it leaves on, for a series before the one it refers to in another
\* batch.  The order of the tables serves every other foreign key, and otherwise
\* the database's own client loads everything.
FailsForKnownReasons ==
  outcome = "failed" /\ ~moved =>
    \/ Forbidden
    \/ ByPw /\ \/ Dialect = "postgres"
               \/ \E r \in source : r.semi
               \/ Dialect = "sqlite" /\ Cardinality(Of("series")) > BatchSize

-----------------------------------------------------------------------------
(* What the documentation says, and the code does not do                   *)

\* "Used to load data previously exported with pw db export into a fresh 4.0
\* database": of a clean export, no statement fails that the database accepts.
ImportsItsExports ==
  outcome = "failed" /\ Clean => ~Accepts(dump[place - 1].rows)
=============================================================================
