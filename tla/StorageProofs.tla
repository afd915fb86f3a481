----------------------------- MODULE StorageProofs -----------------------------
(***************************************************************************)
(* Proofs about migrations, for any number of daemons that come up, crash  *)
(* and are restarted in any order: the database is always at one version,  *)
(* and who serves does so on the schema of the models.                     *)
(*                                                                         *)
(* And about the export of any old instance and its import: what a clean   *)
(* export leaves out, and why its import may fail.                         *)
(***************************************************************************)
EXTENDS Migrations, Dump, SequenceTheorems, FiniteSetTheorems, TLAPS

(***************************************************************************)
(* Migrations.                                                             *)
(***************************************************************************)

Versions == 0..4

Phases == {"down", "bootstrap", "migrating", "failed", "serving", "done"}

\* The schema that version n leaves.
AtVersion(n) ==
  /\ applied = 1..n
  /\ indexes = Left[n]
  /\ uniqueNames = (n = 4)

AtOneVersion == \E n \in Versions : AtVersion(n)

\* A process that migrates has read, or applied itself, the version it builds on.
SchemaInvariant ==
  /\ pc \in [Procs -> Phases]
  /\ at \in [Procs -> Versions]
  /\ AtOneVersion
  /\ \A p \in Procs : pc[p] = "migrating" => at[p] \in applied
  /\ \A p \in Procs : pc[p] \in {"serving", "done"} => applied = Nums

(***************************************************************************)
(* Versions.                                                               *)
(***************************************************************************)

LEMMA LeftEquation ==
  Left = [n \in 0..4 |-> IF n = 0 THEN {} ELSE IF n = 1 THEN Indexes0001
                         ELSE Up(n, Left[n - 1])]
<1> DEFINE two   == Up(2, Indexes0001)
           three == Up(3, two)
           four  == Up(4, three)
           g == [n \in 0..4 |-> IF n = 0 THEN {} ELSE IF n = 1 THEN Indexes0001
                   ELSE IF n = 2 THEN two ELSE IF n = 3 THEN three ELSE four]
           F(f) == [n \in 0..4 |-> IF n = 0 THEN {} ELSE IF n = 1 THEN Indexes0001
                                   ELSE Up(n, f[n - 1])]
<1>1. g = F(g)
  <2>1. \A n \in 0..4 : n = 0 \/ n = 1 \/ n = 2 \/ n = 3 \/ n = 4
    OBVIOUS
  <2>2. g[1] = Indexes0001 /\ g[2] = two /\ g[3] = three
    OBVIOUS
  <2>3. Up(2, g[2 - 1]) = two /\ Up(3, g[3 - 1]) = three /\ Up(4, g[4 - 1]) = four
    BY <2>2
  <2> HIDE DEF two, three, four
  <2>4. ASSUME NEW n \in 0..4 PROVE g[n] = F(g)[n]
    BY <2>1, <2>3
  <2> QED BY <2>4
<1> HIDE DEF g
<1>2. \E f : f = F(f)
  BY <1>1
<1>3. Left = CHOOSE f : f = F(f)
  BY DEF Left
<1> QED BY <1>2, <1>3

LEMMA LeftFacts ==
  /\ Left[0] = {}
  /\ Left[4] = ModelIndexes
  /\ \A n \in 1..3 : Left[n + 1] = Up(n + 1, Left[n])
<1>1. Left[0] = {} /\ Left[1] = Indexes0001
  BY LeftEquation
<1>2. \A n \in 1..3 : Left[n + 1] = Up(n + 1, Left[n])
  <2> SUFFICES ASSUME NEW n \in 1..3 PROVE Left[n + 1] = Up(n + 1, Left[n])
    OBVIOUS
  <2>1. n + 1 \in 0..4 /\ n + 1 # 0 /\ n + 1 # 1 /\ (n + 1) - 1 = n
    OBVIOUS
  <2>2. Left[n + 1] = Up(n + 1, Left[(n + 1) - 1])
    BY <2>1, LeftEquation
  <2> QED BY <2>1, <2>2
<1>3. Left[2] = Up(2, Left[1]) /\ Left[3] = Up(3, Left[2]) /\ Left[4] = Up(4, Left[3])
  BY <1>2
<1>4. Left[2] = Up0002(Indexes0001) /\ Left[3] = Up0003(Left[2]) /\ Left[4] = Left[3]
  BY <1>1, <1>3 DEF Up
<1>5. Left[4] = ModelIndexes
  BY <1>4 DEF Up0002, Up0003, Indexes0001, ModelIndexes
<1> QED BY <1>1, <1>2, <1>5

LEMMA LatestOfVersion ==
  ASSUME NEW n \in Versions
  PROVE  Latest(1..n) = n
<1>1. CASE n = 0
  BY <1>1 DEF Latest
<1>2. CASE n # 0
  <2>1. 1..n # {} /\ n \in 1..n /\ \A m \in 1..n : m <= n
    BY <1>2 DEF Versions
  <2>2. Latest(1..n) = CHOOSE k \in 1..n : \A m \in 1..n : m <= k
    BY <2>1 DEF Latest
  <2>3. Latest(1..n) \in 1..n /\ \A m \in 1..n : m <= Latest(1..n)
    BY <2>1, <2>2
  <2>4. n <= Latest(1..n) /\ Latest(1..n) <= n
    BY <2>1, <2>3
  <2> QED BY <2>3, <2>4 DEF Versions
<1> QED BY <1>1, <1>2

LEMMA LatestOfAll == Latest(Nums) = 4
BY LatestOfVersion DEF Nums, Versions

(***************************************************************************)
(* The steps.                                                              *)
(***************************************************************************)

\* What a step leaves of the invariant when it leaves the schema alone.
LEMMA SchemaStays ==
  ASSUME SchemaInvariant, NEW p \in Procs, NEW phase \in Phases,
         UNCHANGED schema, Become(p, phase), at' \in [Procs -> Versions],
         \A q \in Procs : q # p => at'[q] = at[q],
         phase = "migrating" => at'[p] \in applied,
         phase \in {"serving", "done"} => applied = Nums
  PROVE  SchemaInvariant'
<1>1. pc' \in [Procs -> Phases] /\ pc'[p] = phase
      /\ \A q \in Procs : q # p => pc'[q] = pc[q]
  BY DEF SchemaInvariant, Become
<1>2. AtOneVersion'
  BY DEF SchemaInvariant, AtOneVersion, AtVersion, schema
<1> QED BY <1>1, <1>2 DEF SchemaInvariant, schema

LEMMA StartKeeps ==
  ASSUME SchemaInvariant, NEW p \in Procs, Start(p)
  PROVE  SchemaInvariant'
<1> DEFINE phase == IF applied = {} THEN "bootstrap" ELSE "migrating"
<1>1. PICK n \in Versions : applied = 1..n
  BY DEF SchemaInvariant, AtOneVersion, AtVersion
<1>2. at' = [at EXCEPT ![p] = n] /\ Become(p, phase) /\ UNCHANGED schema
  BY <1>1, LatestOfVersion DEF Start
<1>3. at' \in [Procs -> Versions] /\ at'[p] = n /\ \A q \in Procs : q # p => at'[q] = at[q]
  BY <1>2 DEF SchemaInvariant
<1>4. phase \in Phases /\ phase \notin {"serving", "done"}
  BY DEF Phases
<1>5. phase = "migrating" => at'[p] \in applied
  <2>1. applied # {} => n # 0
    BY <1>1
  <2> QED BY <1>1, <1>3, <2>1 DEF Versions
<1> HIDE DEF phase
<1> QED BY <1>2, <1>3, <1>4, <1>5, SchemaStays

LEMMA CheckKeeps ==
  ASSUME SchemaInvariant, NEW p \in Procs, CheckSchemaVersion(p)
  PROVE  SchemaInvariant'
<1> DEFINE phase == IF Latest(applied) = Latest(Nums) THEN "serving" ELSE "failed"
<1>1. PICK n \in Versions : applied = 1..n
  BY DEF SchemaInvariant, AtOneVersion, AtVersion
<1>2. phase = "serving" => applied = Nums
  BY <1>1, LatestOfVersion, LatestOfAll DEF Nums
<1>3. at' = at /\ Become(p, phase) /\ UNCHANGED schema
  BY DEF CheckSchemaVersion
<1>4. at' \in [Procs -> Versions]
  BY <1>3 DEF SchemaInvariant
<1>5. phase \in Phases /\ phase \notin {"migrating", "done"}
  BY DEF Phases
<1> HIDE DEF phase
<1> QED BY <1>2, <1>3, <1>4, <1>5, SchemaStays

LEMMA RefusedKeeps ==
  ASSUME SchemaInvariant, NEW p \in Procs, Refused(p), at' = at
  PROVE  SchemaInvariant'
<1>1. Become(p, "failed") /\ UNCHANGED schema /\ at' \in [Procs -> Versions]
  BY DEF Refused, SchemaInvariant
<1> QED BY <1>1, SchemaStays DEF Phases

\* What a step leaves of it when it takes the database to version n: who relied
\* on a version finds it there still.
LEMMA VersionGrows ==
  ASSUME SchemaInvariant, NEW p \in Procs, NEW n \in Versions, NEW phase \in Phases,
         pc' = [pc EXCEPT ![p] = phase],
         at' \in [Procs -> Versions], \A q \in Procs : q # p => at'[q] = at[q],
         AtVersion(n)', applied \subseteq applied',
         phase = "migrating" => at'[p] \in applied',
         phase \in {"serving", "done"} => n = 4
  PROVE  SchemaInvariant'
<1>1. pc' \in [Procs -> Phases] /\ pc'[p] = phase
      /\ \A q \in Procs : q # p => pc'[q] = pc[q]
  BY DEF SchemaInvariant
<1>2. applied' = 1..n /\ AtOneVersion'
  BY DEF AtOneVersion, AtVersion
<1>3. applied = Nums => applied' = Nums
  BY <1>2 DEF Nums, Versions
<1>4. n = 4 => applied' = Nums
  BY <1>2 DEF Nums
<1> QED BY <1>1, <1>2, <1>3, <1>4 DEF SchemaInvariant

LEMMA BootstrapKeeps ==
  ASSUME SchemaInvariant, NEW p \in Procs, Bootstrap(p)
  PROVE  SchemaInvariant'
<1>1. at' = at /\ at' \in [Procs -> Versions]
  BY DEF Bootstrap, SchemaInvariant
<1>2. CASE Refused(p)
  BY <1>1, <1>2, RefusedKeeps
<1>3. CASE Created(p)
  <2>1. applied = {} /\ applied' = 1..4 /\ indexes' = Left[4] /\ uniqueNames' = (4 = 4)
        /\ pc' = [pc EXCEPT ![p] = Ready(p)]
    BY <1>3, LeftFacts DEF Created, Creatable, Nums, Become
  <2>2. 4 \in Versions /\ Ready(p) \in Phases /\ Ready(p) # "migrating"
    BY DEF Versions, Ready, Phases
  <2>3. AtVersion(4)' /\ applied \subseteq applied'
    BY <2>1 DEF AtVersion
  <2> QED BY <1>1, <2>1, <2>2, <2>3, VersionGrows
<1> QED BY <1>2, <1>3 DEF Bootstrap

\* A migration is recorded at most once, so that the process that records the
\* next one builds on the version the database is at.
LEMMA MigrateKeeps ==
  ASSUME SchemaInvariant, NEW p \in Procs, Migrate(p)
  PROVE  SchemaInvariant'
<1>1. PICK k \in Versions : AtVersion(k)
  BY DEF SchemaInvariant, AtOneVersion
<1>2. /\ pc[p] = "migrating" /\ pc' = pc /\ at[p] \in 1..k
      /\ at[p] + 1 \in 1..4 /\ at[p] + 1 \notin 1..k
      /\ applied' = applied \cup {at[p] + 1} /\ indexes' = Up(at[p] + 1, indexes)
      /\ uniqueNames' = (uniqueNames \/ at[p] + 1 = 4)
      /\ at' = [at EXCEPT ![p] = at[p] + 1]
  BY <1>1 DEF Migrate, SchemaInvariant, AtVersion, Nums
<1>3. at[p] = k /\ k \in 1..3
  BY <1>1, <1>2 DEF Versions
<1>4. k + 1 \in Versions /\ applied' = 1..(k + 1)
  BY <1>1, <1>2, <1>3 DEF Versions, AtVersion
<1>5. indexes' = Left[k + 1]
  BY <1>1, <1>2, <1>3, LeftFacts DEF AtVersion
<1>6. uniqueNames' = (k + 1 = 4)
  BY <1>1, <1>2, <1>3 DEF AtVersion
<1>7. AtVersion(k + 1)' /\ applied \subseteq applied'
  BY <1>2, <1>4, <1>5, <1>6 DEF AtVersion
<1>8. /\ at' \in [Procs -> Versions] /\ at'[p] = k + 1 /\ at'[p] \in applied'
      /\ \A q \in Procs : q # p => at'[q] = at[q]
  BY <1>2, <1>3, <1>4 DEF SchemaInvariant, Versions
<1>9. pc' = [pc EXCEPT ![p] = "migrating"] /\ "migrating" \in Phases
  BY <1>2 DEF SchemaInvariant, Phases
<1> QED BY <1>4, <1>7, <1>8, <1>9, VersionGrows

LEMMA OtherStepsKeep ==
  ASSUME SchemaInvariant, NEW p \in Procs,
         MigrateFails(p) \/ Migrated(p) \/ Restart(p) \/ Crash(p)
  PROVE  SchemaInvariant'
<1>1. at' = at /\ at' \in [Procs -> Versions]
  BY DEF MigrateFails, Migrated, Restart, Crash, SchemaInvariant
<1>2. CASE MigrateFails(p)
  BY <1>1, <1>2, RefusedKeeps DEF MigrateFails
<1>3. CASE Migrated(p)
  <2>1. UNCHANGED schema /\ Become(p, Ready(p)) /\ at[p] = 4 /\ at[p] \in applied
    BY <1>3, LatestOfAll DEF Migrated, SchemaInvariant
  <2>2. applied = Nums
    <3>1. PICK n \in Versions : applied = 1..n
      BY DEF SchemaInvariant, AtOneVersion, AtVersion
    <3> QED BY <2>1, <3>1 DEF Versions, Nums
  <2>3. Ready(p) \in Phases /\ Ready(p) # "migrating"
    BY DEF Ready, Phases
  <2> QED BY <1>1, <2>1, <2>2, <2>3, SchemaStays
<1>4. CASE Restart(p)
  <2>1. UNCHANGED schema /\ Become(p, "down")
    BY <1>4 DEF Restart, schema
  <2> QED BY <1>1, <2>1, SchemaStays DEF Phases
<1>5. CASE Crash(p)
  <2>1. UNCHANGED schema /\ Become(p, "failed")
    BY <1>5 DEF Crash, schema
  <2> QED BY <1>1, <2>1, SchemaStays DEF Phases
<1> QED BY <1>2, <1>3, <1>4, <1>5

LEMMA SchemaInit == Init => SchemaInvariant
<1> SUFFICES ASSUME Init PROVE SchemaInvariant
  OBVIOUS
<1>1. AtOneVersion
  BY DEF Init, AtOneVersion, AtVersion, Versions
<1> QED BY <1>1 DEF Init, SchemaInvariant, Phases, Versions

LEMMA SchemaStep ==
  ASSUME SchemaInvariant, [Next]_vars
  PROVE  SchemaInvariant'
<1>1. CASE Resolve
  BY <1>1 DEF Resolve, schema, SchemaInvariant, AtOneVersion, AtVersion
<1>2. CASE UNCHANGED vars
  BY <1>2 DEF vars, SchemaInvariant, AtOneVersion, AtVersion
<1> QED BY <1>1, <1>2, StartKeeps, CheckKeeps, BootstrapKeeps, MigrateKeeps,
           OtherStepsKeep DEF Next, Step

LEMMA SchemaIsInvariant == Spec => []SchemaInvariant
<1>1. SchemaInvariant /\ [Next]_vars => SchemaInvariant'
  BY SchemaStep
<1> QED BY SchemaInit, <1>1, PTL DEF Spec

\* Whoever migrates at the same time, fails or crashes, what the database holds
\* is one of its versions: the migrations up to it and no others, and the
\* indexes and keys that they make in this order (RunMigrations, bootstrap).
THEOREM DatabaseIsAtOneVersion == Spec => []AtOneVersion
<1>1. SchemaInvariant => AtOneVersion
  BY DEF SchemaInvariant
<1> QED BY <1>1, SchemaIsInvariant, PTL

\* Every process that serves, or is done, does so on the schema of the models,
\* whichever version it found: a version is recorded once, by the process that
\* built on the one before, and none is ever taken back (RunMigrations,
\* CheckSchemaVersion).
THEOREM ServersHaveTheModelSchema == Spec => []ServesModelSchema
<1>1. SchemaInvariant => ServesModelSchema
  <2> SUFFICES ASSUME SchemaInvariant, NEW p \in Procs, pc[p] \in {"serving", "done"}
               PROVE  applied = Nums /\ indexes = ModelIndexes /\ uniqueNames
    BY DEF ServesModelSchema
  <2>1. PICK n \in Versions : AtVersion(n)
    BY DEF SchemaInvariant, AtOneVersion
  <2>2. applied = Nums /\ applied = 1..n
    BY <2>1 DEF SchemaInvariant, AtVersion
  <2>3. n = 4
    <3>1. 4 \in 1..n
      BY <2>2 DEF Nums
    <3> QED BY <3>1 DEF Versions
  <2> QED BY <2>1, <2>2, <2>3, LeftFacts DEF AtVersion
<1> QED BY <1>1, SchemaIsInvariant, PTL

(***************************************************************************)
(* Export and import.                                                      *)
(***************************************************************************)

(***************************************************************************)
(* The order of the tables.                                                *)
(***************************************************************************)

LEMMA PlacesOf ==
  /\ Len(DumpOrder) = 24
  /\ DumpOrder[1] = "auth_user" /\ DumpOrder[2] = "auth_token" /\ DumpOrder[3] = "state"
  /\ DumpOrder[4] = "tag" /\ DumpOrder[5] = "project" /\ DumpOrder[6] = "project_maintainer"
  /\ DumpOrder[7] = "delegation_rule" /\ DumpOrder[8] = "person"
  /\ DumpOrder[9] = "patch_relation" /\ DumpOrder[10] = "cover" /\ DumpOrder[11] = "series"
  /\ DumpOrder[12] = "series_reference" /\ DumpOrder[13] = "series_metadata"
  /\ DumpOrder[14] = "series_dependencies" /\ DumpOrder[15] = "patch"
  /\ DumpOrder[16] = "patch_tag" /\ DumpOrder[17] = "patch_comment"
  /\ DumpOrder[18] = "cover_comment" /\ DumpOrder[19] = "ci_check" /\ DumpOrder[20] = "bundle"
  /\ DumpOrder[21] = "bundle_patch" /\ DumpOrder[22] = "event"
  /\ DumpOrder[23] = "email_confirmation" /\ DumpOrder[24] = "webhook"
BY DEF DumpOrder

\* A table comes after those that its foreign keys lead to.
LEMMA DumpIsOrdered ==
  ASSUME NEW ref \in References, NEW i \in 1..24, ref[1] = DumpOrder[i]
  PROVE  \E j \in 1..i : ref[2] = DumpOrder[j]
<1>1. CASE ref \in accountRefs
  BY <1>1, PlacesOf DEF accountRefs, Refer
<1>2. CASE ref \in projectRefs
  BY <1>2, PlacesOf DEF projectRefs, Refer
<1>3. CASE ref \in seriesRefs
  BY <1>3, PlacesOf DEF seriesRefs, Refer
<1>4. CASE ref \in patchRefs
  BY <1>4, PlacesOf DEF patchRefs, Refer
<1>5. CASE ref \in coverRefs
  BY <1>5, PlacesOf DEF coverRefs, Refer
<1>6. CASE ref \in workRefs
  BY <1>6, PlacesOf DEF workRefs, Refer
<1> QED BY <1>1, <1>2, <1>3, <1>4, <1>5, <1>6 DEF References

\* Events refer to checks, and series to series, as no other table does.
LEMMA SpecialTables ==
  ASSUME NEW ref \in References
  PROVE  /\ ref[2] # "event"
         /\ ref[2] = "ci_check" => ref[1] = "event"
         /\ ref[1] = ref[2] => ref[1] = "series"
BY DEF References, accountRefs, projectRefs, seriesRefs, patchRefs, coverRefs, workRefs, Refer

LEMMA OldInstanceFacts ==
  ASSUME OldInstance
  PROVE  /\ BatchSize \in Nat \ {0}
         /\ IsFiniteSet(Rows) /\ \A new \in News : IsFiniteSet(new)
         /\ \A r \in AllRows :
              /\ \E i \in 1..24 : r.table = DumpOrder[i]
              /\ \A ref \in r.refs :
                   \E pair \in References : pair[1] = r.table /\ pair[2] = ref[1]
         /\ Keyed(Rows) /\ \A new \in News : Keyed(Rows \cup new)
<1>2. \A T : \A to \in TablesOf(T) : \E pair \in References : pair[1] = T /\ pair[2] = to
  BY DEF TablesOf
<1>3. \A r \in AllRows : /\ \E i \in 1..24 : r.table = DumpOrder[i]
                           /\ \A ref \in r.refs : ref[1] \in TablesOf(r.table)
  BY PlacesOf DEF OldInstance
<1> QED BY <1>2, <1>3 DEF OldInstance

Stmts == [kind: {"delete", "insert", "copy"}, rows: SUBSET AllRows]

\* The rows of the statements up to the k-th.
Dumped(k) == {r \in AllRows : \E l \in 2..k : r \in dump[l].rows}

\* The rows that the export takes from the tables before the n-th.
Chosen(n) == {r \in source : \E j \in 1..(n - 1) : r \in Selected(DumpOrder[j])}

\* No two statements have series.
Whole == Dialect = "postgres" \/ Cardinality(Of("series")) <= BatchSize

SourceInvariant ==
  /\ Rows \subseteq source /\ source \subseteq AllRows
  /\ IsFiniteSet(source) /\ Keyed(source)

DumpTypes ==
  /\ next \in 1..25
  /\ dump \in Seq(Stmts) /\ Len(dump) >= 1
  /\ dump[1].kind = "delete"
  /\ \A k \in 2..Len(dump) :
       dump[k].kind # "delete" /\ (dump[k].kind = "copy" => Dialect = "postgres")

\* What is written so far is what the queries of the tables so far select; and
\* where the series are in one statement, every foreign key of a statement leads
\* to a row that is there when it ends.
ExportInvariant ==
  ~moved =>
    /\ Dumped(Len(dump)) = Chosen(next)
    /\ Whole => \A k \in 2..Len(dump) : \A r \in dump[k].rows :
                  r.refs \subseteq Ids(Dumped(k))

\* The transaction sees the rows of the statements executed.
ImportInvariant ==
  /\ place \in 0..(Len(dump) + 1)
  /\ place = 0 => outcome = "loading"
  /\ place > 0 => next = 25
  /\ place = 0 => staged = {}
  /\ outcome # "loaded" => target = {}
  /\ outcome = "loading" /\ place > 0 /\ Clean => staged = Dumped(place - 1)
  /\ outcome = "loaded" /\ Clean => target = Dumped(Len(dump))
  /\ FailsForKnownReasons

DumpInvariant ==
  SourceInvariant /\ DumpTypes /\ ExportInvariant /\ ImportInvariant

(***************************************************************************)
(* What a query selects.                                                   *)
(***************************************************************************)

LEMMA SelectedFacts ==
  ASSUME NEW T
  PROVE  /\ Selected(T) \subseteq Of(T)
         /\ T \notin {"ci_check", "event"} => Selected(T) = Of(T)
         /\ Selected("ci_check") = LatestChecks
         /\ \A e \in Selected("event") : \A r \in e.refs :
              r[1] = "ci_check" => \E c \in LatestChecks : c.id = r[2]
         /\ \A e \in Of("event") :
              (\A r \in e.refs : r[1] = "ci_check" => \E c \in LatestChecks : c.id = r[2])
                => e \in Selected("event")
<1>1. LatestChecks \subseteq Of("ci_check")
  BY DEF LatestChecks
<1>2. CASE T = "ci_check"
  BY <1>1, <1>2 DEF Selected
<1>3. CASE T = "event"
  BY <1>3 DEF Selected
<1>4. CASE T \notin {"ci_check", "event"}
  BY <1>4 DEF Selected
<1> QED BY <1>2, <1>3, <1>4 DEF Selected

\* The row that a foreign key of an exported row leads to is exported with its
\* table, no later than the row.
LEMMA KeysAreSelected ==
  ASSUME OldInstance, SourceInvariant, NEW n \in 1..24,
         NEW r \in Selected(DumpOrder[n]), NEW ref \in r.refs
  PROVE  \E j \in 1..n : \E s \in Selected(DumpOrder[j]) :
           /\ ref = <<s.table, s.id>>
           /\ j = n => DumpOrder[n] = "series"
<1>1. r \in source /\ r.table = DumpOrder[n] /\ r \in AllRows
  BY SelectedFacts DEF Of, SourceInvariant
<1>2. PICK s \in source : ref = <<s.table, s.id>>
  BY <1>1 DEF SourceInvariant, Keyed, Ids
<1>3. PICK key \in References : key[1] = DumpOrder[n] /\ key[2] = s.table
  BY <1>1, <1>2, OldInstanceFacts
<1>4. PICK j \in 1..n : s.table = DumpOrder[j]
  BY <1>3, DumpIsOrdered
<1>5. /\ s.table # "event"
      /\ s.table = "ci_check" => DumpOrder[n] = "event"
      /\ s.table = DumpOrder[n] => DumpOrder[n] = "series"
  BY <1>3, SpecialTables
<1>6. CASE s.table = "ci_check"
  <2>1. PICK c \in LatestChecks : c.id = ref[2]
    BY <1>2, <1>5, <1>6, SelectedFacts
  <2>2. c \in Selected(DumpOrder[j]) /\ c.table = "ci_check"
    BY <1>4, <1>6, SelectedFacts DEF LatestChecks, Of
  <2>3. ref = <<c.table, c.id>>
    BY <1>2, <1>6, <2>1, <2>2
  <2>4. j # n
    BY <1>4, <1>5, <1>6
  <2> QED BY <2>2, <2>3, <2>4
<1>7. CASE s.table # "ci_check"
  <2>1. s \in Selected(DumpOrder[j])
    BY <1>4, <1>5, <1>7, SelectedFacts DEF Of
  <2> QED BY <1>2, <1>4, <1>5, <2>1
<1> QED BY <1>6, <1>7

(***************************************************************************)
(* The statements of a table.                                              *)
(***************************************************************************)

\* Rows counted from 1 and the batches that hold them.
LEMMA BatchOf ==
  ASSUME NEW n \in Nat, NEW size \in Nat \ {0}
  PROVE  /\ (n + size - 1) \div size \in Nat
         /\ \A i \in 1..n : (i - 1) \div size + 1 \in 1..((n + size - 1) \div size)
         /\ n <= size => (n + size - 1) \div size <= 1
<1> DEFINE count == (n + size - 1) \div size
<1>1. count \in Nat /\ count * size <= n + size - 1 /\ n + size - 1 < count * size + size
  OBVIOUS
<1>2. ASSUME NEW i \in 1..n PROVE (i - 1) \div size + 1 \in 1..count
  <2> DEFINE q == (i - 1) \div size
  <2>1. q \in Nat /\ q * size <= i - 1
    OBVIOUS
  <2> HIDE DEF q, count
  <2>2. q + 1 <= count
    <3> SUFFICES ASSUME q >= count PROVE FALSE
      BY <1>1, <2>1
    <3>1. q * size >= count * size
      BY <1>1, <2>1
    <3> QED BY <1>1, <2>1, <3>1
  <2> QED BY <1>1, <2>1, <2>2 DEF q
<1>3. ASSUME n <= size PROVE count <= 1
  <2> HIDE DEF count
  <2> SUFFICES ASSUME count >= 2 PROVE FALSE
    BY <1>1
  <2>1. count * size >= 2 * size
    BY <1>1
  <2> QED BY <1>1, <1>3, <2>1
<1> QED BY <1>1, <1>2, <1>3

\* The statements of a table hold its rows and no others, in any order.
LEMMA StatementsFacts ==
  ASSUME OldInstance, NEW rows \in SUBSET AllRows, IsFiniteSet(rows),
         NEW stmts \in Statements(rows)
  PROVE  /\ stmts \in Seq(Stmts)
         /\ \A k \in 1..Len(stmts) :
              /\ stmts[k].kind # "delete" /\ (stmts[k].kind = "copy" => Dialect = "postgres")
              /\ stmts[k].rows \subseteq rows
         /\ \A r \in rows : \E k \in 1..Len(stmts) : r \in stmts[k].rows
         /\ Dialect = "postgres" \/ Cardinality(rows) <= BatchSize => Len(stmts) <= 1
<1>2. CASE Dialect = "postgres"
  <2>1. stmts = <<Statement("copy", rows)>>
    BY <1>2 DEF Statements
  <2>2. Statement("copy", rows) \in Stmts
    BY DEF Statement, Stmts
  <2> QED BY <1>2, <2>1, <2>2 DEF Statement
<1>3. CASE Dialect # "postgres"
  <2>1. PICK f \in Orders(rows) : stmts = Batches(f)
    BY <1>3 DEF Statements
  <2> DEFINE n == Cardinality(rows)
             count == (n + BatchSize - 1) \div BatchSize
  <2>2. n \in Nat /\ BatchSize \in Nat \ {0}
    BY FS_CardinalityType, OldInstanceFacts
  <2>3. f \in [1..n -> rows] /\ \A i, j \in 1..n : f[i] = f[j] => i = j
    BY DEF Orders
  <2>4. \A r \in rows : \E i \in 1..n : f[i] = r
    <3>1. IsFiniteSet(1..n) /\ Cardinality(1..n) = n
      <4> HIDE DEF n
      <4> QED BY <2>2, FS_Interval
    <3>2. f \in Injection(1..n, rows)
      BY <2>3 DEF Injection, IsInjective
    <3>3. f \in Surjection(1..n, rows)
      <4> HIDE DEF n
      <4>1. Cardinality(1..n) = Cardinality(rows)
        BY <3>1 DEF n
      <4> QED BY <3>2, <4>1, FS_Injection
    <3> QED BY <3>3 DEF Surjection
  <2> HIDE DEF n
  <2>5. /\ count \in Nat
        /\ \A i \in 1..n : (i - 1) \div BatchSize + 1 \in 1..count
        /\ n <= BatchSize => count <= 1
    BY <2>2, BatchOf
  <2>6. Len(f) = n /\ DOMAIN f = 1..n /\ f \in Seq(rows)
    BY <2>2, <2>3, SeqDef
  <2> DEFINE Batch(b) == {f[i] : i \in {j \in 1..n : (j - 1) \div BatchSize = b - 1}}
  <2>7. stmts = [b \in 1..count |-> Statement("insert", Batch(b))]
    BY <2>1, <2>6 DEF Batches
  <2>8. \A b \in 1..count : Batch(b) \subseteq rows
    BY <2>3
  <2>9. \A r \in rows : \E b \in 1..count : r \in Batch(b)
    <3> SUFFICES ASSUME NEW r \in rows PROVE \E b \in 1..count : r \in Batch(b)
      OBVIOUS
    <3>1. PICK i \in 1..n : f[i] = r
      BY <2>4
    <3> DEFINE q == (i - 1) \div BatchSize
    <3>2. q + 1 \in 1..count
      BY <2>5
    <3>3. q = (q + 1) - 1
      BY <2>2
    <3> QED BY <3>1, <3>2, <3>3
  <2> HIDE DEF count, Batch
  <2>10. stmts \in [1..count -> Stmts]
    BY <2>7, <2>8 DEF Statement, Stmts
  <2>11. stmts \in Seq(Stmts) /\ Len(stmts) = count
    BY <2>5, <2>10, SeqDef
  <2>12. \A b \in 1..count : stmts[b].kind = "insert" /\ stmts[b].rows = Batch(b)
    BY <2>7 DEF Statement
  <2> QED BY <1>3, <2>5, <2>8, <2>9, <2>11, <2>12 DEF n
<1> QED BY <1>2, <1>3

(***************************************************************************)
(* The steps.                                                              *)
(***************************************************************************)

\* Nothing has been imported.
LEMMA NotYetImported ==
  ASSUME place' = 0, outcome' = "loading", staged' = {}, target' = {}, Len(dump)' \in Nat
  PROVE  ImportInvariant'
BY DEF ImportInvariant, FailsForKnownReasons

LEMMA WriteStep ==
  ASSUME OldInstance, DumpInvariant, NEW new \in News, Write(new)
  PROVE  DumpInvariant'
<1>1. /\ next <= 24 /\ source' = source \cup new /\ moved' = (moved \/ next > 1)
      /\ UNCHANGED <<mode, next, dump, place, staged, target, outcome>>
  BY PlacesOf DEF Write
<1>2. SourceInvariant'
  <2>1. IsFiniteSet(source')
    BY <1>1, FS_Union, OldInstanceFacts DEF DumpInvariant, SourceInvariant
  <2>2. source' \subseteq AllRows
    BY <1>1 DEF DumpInvariant, SourceInvariant, AllRows
  <2>3. \A S : S \subseteq source' => Ids(S) \subseteq Ids(source')
    BY DEF Ids
  <2>4. Keyed(source')
    <3> SUFFICES ASSUME NEW r \in source' PROVE r.refs \subseteq Ids(source')
      BY DEF Keyed
    <3>1. CASE r \in source
      BY <1>1, <2>3, <3>1 DEF DumpInvariant, SourceInvariant, Keyed
    <3>2. CASE r \in new
      <4>1. r.refs \subseteq Ids(Rows \cup new)
        BY <3>2, OldInstanceFacts DEF Keyed
      <4>2. Rows \cup new \subseteq source'
        BY <1>1 DEF DumpInvariant, SourceInvariant
      <4> QED BY <2>3, <4>1, <4>2
    <3> QED BY <1>1, <3>1, <3>2
  <2>5. Rows \subseteq source'
    BY <1>1 DEF DumpInvariant, SourceInvariant
  <2> QED BY <2>1, <2>2, <2>4, <2>5 DEF SourceInvariant, Keyed, Ids
<1>3. DumpTypes'
  BY <1>1 DEF DumpInvariant, DumpTypes, Dialect
<1>4. ExportInvariant'
  <2> SUFFICES ASSUME ~moved' PROVE ExportInvariant'
    BY DEF ExportInvariant
  <2>1. ~moved /\ next = 1
    <3>1. ~moved /\ ~(next > 1)
      BY <1>1, Zenon
    <3> QED BY <3>1, SMTT(30) DEF DumpInvariant, DumpTypes
  <2>2. Dumped(Len(dump)) = {}
    BY <2>1 DEF DumpInvariant, ExportInvariant, Chosen
  <2>3. Dumped(Len(dump))' = {} /\ Chosen(next)' = {}
    BY <1>1, <2>1, <2>2 DEF Dumped, Chosen
  <2>4. \A k \in 2..Len(dump) : dump[k].rows = {}
    <3> SUFFICES ASSUME NEW k \in 2..Len(dump), NEW r \in dump[k].rows PROVE FALSE
      OBVIOUS
    <3>1. Len(dump) \in Nat
      BY LenProperties DEF DumpInvariant, DumpTypes
    <3>2. dump[k] \in Stmts
      BY <3>1, ElementOfSeq DEF DumpInvariant, DumpTypes
    <3>3. r \in AllRows
      BY <3>2 DEF Stmts
    <3> QED BY <2>2, <3>3 DEF Dumped
  <2> QED BY <1>1, <2>3, <2>4 DEF ExportInvariant
<1>5. ImportInvariant'
  <2>1. place = 0
    <3>1. ~(place > 0)
      BY <1>1 DEF DumpInvariant, ImportInvariant
    <3>2. place \in Nat
      BY LenProperties DEF DumpInvariant, DumpTypes, ImportInvariant
    <3> QED BY <3>1, <3>2
  <2>2. outcome = "loading" /\ staged = {} /\ target = {}
    BY <2>1 DEF DumpInvariant, ImportInvariant
  <2>3. Len(dump)' \in Nat
    BY <1>3, LenProperties DEF DumpTypes
  <2> QED BY <1>1, <2>1, <2>2, <2>3, NotYetImported
<1> QED BY <1>2, <1>3, <1>4, <1>5 DEF DumpInvariant

LEMMA ExportStep ==
  ASSUME OldInstance, DumpInvariant, ExportTable
  PROVE  DumpInvariant'
<1> DEFINE T == DumpOrder[next]
           chosen == Selected(T)
           n == Len(dump)
<1>1. next \in 1..24 /\ next' = next + 1
      /\ UNCHANGED <<source, mode, moved, place, staged, target, outcome>>
  BY PlacesOf DEF ExportTable
<1>2. PICK stmts \in Statements(chosen) : dump' = dump \o stmts
  BY DEF ExportTable
<1>3. chosen \subseteq Of(T) /\ chosen \subseteq source /\ chosen \subseteq AllRows
      /\ IsFiniteSet(chosen)
  <2>1. chosen \subseteq Of(T)
    BY SelectedFacts
  <2>2. chosen \subseteq source
    BY <2>1 DEF Of
  <2> QED BY <2>1, <2>2, FS_Subset DEF DumpInvariant, SourceInvariant
<1> HIDE DEF chosen
<1>4. /\ stmts \in Seq(Stmts)
      /\ \A k \in 1..Len(stmts) :
           /\ stmts[k].kind # "delete" /\ (stmts[k].kind = "copy" => Dialect = "postgres")
           /\ stmts[k].rows \subseteq chosen
      /\ \A r \in chosen : \E k \in 1..Len(stmts) : r \in stmts[k].rows
      /\ Dialect = "postgres" \/ Cardinality(chosen) <= BatchSize => Len(stmts) <= 1
  BY <1>3, StatementsFacts
<1>5. /\ dump' \in Seq(Stmts) /\ Len(dump') = n + Len(stmts)
      /\ \A k \in 1..(n + Len(stmts)) :
           dump'[k] = IF k <= n THEN dump[k] ELSE stmts[k - n]
  BY <1>2, <1>4, ConcatProperties DEF DumpInvariant, DumpTypes
<1>6. n \in Nat /\ n >= 1 /\ Len(stmts) \in Nat
  BY <1>4, LenProperties DEF DumpInvariant, DumpTypes
<1> HIDE DEF n
<1>7. \A k \in 1..n : dump'[k] = dump[k]
  BY <1>5, <1>6
<1>8. \A k \in 1..Len(stmts) : k + n \in (n + 1)..(n + Len(stmts)) /\ dump'[k + n] = stmts[k]
  BY <1>5, <1>6
<1>9. \A k \in (n + 1)..(n + Len(stmts)) :
        k - n \in 1..Len(stmts) /\ dump'[k] = stmts[k - n]
  BY <1>5, <1>6
<1>10. DumpTypes'
  <2>1. next' \in 1..25
    BY <1>1
  <2>2. Len(dump') >= 1 /\ dump'[1].kind = "delete"
    BY <1>5, <1>6, <1>7 DEF DumpInvariant, DumpTypes
  <2>3. ASSUME NEW k \in 2..Len(dump')
        PROVE  dump'[k].kind # "delete" /\ (dump'[k].kind = "copy" => Dialect = "postgres")
    <3>1. CASE k <= n
      <4>1. k \in 2..n /\ k \in 1..n
        BY <1>6, <3>1
      <4>2. dump[k].kind # "delete" /\ (dump[k].kind = "copy" => Dialect = "postgres")
        BY <4>1 DEF DumpInvariant, DumpTypes, n
      <4> QED BY <1>7, <4>1, <4>2
    <3>2. CASE k > n
      <4>1. k \in (n + 1)..(n + Len(stmts))
        BY <1>5, <1>6, <2>3, <3>2
      <4> QED BY <1>4, <1>9, <4>1
    <3> QED BY <1>6, <2>3, <3>1, <3>2
  <2>4. Dialect' = Dialect
    BY <1>1 DEF Dialect
  <2> QED BY <1>5, <2>1, <2>2, <2>3, <2>4 DEF DumpTypes
<1>11. \A k \in 2..n : Dumped(k)' = Dumped(k)
  <2> SUFFICES ASSUME NEW k \in 2..n PROVE Dumped(k)' = Dumped(k)
    OBVIOUS
  <2>1. \A l \in 2..k : dump'[l] = dump[l]
    BY <1>6, <1>7
  <2> QED BY <2>1 DEF Dumped
<1>13. Dumped(Len(dump))' = Dumped(n) \cup chosen
  <2>1. ASSUME NEW r \in Dumped(Len(dump))' PROVE r \in Dumped(n) \cup chosen
    <3>1. PICK k \in 2..Len(dump') : r \in dump'[k].rows
      BY DEF Dumped
    <3>2. CASE k <= n
      BY <1>6, <1>7, <3>1, <3>2 DEF Dumped
    <3>3. CASE k > n
      <4>1. k \in (n + 1)..(n + Len(stmts))
        BY <1>5, <1>6, <3>3
      <4> QED BY <1>4, <1>9, <3>1, <4>1
    <3> QED BY <1>6, <3>2, <3>3
  <2>2. ASSUME NEW r \in Dumped(n) PROVE r \in Dumped(Len(dump))'
    <3>1. PICK k \in 2..n : r \in dump[k].rows
      BY DEF Dumped
    <3>2. k \in 2..Len(dump') /\ dump'[k] = dump[k]
      BY <1>5, <1>6, <1>7
    <3> QED BY <3>1, <3>2 DEF Dumped
  <2>3. ASSUME NEW r \in chosen PROVE r \in Dumped(Len(dump))'
    <3>1. PICK k \in 1..Len(stmts) : r \in stmts[k].rows
      BY <1>4
    <3>2. k + n \in 2..Len(dump') /\ dump'[k + n] = stmts[k]
      BY <1>5, <1>6, <1>8
    <3> QED BY <1>3, <3>1, <3>2 DEF Dumped
  <2> QED BY <2>1, <2>2, <2>3
<1>14. Chosen(next)' = Chosen(next) \cup chosen
  <2>1. Selected(DumpOrder[next]) = chosen
    BY DEF chosen
  <2>2. \A j : j \in 1..(next' - 1) <=> j \in 1..(next - 1) \/ j = next
    BY <1>1
  <2>3. \A U : Selected(U)' = Selected(U)
    BY <1>1 DEF Selected, LatestChecks, Of
  <2>4. Chosen(next)' = {r \in source : \E j \in 1..(next' - 1) : r \in Selected(DumpOrder[j])}
    BY <1>1, <2>3 DEF Chosen
  <2> QED BY <1>3, <2>1, <2>2, <2>4 DEF Chosen
<1>15. ASSUME ~moved, Whole, Dumped(n) = Chosen(next),
              NEW k \in (n + 1)..(n + Len(stmts)), NEW r \in dump'[k].rows
       PROVE  r.refs \subseteq Ids(Dumped(k)')
  <2>1. r \in chosen
    BY <1>4, <1>9, <1>15
  <2> SUFFICES ASSUME NEW ref \in r.refs PROVE ref \in Ids(Dumped(k)')
    OBVIOUS
  <2>2. r \in Selected(DumpOrder[next])
    BY <2>1 DEF chosen
  <2>3. PICK j \in 1..next : \E s \in Selected(DumpOrder[j]) :
          ref = <<s.table, s.id>> /\ (j = next => DumpOrder[next] = "series")
    <3>1. next \in 1..24 /\ SourceInvariant
      BY <1>1 DEF DumpInvariant
    <3>2. \A q \in Selected(DumpOrder[next]) : \A f \in q.refs :
            \E j \in 1..next : \E s \in Selected(DumpOrder[j]) :
              f = <<s.table, s.id>> /\ (j = next => DumpOrder[next] = "series")
      BY <3>1, KeysAreSelected
    <3> QED BY <2>2, <3>2
  <2>4. PICK s \in Selected(DumpOrder[j]) :
          ref = <<s.table, s.id>> /\ (j = next => DumpOrder[next] = "series")
    BY <2>3
  <2>5. s \in source /\ s \in AllRows
    BY SelectedFacts DEF Of, DumpInvariant, SourceInvariant
  <2>6. CASE j < next
    <3>1. j \in 1..(next - 1)
      <4>1. next \in 1..24 /\ j \in 1..next
        BY <1>1, <2>3
      <4> QED BY ONLY <2>6, <4>1
    <3>2. s \in Dumped(n)
      BY <1>15, <2>5, <3>1 DEF Chosen
    <3>3. PICK l \in 2..n : s \in dump[l].rows
      BY <3>2 DEF Dumped
    <3>4. l \in 2..k /\ dump'[l] = dump[l]
      BY <1>6, <1>7
    <3>5. s \in Dumped(k)'
      BY <2>5, <3>3, <3>4 DEF Dumped
    <3> QED BY <2>4, <3>5 DEF Ids
  <2>7. CASE j = next
    <3>1. chosen = Of("series")
      BY <2>4, <2>7, SelectedFacts DEF chosen
    <3>2. Len(stmts) <= 1
      BY <1>4, <1>15, <3>1 DEF Whole
    <3>3. PICK l \in 1..Len(stmts) : s \in stmts[l].rows
      BY <1>4, <2>4, <2>7 DEF chosen
    <3>4. k = l + n /\ k \in 2..k
      BY <1>6, <3>2
    <3>5. s \in Dumped(k)'
      BY <1>8, <2>5, <3>3, <3>4 DEF Dumped
    <3> QED BY <2>4, <3>5 DEF Ids
  <2> QED BY <1>1, <2>6, <2>7, <2>3
<1>16. ExportInvariant'
  <2> SUFFICES ASSUME ~moved' PROVE ExportInvariant'
    BY DEF ExportInvariant
  <2>1. ~moved
    BY <1>1
  <2>2. /\ Dumped(n) = Chosen(next)
        /\ Whole => \A k \in 2..n : \A r \in dump[k].rows : r.refs \subseteq Ids(Dumped(k))
    BY <2>1 DEF DumpInvariant, ExportInvariant, n
  <2>3. Dumped(Len(dump))' = Chosen(next)'
    BY <1>13, <1>14, <2>2
  <2>4. Whole' <=> Whole
    BY <1>1 DEF Whole, Dialect, Of
  <2>5. ASSUME Whole, NEW k \in 2..Len(dump'), NEW r \in dump'[k].rows
        PROVE  r.refs \subseteq Ids(Dumped(k)')
    <3>1. CASE k <= n
      <4>1. k \in 2..n /\ dump'[k] = dump[k]
        BY <1>6, <1>7, <3>1
      <4> QED BY <1>11, <2>2, <2>5, <4>1
    <3>2. CASE k > n
      <4>1. k \in (n + 1)..(n + Len(stmts))
        BY <1>5, <1>6, <3>2
      <4> QED BY <1>15, <2>1, <2>2, <2>5, <4>1
    <3> QED BY <1>6, <3>1, <3>2
  <2>6. \A S : Ids(S)' = Ids(S)
    BY DEF Ids
  <2> QED BY <2>3, <2>4, <2>5 DEF ExportInvariant, Ids
<1>17. ImportInvariant'
  <2>1. place = 0
    <3>1. ~(place > 0)
      BY <1>1 DEF DumpInvariant, ImportInvariant
    <3>2. place \in Nat
      BY LenProperties DEF DumpInvariant, DumpTypes, ImportInvariant
    <3> QED BY <3>1, <3>2
  <2>2. outcome = "loading" /\ staged = {} /\ target = {}
    BY <2>1 DEF DumpInvariant, ImportInvariant
  <2>3. Len(dump)' \in Nat
    BY <1>5, <1>6
  <2> QED BY <1>1, <2>1, <2>2, <2>3, NotYetImported
<1>18. SourceInvariant'
  BY <1>1 DEF DumpInvariant, SourceInvariant, Keyed, Ids
<1> QED BY <1>10, <1>16, <1>17, <1>18 DEF DumpInvariant

\* The import only reads the dump.
LEMMA ImportKeepsTheDump ==
  ASSUME DumpInvariant, UNCHANGED <<source, mode, next, dump, moved>>
  PROVE  /\ SourceInvariant' /\ DumpTypes' /\ ExportInvariant'
         /\ Clean' <=> Clean
         /\ \A k : Dumped(k)' = Dumped(k)
<1>1. \A k : Dumped(k)' = Dumped(k)
  BY DEF Dumped
<1>2. Chosen(next)' = Chosen(next)
  BY DEF Chosen, Selected, LatestChecks, Of
<1>3. Whole' <=> Whole
  BY DEF Whole, Dialect, Of
<1>4. Clean' <=> Clean
  <2>1. Forbidden' <=> Forbidden
    BY DEF Forbidden, Clash, Selected, LatestChecks, Of
  <2>2. moved' <=> moved
    BY Zenon
  <2> QED BY <2>1, <2>2, Zenon DEF Clean
<1>5. SourceInvariant'
  BY DEF DumpInvariant, SourceInvariant, Keyed, Ids
<1>6. DumpTypes'
  BY DEF DumpInvariant, DumpTypes, Dialect
<1>7. ExportInvariant'
  <2>1. \A S : Ids(S)' = Ids(S)
    BY DEF Ids
  <2>2. Dumped(Len(dump))' = Dumped(Len(dump))
    BY DEF Dumped
  <2> SUFFICES ASSUME ~moved' PROVE ExportInvariant'
    BY DEF ExportInvariant
  <2>3. ~moved
    BY Zenon
  <2> QED BY <1>1, <1>2, <1>3, <2>2, <2>3 DEF DumpInvariant, ExportInvariant, Ids
<1> QED BY <1>1, <1>4, <1>5, <1>6, <1>7

LEMMA BeginStep ==
  ASSUME OldInstance, DumpInvariant, Begin
  PROVE  DumpInvariant'
<1>1. /\ next = 25 /\ place = 0 /\ place' = 1 /\ staged' = target
      /\ UNCHANGED <<source, mode, next, dump, moved, target, outcome>>
  BY PlacesOf DEF Begin
<1>2. outcome = "loading" /\ target = {}
  BY <1>1 DEF DumpInvariant, ImportInvariant
<1>3. Len(dump) \in Nat /\ Len(dump) >= 1
  BY LenProperties DEF DumpInvariant, DumpTypes
<1>4. Dumped(0)' = {}
  BY DEF Dumped
<1>5. ImportInvariant'
  BY <1>1, <1>2, <1>3, <1>4 DEF ImportInvariant, FailsForKnownReasons
<1> QED BY <1>1, <1>5, ImportKeepsTheDump DEF DumpInvariant

\* Why pw db import may fail.
Reasons ==
  ByPw /\ \/ Dialect = "postgres"
          \/ \E r \in source : r.semi
          \/ Dialect = "sqlite" /\ Cardinality(Of("series")) > BatchSize

\* A statement of a clean export that is refused.
LEMMA RefusedForReasons ==
  ASSUME OldInstance, DumpInvariant, Clean, next = 25,
         NEW k \in 2..Len(dump), staged = Dumped(k - 1),
         Cut(dump[k]) \/ ~Accepts(dump[k].rows)
  PROVE  Reasons
<1> DEFINE rows == dump[k].rows
<1>1. Len(dump) \in Nat /\ dump[k] \in Stmts /\ rows \subseteq AllRows
  <2>1. Len(dump) \in Nat
    BY LenProperties DEF DumpInvariant, DumpTypes
  <2>2. dump[k] \in Stmts
    BY <2>1, ElementOfSeq DEF DumpInvariant, DumpTypes
  <2> QED BY <2>1, <2>2 DEF Stmts
<1>2. /\ Dumped(Len(dump)) = Chosen(25)
      /\ Whole => \A r \in rows : r.refs \subseteq Ids(Dumped(k))
  BY DEF Clean, DumpInvariant, ExportInvariant
<1>3. staged \cup rows = Dumped(k)
  BY <1>1 DEF Dumped
<1>4. staged \cup rows \subseteq Chosen(25)
  <2>1. Dumped(k) \subseteq Dumped(Len(dump))
    BY <1>1 DEF Dumped
  <2> QED BY <1>2, <1>3, <2>1
<1>5. \A r \in staged \cup rows :
        r \in source /\ \E j \in 1..24 : r \in Selected(DumpOrder[j]) /\ r.table = DumpOrder[j]
  <2> SUFFICES ASSUME NEW r \in Chosen(25)
               PROVE  /\ r \in source
                      /\ \E j \in 1..24 : /\ r \in Selected(DumpOrder[j])
                                           /\ r.table = DumpOrder[j]
    BY <1>4
  <2>1. r \in source
    BY DEF Chosen
  <2>2. PICK j \in 1..24 : r \in Selected(DumpOrder[j])
    BY DEF Chosen
  <2>3. r.table = DumpOrder[j]
    BY <2>2, SelectedFacts DEF Of
  <2> QED BY <2>1, <2>2, <2>3
<1> HIDE DEF rows
<1>6. CASE Cut(dump[k])
  <2>1. dump[k].kind = "copy" => Dialect = "postgres"
    BY DEF DumpInvariant, DumpTypes
  <2> QED BY <1>5, <1>6, <2>1 DEF Cut, rows, Reasons
<1>7. CASE ~Accepts(rows)
  <2>1. \A r \in rows, s \in staged \cup rows : ~Clash(r, s)
    <3> SUFFICES ASSUME NEW r \in rows, NEW s \in staged \cup rows, Clash(r, s) PROVE FALSE
      OBVIOUS
    <3>1. PICK j \in 1..24 : r \in Selected(DumpOrder[j]) /\ r.table = DumpOrder[j]
      BY <1>5
    <3>2. PICK i \in 1..24 : s \in Selected(DumpOrder[i]) /\ s.table = DumpOrder[i]
      BY <1>5
    <3>3. s \in Selected(DumpOrder[j])
      BY <3>1, <3>2 DEF Clash
    <3>4. j \in 1..Len(DumpOrder)
      BY PlacesOf
    <3> QED BY <3>1, <3>3, <3>4 DEF Clean, Forbidden
  <2>2. ForeignKeysOn /\ \E r \in rows : ~(r.refs \subseteq Ids(Dumped(k)))
    BY <1>3, <1>7, <2>1 DEF Accepts
  <2>3. ~Whole
    BY <1>2, <2>2
  <2>4. ByPw /\ Dialect = "sqlite"
    BY <2>2, <2>3 DEF Whole, ForeignKeysOn, ByPw, Dialect
  <2>5. IsFiniteSet(Of("series"))
    <3>1. Of("series") \subseteq source
      BY DEF Of
    <3> QED BY <3>1, FS_Subset DEF DumpInvariant, SourceInvariant
  <2>6. Cardinality(Of("series")) \in Nat
    BY <2>5, FS_CardinalityType
  <2>7. ~(Cardinality(Of("series")) <= BatchSize)
    BY <2>3 DEF Whole
  <2>8. Cardinality(Of("series")) > BatchSize
    BY <2>6, <2>7, OldInstanceFacts
  <2> QED BY <2>4, <2>8 DEF Reasons
<1> QED BY <1>6, <1>7 DEF rows

LEMMA ReasonsStay ==
  ASSUME DumpInvariant, UNCHANGED <<source, mode, next, dump, moved>>,
         \/ outcome' # "failed"
         \/ Clean => Reasons
         \/ outcome' = outcome /\ FailsForKnownReasons
  PROVE  FailsForKnownReasons'
<1>1. (Clean' <=> Clean) /\ (Forbidden' <=> Forbidden)
  <2>1. Clean' <=> Clean
    BY ImportKeepsTheDump
  <2>2. Forbidden' <=> Forbidden
    BY DEF Forbidden, Clash, Selected, LatestChecks, Of
  <2> QED BY <2>1, <2>2
<1>2. Reasons' <=> Reasons
  <2>1. Of("series")' = Of("series")
    BY DEF Of
  <2>2. Cardinality(Of("series"))' = Cardinality(Of("series"))
    BY <2>1 DEF Cardinality, IsFiniteSet
  <2>3. mode' = mode /\ source' = source
    OBVIOUS
  <2> QED BY <2>2, <2>3 DEF Reasons, ByPw, Dialect
<1>3. moved' = moved
  OBVIOUS
<1>4. FailsForKnownReasons <=> (outcome = "failed" /\ ~moved => Forbidden \/ Reasons)
  BY DEF FailsForKnownReasons, Reasons
<1>5. FailsForKnownReasons' <=> (outcome' = "failed" /\ ~moved' => Forbidden' \/ Reasons')
  BY DEF FailsForKnownReasons, Reasons
<1> QED BY <1>1, <1>2, <1>3, <1>4, <1>5 DEF Clean

LEMMA ExecuteStep ==
  ASSUME OldInstance, DumpInvariant, Execute
  PROVE  DumpInvariant'
<1>1. /\ outcome = "loading" /\ place \in DOMAIN dump /\ place' = place + 1
      /\ UNCHANGED <<source, mode, next, dump, moved, target>>
  BY DEF Execute
<1>2. Len(dump) \in Nat /\ Len(dump) >= 1 /\ place \in 1..Len(dump)
  BY <1>1, LenProperties DEF DumpInvariant, DumpTypes
<1>3. /\ place' \in 0..(Len(dump) + 1) /\ place' > 0 /\ place' - 1 = place
      /\ next' = 25 /\ target' = {}
  BY <1>1, <1>2 DEF DumpInvariant, ImportInvariant
<1>4. Clean => staged = Dumped(place - 1)
  BY <1>1, <1>2 DEF DumpInvariant, ImportInvariant
<1>5. \/ place = 1 /\ dump[place].kind = "delete"
      \/ place \in 2..Len(dump) /\ dump[place].kind # "delete"
  BY <1>2 DEF DumpInvariant, DumpTypes
<1>6. Clean' <=> Clean
  BY <1>1, ImportKeepsTheDump
<1>7. Dumped(place - 1)' = Dumped(place)
  <2>1. \A l : l \in 2..(place' - 1) <=> l \in 2..place
    BY <1>3
  <2> QED BY <1>1, <2>1 DEF Dumped
<1>8. outcome' \in {"loading", "failed"}
      /\ (outcome' = "loading" /\ Clean => staged' = Dumped(place))
      /\ FailsForKnownReasons'
  <2>1. CASE dump[place].kind = "delete"
    <3>1. staged' = {} /\ outcome' = outcome
      BY <2>1 DEF Execute
    <3>2. Dumped(place) = {}
      BY <1>5, <2>1 DEF Dumped
    <3> QED BY <1>1, <3>1, <3>2 DEF FailsForKnownReasons
  <2>2. CASE /\ dump[place].kind # "delete"
             /\ ~Cut(dump[place]) /\ Accepts(dump[place].rows)
    <3>1. staged' = staged \cup dump[place].rows /\ outcome' = outcome
      BY <2>2 DEF Execute
    <3>2. place \in 2..Len(dump)
      BY <1>5, <2>2
    <3>3. dump[place].rows \subseteq AllRows
      <4>1. dump[place] \in Stmts
        BY <1>2, ElementOfSeq DEF DumpInvariant, DumpTypes
      <4> QED BY <4>1 DEF Stmts
    <3>4. Dumped(place) = Dumped(place - 1) \cup dump[place].rows
      BY <1>2, <3>2, <3>3 DEF Dumped
    <3> QED BY <1>1, <1>4, <3>1, <3>4 DEF FailsForKnownReasons
  <2>3. CASE /\ dump[place].kind # "delete"
             /\ Cut(dump[place]) \/ ~Accepts(dump[place].rows)
    <3>1. place \in 2..Len(dump)
      BY <1>5, <2>3
    <3>2. outcome' = IF mode = <<"sqlite", "native">> THEN outcome ELSE "failed"
      BY <2>3 DEF Execute
    <3>3. Clean => Reasons
      BY <1>1, <1>3, <1>4, <2>3, <3>1, RefusedForReasons
    <3>4. FailsForKnownReasons'
      BY <1>1, <1>6, <3>3, ReasonsStay
    <3>5. outcome' = "loading" => ~Clean
      BY <3>2, <3>3 DEF ByPw, Reasons
    <3> QED BY <1>1, <3>2, <3>4, <3>5
  <2> QED BY <2>1, <2>2, <2>3
<1>9. ImportInvariant'
  BY <1>1, <1>3, <1>6, <1>7, <1>8 DEF ImportInvariant
<1> QED BY <1>1, <1>9, ImportKeepsTheDump DEF DumpInvariant

LEMMA CommitStep ==
  ASSUME OldInstance, DumpInvariant, Commit
  PROVE  DumpInvariant'
<1>1. /\ outcome = "loading" /\ place = Len(dump) + 1 /\ target' = staged /\ outcome' = "loaded"
      /\ UNCHANGED <<source, mode, next, dump, moved, place, staged>>
  BY DEF Commit
<1>2. Len(dump) \in Nat /\ place > 0 /\ place - 1 = Len(dump)
  BY <1>1, LenProperties DEF DumpInvariant, DumpTypes
<1>3. next = 25 /\ (Clean => staged = Dumped(Len(dump)))
  BY <1>1, <1>2 DEF DumpInvariant, ImportInvariant
<1>4. Clean' <=> Clean
  BY <1>1, ImportKeepsTheDump
<1>5. Dumped(Len(dump))' = Dumped(Len(dump))
  BY <1>1 DEF Dumped
<1>6. ImportInvariant'
  BY <1>1, <1>2, <1>3, <1>4, <1>5 DEF ImportInvariant, FailsForKnownReasons
<1> QED BY <1>1, <1>6, ImportKeepsTheDump DEF DumpInvariant

LEMMA DumpIsInvariant ==
  ASSUME OldInstance
  PROVE  DumpSpec => []DumpInvariant
<1>1. DumpInit => DumpInvariant
  <2> SUFFICES ASSUME DumpInit PROVE DumpInvariant
    OBVIOUS
  <2>1. /\ source = Rows /\ next = 1 /\ dump = <<Statement("delete", {})>> /\ place = 0
        /\ staged = {} /\ target = {} /\ outcome = "loading"
    BY DEF DumpInit, Preamble
  <2>2. dump \in Seq(Stmts) /\ Len(dump) = 1 /\ dump[1].kind = "delete"
    <3>1. Statement("delete", {}) \in Stmts
      BY DEF Statement, Stmts
    <3> QED BY <2>1, <3>1 DEF Statement
  <2>3. Dumped(Len(dump)) = {} /\ Chosen(next) = {}
    BY <2>1, <2>2 DEF Dumped, Chosen
  <2>4. SourceInvariant
    BY <2>1, OldInstanceFacts DEF SourceInvariant, AllRows
  <2>5. DumpTypes /\ ExportInvariant
    BY <2>1, <2>2, <2>3 DEF DumpTypes, ExportInvariant
  <2>6. ImportInvariant
    BY <2>1, <2>2 DEF ImportInvariant, FailsForKnownReasons
  <2> QED BY <2>4, <2>5, <2>6 DEF DumpInvariant
<1>2. DumpInvariant /\ [DumpNext]_dumpVars => DumpInvariant'
  <2> SUFFICES ASSUME DumpInvariant, [DumpNext]_dumpVars PROVE DumpInvariant'
    OBVIOUS
  <2>1. ASSUME NEW new \in News, Write(new) PROVE DumpInvariant'
    BY <2>1, WriteStep
  <2>2. CASE ExportTable
    BY <2>2, ExportStep
  <2>3. CASE Begin
    BY <2>3, BeginStep
  <2>4. CASE Execute
    BY <2>4, ExecuteStep
  <2>5. CASE Commit
    BY <2>5, CommitStep
  <2>6. CASE UNCHANGED dumpVars
    <3>1. UNCHANGED <<source, mode, next, dump, moved, place, staged, target, outcome>>
      BY <2>6 DEF dumpVars
    <3>2. Clean' <=> Clean
      BY <3>1, ImportKeepsTheDump
    <3>3. Dumped(Len(dump))' = Dumped(Len(dump)) /\ Dumped(place - 1)' = Dumped(place - 1)
      BY <3>1 DEF Dumped
    <3>4. FailsForKnownReasons'
      BY <3>1, ReasonsStay DEF DumpInvariant, ImportInvariant
    <3>5. ImportInvariant'
      BY <3>1, <3>2, <3>3, <3>4 DEF DumpInvariant, ImportInvariant
    <3> QED BY <3>1, <3>5, ImportKeepsTheDump DEF DumpInvariant
  <2> QED BY <2>1, <2>2, <2>3, <2>4, <2>5, <2>6 DEF DumpNext
<1> QED BY <1>1, <1>2, PTL DEF DumpSpec

\* Where the database checks foreign keys, the transaction of the import sees no
\* row without the rows it refers to.
KeysHold == ForeignKeysOn => Keyed(staged) /\ Keyed(target)

LEMMA KeysAreHeld == DumpSpec => []KeysHold
<1>1. DumpInit => KeysHold
  BY DEF DumpInit, KeysHold, Keyed
<1>2. KeysHold /\ [DumpNext]_dumpVars => KeysHold'
  <2> SUFFICES ASSUME KeysHold, [DumpNext]_dumpVars, ForeignKeysOn'
               PROVE  Keyed(staged)' /\ Keyed(target)'
    BY DEF KeysHold
  <2>1. mode' = mode
    BY DEF DumpNext, Write, ExportTable, Begin, Execute, Commit, dumpVars
  <2>2. Keyed(staged) /\ Keyed(target) /\ ForeignKeysOn
    BY <2>1 DEF KeysHold, ForeignKeysOn, Dialect
  <2>3. CASE Execute
    <3>1. target' = target
      BY <2>3 DEF Execute
    <3>2. CASE staged' = {} \/ staged' = staged
      BY <2>2, <3>1, <3>2 DEF Keyed, Ids
    <3>3. CASE /\ Accepts(dump[place].rows)
               /\ staged' = staged \cup dump[place].rows
      <4>1. \A r \in staged' : r.refs \subseteq Ids(staged')
        <5> SUFFICES ASSUME NEW r \in staged' PROVE r.refs \subseteq Ids(staged')
          OBVIOUS
        <5>1. CASE r \in staged
          BY <2>2, <3>3, <5>1 DEF Keyed, Ids
        <5>2. CASE r \in dump[place].rows
          BY <2>2, <3>3, <5>2 DEF Accepts
        <5> QED BY <3>3, <5>1, <5>2
      <4> QED BY <2>2, <3>1, <4>1 DEF Keyed, Ids
    <3> QED BY <2>3, <3>2, <3>3 DEF Execute
  <2>4. CASE ~Execute
    <3>1. /\ staged' = staged \/ staged' = target
          /\ target' = target \/ target' = staged
      BY <2>4 DEF DumpNext, Write, ExportTable, Begin, Commit, dumpVars
    <3> QED BY <2>2, <3>1 DEF Keyed, Ids
  <2> QED BY <2>3, <2>4
<1> QED BY <1>1, <1>2, PTL DEF DumpSpec

LEMMA LoadedIsEverything ==
  ASSUME OldInstance, DumpInvariant, KeysHold
  PROVE  LoadsEverything
<1> SUFFICES ASSUME outcome = "loaded", Clean
             PROVE  target = {r \in source :
                                /\ r.table = "ci_check" => r \in LatestChecks
                                /\ r.refs \subseteq Ids(LatestChecks)
                                     \cup Ids(source \ Of("ci_check"))}
  BY DEF LoadsEverything, KeysHold
<1> DEFINE kept == Ids(LatestChecks) \cup Ids(source \ Of("ci_check"))
<1>1. target = Chosen(25)
  <2>1. place > 0
    BY LenProperties DEF DumpInvariant, DumpTypes, ImportInvariant
  <2>2. next = 25 /\ target = Dumped(Len(dump))
    BY <2>1 DEF DumpInvariant, ImportInvariant
  <2> QED BY <2>2 DEF Clean, DumpInvariant, ExportInvariant
<1>2. ASSUME NEW r \in Chosen(25)
      PROVE  /\ r \in source /\ (r.table = "ci_check" => r \in LatestChecks)
             /\ r.refs \subseteq kept
  <2>1. PICK j \in 1..24 : r \in Selected(DumpOrder[j])
    BY DEF Chosen
  <2>2. r \in source /\ r.table = DumpOrder[j]
    BY <2>1, SelectedFacts DEF Of
  <2>3. r.table = "ci_check" => r \in LatestChecks
    BY <2>1, <2>2, SelectedFacts
  <2>4. ASSUME NEW ref \in r.refs PROVE ref \in kept
    <3>1. \A q \in Selected(DumpOrder[j]) : \A f \in q.refs :
            \E i \in 1..j : \E s \in Selected(DumpOrder[i]) :
              f = <<s.table, s.id>> /\ (i = j => DumpOrder[j] = "series")
      BY KeysAreSelected DEF DumpInvariant
    <3>2. PICK i \in 1..j : \E s \in Selected(DumpOrder[i]) : ref = <<s.table, s.id>>
      BY <2>1, <3>1
    <3>3. PICK s \in Selected(DumpOrder[i]) : ref = <<s.table, s.id>>
      BY <3>2
    <3>4. s \in source /\ s.table = DumpOrder[i]
      BY <3>3, SelectedFacts DEF Of
    <3>5. s \in LatestChecks \/ s \in source \ Of("ci_check")
      BY <3>3, <3>4, SelectedFacts DEF Of
    <3> QED BY <3>3, <3>5 DEF Ids
  <2> QED BY <2>2, <2>3, <2>4
<1>3. ASSUME NEW r \in source, r.table = "ci_check" => r \in LatestChecks, r.refs \subseteq kept
      PROVE  r \in Chosen(25)
  <2>1. PICK i \in 1..24 : r.table = DumpOrder[i]
    BY OldInstanceFacts DEF DumpInvariant, SourceInvariant
  <2>2. r \in Selected(DumpOrder[i])
    <3>1. CASE r.table = "ci_check"
      BY <1>3, <2>1, <3>1, SelectedFacts
    <3>2. CASE r.table = "event"
      <4>1. ASSUME NEW ref \in r.refs, ref[1] = "ci_check"
            PROVE  \E c \in LatestChecks : c.id = ref[2]
        <5>1. ref \notin Ids(source \ Of("ci_check"))
          BY <4>1 DEF Ids, Of
        <5> QED BY <1>3, <5>1 DEF Ids
      <4>2. r \in Of("event")
        BY <3>2 DEF Of
      <4> QED BY <2>1, <3>2, <4>1, <4>2, SelectedFacts
    <3>3. CASE r.table \notin {"ci_check", "event"}
      BY <2>1, <3>3, SelectedFacts DEF Of
    <3> QED BY <3>1, <3>2, <3>3
  <2> QED BY <2>1, <2>2 DEF Chosen
<1>4. target = {r \in source : /\ r.table = "ci_check" => r \in LatestChecks
                               /\ r.refs \subseteq kept}
  BY <1>1, <1>2, <1>3 DEF Chosen
<1> QED BY <1>4

\* After an export during which the old instance did not write, and where no two
\* of its rows have a unique key of the new schema in common, the database that
\* was loaded has every row but the checks that later ones replace and their
\* events, and every foreign key holds, whichever client loads it; where the
\* database checks foreign keys, they hold after any export (export.go).
THEOREM ImportsLoadEverything ==
  ASSUME OldInstance
  PROVE  DumpSpec => []LoadsEverything
<1>1. DumpInvariant /\ KeysHold => LoadsEverything
  BY LoadedIsEverything
<1> QED BY <1>1, DumpIsInvariant, KeysAreHeld, PTL

\* If the old instance did not write during the export, an import fails for rows
\* that a unique key forbids; or in pw db import, for any dump of PostgreSQL, for
\* a text with a line that ends in a semicolon, and in SQLite for more series
\* than an INSERT has.  The order of the tables serves every other foreign key
\* (exportTables, ImportCmd).
THEOREM ImportsFailForKnownReasons ==
  ASSUME OldInstance
  PROVE  DumpSpec => []FailsForKnownReasons
<1>1. DumpInvariant => FailsForKnownReasons
  BY DEF DumpInvariant, ImportInvariant
<1> QED BY <1>1, DumpIsInvariant, PTL
=============================================================================
