------------------------------- MODULE Bundles -------------------------------
(***************************************************************************)
(* Bundles (pkg/api/bundles.go, pkg/web/bundles.go and the list actions of *)
(* pkg/web/patches.go): the ordered patches a user collects.               *)
(*                                                                         *)
(* The two requests that place patches into a bundle that is there already *)
(* read in one statement what they insert behind, or instead of, in later  *)
(* ones, and nothing locks the bundle in between: they are split there.    *)
(* The insertions are one action with the commit, which shows them to the  *)
(* others.  Every other request is one transaction and one action, which   *)
(* waits for rows that an update has deleted.  A request that is refused,  *)
(* or rolled back because a unique or foreign key fails, is a stuttering   *)
(* step.                                                                   *)
(***************************************************************************)
EXTENDS Patchwork, Integers, Sequences, FiniteSets, FiniteSetsExt, Functions

CONSTANTS
  BundleIds,
  Names,              \* names that are not empty
  PatchLists,              \* the lists of patch ids that requests name, not empty
  MaxOrder            \* bound: the largest position given to a patch

VARIABLES
  bundle,     \* table bundle: a row for every id, Null when there is none
  content,    \* table bundle_patch: rows [bundle, patch, order]
  placing,    \* the request by which a session places patches, or Null
  raced       \* history: the bundles that a request placed patches into which
              \* read the bundle before another one placed some

bundleVars == <<bundle, content, placing, raced>>

(***************************************************************************)
(* A request that places patches: its bundle and list, the row of table    *)
(* bundle it writes, the position of its first patch, the rows it deletes, *)
(* whether it holds their locks, and (history) whether no other request    *)
(* has placed patches into the bundle since it read it.                    *)
(***************************************************************************)
Placing == {s \in Sessions : placing[s] # Null}

Owner(b) == IF bundle[b] = Null THEN Null ELSE bundle[b].owner

Owns(u, b) == bundle[b] # Null /\ bundle[b].owner = u

RowsOf(b) == {row \in content : row.bundle = b}

\* The unique key on owner and name.
NameFree(u, b, name) ==
  \A other \in {o \in BundleIds \ {b} : Owner(o) = u} : bundle[other].name # name

\* The patches of an API request exist and are of one project.
Valid(list) ==
  /\ Range(list) \subseteq Patches
  /\ \A p, q \in Range(list) : ProjectOf[p] = ProjectOf[q]

\* The rows of a list from position first on; the unique key on bundle and
\* patch allows no patch twice.
RowsAt(b, list, first) ==
  {[bundle |-> b, patch |-> list[i], order |-> first + i - 1] : i \in DOMAIN list}

Insertable(b, list, present) ==
  /\ IsInjective(list)
  /\ Range(list) \subseteq Patches
  /\ \A row \in present : row.patch \notin Range(list)

\* Mutant: as many as there are.
MutantNextOrder(b) == Cardinality(RowsOf(b))

\* COALESCE(MAX(order), -1) + 1.
NextOrder(b) == Max({row.order : row \in RowsOf(b)} \cup {-1}) + 1

\* A new id, which no request can know yet.
NewId(b) == bundle[b] = Null /\ \A s \in Placing : placing[s].bundle # b

\* The rows that updates have deleted and not yet committed.
Deleted(t) == IF placing[t].held THEN placing[t].gone ELSE {}

Unlocked(rows) == \A t \in Placing : Deleted(t) \cap rows = {}

-----------------------------------------------------------------------------
CreateBundle(u, b, name, public, list) ==
  /\ NewId(b)
  /\ Valid(list) /\ NameFree(u, b, name) /\ Insertable(b, list, {})
  /\ bundle' = [bundle EXCEPT ![b] =
                  [owner |-> u, name |-> name, public |-> public,
                   project |-> ProjectOf[list[1]]]]
  /\ content' = content \cup RowsAt(b, list, 0)
  /\ UNCHANGED <<placing, raced>>

\* The row as an update leaves it; Null stands for a field left out.
Renamed(row, name, public, project) ==
  [row EXCEPT !.name    = IF name = Null THEN @ ELSE name,
              !.public  = IF public = Null THEN @ ELSE public,
              !.project = IF project = Null THEN @ ELSE project]

\* An update without a list.
UpdateBundle(u, b, name, public) ==
  /\ Owns(u, b)
  /\ name # Null => NameFree(u, b, name)
  /\ bundle' = [bundle EXCEPT ![b] = Renamed(@, name, public, Null)]
  /\ UNCHANGED <<content, placing, raced>>

\* A list replaces the rows that are there when the DELETE begins.
StartReplacing(s, u, b, name, public, list) ==
  /\ placing[s] = Null
  /\ Owns(u, b) /\ Valid(list)
  /\ placing' = [placing EXCEPT ![s] =
       [bundle |-> b, list |-> list, name |-> name, public |-> public,
        project |-> ProjectOf[list[1]], first |-> 0,
        gone |-> RowsOf(b), held |-> FALSE, fresh |-> TRUE]]
  /\ UNCHANGED <<bundle, content, raced>>

\* The DELETE has waited for those of others; what these have deleted, or other
\* requests have in the meantime, is gone without it.
DeleteRows(s) ==
  /\ s \in Placing /\ ~placing[s].held
  /\ Unlocked(placing[s].gone)
  /\ placing' = [placing EXCEPT ![s].gone = @ \cap content, ![s].held = TRUE]
  /\ UNCHANGED <<bundle, content, raced>>

DeleteBundle(u, b) ==
  /\ Owns(u, b)
  /\ Unlocked(RowsOf(b))
  /\ bundle' = [bundle EXCEPT ![b] = Null]
  /\ content' = content \ RowsOf(b)
  /\ raced' = raced \ {b}
  /\ UNCHANGED placing

\* The form of a bundle; its action "delete" is the one above.
BundleUpdate(u, b, name, public) ==
  /\ Owns(u, b)
  /\ NameFree(u, b, name)
  /\ bundle' = [bundle EXCEPT ![b] = Renamed(@, name, public, Null)]
  /\ UNCHANGED <<content, placing, raced>>

\* Its action "remove-patches"; those that stay keep their positions.
RemovePatches(u, b, removed) ==
  /\ Owns(u, b)
  /\ Unlocked({row \in RowsOf(b) : row.patch \in removed})
  /\ content' = {row \in content : row.bundle # b \/ row.patch \notin removed}
  /\ UNCHANGED <<bundle, placing, raced>>

\* From the list of a project, patches of any project are appended: behind the
\* largest position there is when it is read.
StartAdding(s, u, b, list) ==
  /\ placing[s] = Null
  /\ Owns(u, b)
  /\ NextOrder(b) + Len(list) - 1 <= MaxOrder
  /\ placing' = [placing EXCEPT ![s] =
       [bundle |-> b, list |-> list, name |-> Null, public |-> Null,
        project |-> Null, first |-> NextOrder(b),
        gone |-> {}, held |-> TRUE, fresh |-> TRUE]]
  /\ UNCHANGED <<bundle, content, raced>>

Kept(r) == RowsOf(r.bundle) \ r.gone

\* The insertions, the update of the bundle's row, and the commit.  A unique key
\* makes a request wait for another one's rows, and fail once these are there.
Place(s) ==
  LET r == placing[s]
      b == r.bundle
  IN /\ s \in Placing /\ r.held /\ bundle[b] # Null
     /\ Insertable(b, r.list, Kept(r))
     /\ r.name # Null => NameFree(Owner(b), b, r.name)
     /\ bundle' = [bundle EXCEPT ![b] = Renamed(@, r.name, r.public, r.project)]
     /\ content' = (content \ r.gone) \cup RowsAt(b, r.list, r.first)
     /\ placing' = [t \in Sessions |->
          IF t \in Placing \ {s}
          THEN [placing[t] EXCEPT !.fresh = @ /\ placing[t].bundle # b] ELSE Null]
     /\ raced' = IF ~r.fresh THEN raced \cup {b}
                 ELSE IF Kept(r) = {} THEN raced \ {b} ELSE raced

GiveUp(s) ==
  /\ s \in Placing
  /\ placing' = [placing EXCEPT ![s] = Null]
  /\ UNCHANGED <<bundle, content, raced>>

CreateFromList(u, b, name, project, list) ==
  /\ NewId(b)
  /\ NameFree(u, b, name) /\ Insertable(b, list, {})
  /\ bundle' = [bundle EXCEPT ![b] =
                  [owner |-> u, name |-> name, public |-> FALSE, project |-> project]]
  /\ content' = content \cup RowsAt(b, list, 0)
  /\ UNCHANGED <<placing, raced>>

-----------------------------------------------------------------------------
BundlesInit ==
  /\ bundle = [b \in BundleIds |-> Null]
  /\ content = {}
  /\ placing = [s \in Sessions |-> Null]
  /\ raced = {}

Starts ==
  \E s \in Sessions, u \in Users, b \in BundleIds, list \in PatchLists :
    \/ StartAdding(s, u, b, list)
    \/ \E name \in Names \cup {Null}, public \in BOOLEAN \cup {Null} :
         StartReplacing(s, u, b, name, public, list)

Goes == \E s \in Sessions : DeleteRows(s) \/ Place(s) \/ GiveUp(s)

AtOnce ==
  \E u \in Users, b \in BundleIds :
    \/ \E name \in Names, public \in BOOLEAN, list \in PatchLists :
         CreateBundle(u, b, name, public, list)
    \/ \E name \in Names \cup {Null}, public \in BOOLEAN \cup {Null} :
         UpdateBundle(u, b, name, public)
    \/ DeleteBundle(u, b)
    \/ \E name \in Names, public \in BOOLEAN : BundleUpdate(u, b, name, public)
    \/ \E removed \in SUBSET Patches : RemovePatches(u, b, removed)
    \/ \E name \in Names, project \in Range(ProjectOf), list \in PatchLists :
         CreateFromList(u, b, name, project, list)

BundlesNext == Starts \/ Goes \/ AtOnce

BundlesSpec == BundlesInit /\ [][BundlesNext]_bundleVars

BundlesTypeOK ==
  /\ bundle \in [BundleIds -> [owner: Users, name: Names, public: BOOLEAN,
                               project: Range(ProjectOf)] \cup {Null}]
  /\ content \subseteq [bundle: {b \in BundleIds : bundle[b] # Null},
                        patch: Patches, order: 0..MaxOrder]
  /\ placing \in [Sessions -> {Null} \cup
                    [bundle: BundleIds, list: PatchLists, name: Names \cup {Null},
                     public: BOOLEAN \cup {Null}, project: Range(ProjectOf) \cup {Null},
                     first: 0..MaxOrder, gone: SUBSET [bundle: BundleIds,
                     patch: Patches, order: 0..MaxOrder], held: BOOLEAN, fresh: BOOLEAN]]
  /\ raced \subseteq BundleIds

\* No two patches of a bundle share a position, whatever was appended, removed
\* and replaced before, so that the mbox lists them in the user's order: unless
\* a request placed patches that had read the bundle before another one placed
\* its own; a replacement of all patches that is not overtaken mends that too.
OrdersDistinct ==
  \A r1, r2 \in content :
    r1.bundle = r2.bundle /\ r1.bundle \notin raced /\ r1.order = r2.order => r1 = r2

=============================================================================
