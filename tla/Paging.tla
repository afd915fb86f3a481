-------------------------------- MODULE Paging --------------------------------
(***************************************************************************)
(* The paged lists of the REST API (pkg/api) and the patch list of the web *)
(* interface (pkg/web/patches.go), read page by page while rows come and   *)
(* go.                                                                     *)
(*                                                                         *)
(* A GET request has no transaction (pkg/db/middleware.go): a page is two  *)
(* statements, one that counts the rows and one that skips the earlier     *)
(* pages by OFFSET, and each sees what was committed before it.  Rows get  *)
(* their ids when they are inserted and become visible when they are       *)
(* committed; on PostgreSQL transactions overlap and commit in any order.  *)
(***************************************************************************)
EXTENDS Patchwork, Integers, Sequences, SequencesExt

CONSTANTS
  PerPage,       \* rows of a page (offsetPage: per_page, at most the maximum)
  SortKeys,      \* values of the column that a list is sorted by
  MaxRows,       \* bound: rows ever inserted
  MaxPages       \* bound: pages a reader asks for

(***************************************************************************)
(* The lists: sorted by id, or by a column whose values are not unique;    *)
(* whether rows can leave them, deleted (other than with their project) or *)
(* triaged out of the filter, and come back; and whether the column of a   *)
(* row can change.                                                         *)
(***************************************************************************)
Newest(departs) ==
  [order |-> "newest", departs |-> departs, moves |-> FALSE, web |-> FALSE]
Oldest(departs) == [Newest(departs) EXCEPT !.order = "oldest"]

ListPatches       == Newest(TRUE)
ListCovers        == Newest(FALSE)
ListSeries        == Newest(FALSE)
ListEvents        == [Newest(TRUE) EXCEPT !.order = "column"]
ListBundles       == Oldest(TRUE)
ListChecks        == Oldest(FALSE)
ListPatchComments == Oldest(FALSE)
ListCoverComments == Oldest(FALSE)
ListPeople        == Oldest(FALSE)
ListUsers         == Oldest(TRUE)
ListProjects      == Oldest(TRUE)
ListWebhooks      == Oldest(TRUE)

\* applySort: the date, the name, the submitter, or the delegate and the state,
\* which change.
PatchList == [order |-> "column", departs |-> TRUE, moves |-> TRUE, web |-> TRUE]

Lists == {ListPatches, ListCovers, ListSeries, ListEvents, ListBundles,
          ListChecks, ListPatchComments, ListCoverComments, ListPeople,
          ListUsers, ListProjects, ListWebhooks, PatchList}

VARIABLES
  listing,    \* the list that is read
  visible,    \* the rows in the order in which a statement lists them
  pending,    \* ids given out and not in the list: not committed, or gone from it
  lastId,
  keys,       \* the key by which a row is sorted, in the list's direction
  walk,       \* the reader: page, count read for it, rows shown, done
  began,      \* history: the rows in the list when the reader began
  slipped     \* history: rows that left or moved, or slipped past the reader

pageVars == <<listing, visible, pending, lastId, keys, walk, began, slipped>>

-----------------------------------------------------------------------------
LastPage(total) == (total + PerPage - 1) \div PerPage

\* The page of the web list is at most the last one.
Asked(total) ==
  IF listing.web /\ walk.page > LastPage(total) /\ LastPage(total) > 0
  THEN LastPage(total) ELSE walk.page

\* Mutant: pages count from zero.
MutantOffset(page) == page * PerPage

Offset(page) == (page - 1) * PerPage

\* OFFSET and LIMIT.
PageOf(s, page) ==
  LET end == IF Offset(page) + PerPage < Len(s) THEN Offset(page) + PerPage ELSE Len(s)
  IN SubSeq(s, Offset(page) + 1, end)

\* rel="next" of the Link header, or the next page offered by the web list.
HasNext(page, total) ==
  page < (IF LastPage(total) < 1 THEN 1 ELSE LastPage(total))

-----------------------------------------------------------------------------
(* Rows come, go and change places.                                        *)

\* A row that goes from an earlier page pulls one over the reader's place.
Pulled(at) ==
  IF at <= Offset(walk.page) /\ Offset(walk.page) < Len(visible)
  THEN {visible[Offset(walk.page) + 1]} ELSE {}

\* A row that comes in between the count and what is by it the last page pushes
\* one out of that page.
Pushed(s) ==
  LET end == LastPage(walk.total) * PerPage
  IN IF walk.total # Null /\ ~HasNext(walk.page, walk.total) /\ end < Len(s)
     THEN {s[end + 1]} ELSE {}

\* By which keys a row may be sorted.
KeysOf(id) ==
  CASE listing.order = "oldest" -> {id}
    [] listing.order = "newest" -> {MaxRows - id}
    [] listing.order = "column" -> SortKeys

InOrder(s, by) == \A i, j \in DOMAIN s : i < j => by[s[i]] <= by[s[j]]

Insert ==
  /\ lastId < MaxRows
  /\ lastId' = lastId + 1
  /\ \E k \in KeysOf(lastId') : keys' = [keys EXCEPT ![lastId'] = k]
  /\ pending' = pending \cup {lastId'}
  /\ UNCHANGED <<listing, visible, walk, began, slipped>>

\* A row comes, or comes back, into the list.
CommitRow ==
  \E id \in pending, at \in 1..(Len(visible) + 1) :
    /\ visible' = InsertAt(visible, at, id)
    /\ InOrder(visible', keys)
    /\ pending' = pending \ {id}
    /\ slipped' = slipped \cup Pushed(visible')
    /\ UNCHANGED <<listing, lastId, keys, walk, began>>

Depart ==
  \E at \in DOMAIN visible :
    /\ listing.departs
    /\ visible' = RemoveAt(visible, at)
    /\ pending' = pending \cup {visible[at]}
    /\ slipped' = slipped \cup {visible[at]} \cup Pulled(at)
    /\ UNCHANGED <<listing, lastId, keys, walk, began>>

\* A row moves to the place of its new key.
Move ==
  \E at, to \in DOMAIN visible, k \in SortKeys :
    LET id == visible[at]
    IN /\ listing.moves
       /\ keys' = [keys EXCEPT ![id] = k]
       /\ visible' = InsertAt(RemoveAt(visible, at), to, id)
       /\ InOrder(visible', keys')
       /\ slipped' = slipped \cup {id} \cup Pulled(at) \cup Pushed(visible')
       /\ UNCHANGED <<listing, pending, lastId, walk, began>>

\* Two rows of the same key: the next statement may list them the other way.
Swap ==
  \E at \in 1..(Len(visible) - 1) :
    /\ keys[visible[at]] = keys[visible[at + 1]]
    /\ visible' = [visible EXCEPT ![at] = visible[at + 1], ![at + 1] = visible[at]]
    /\ slipped' = slipped \cup (IF at = Offset(walk.page) THEN Pulled(at) ELSE {})
                          \cup Pushed(visible')
    /\ UNCHANGED <<listing, pending, lastId, keys, walk, began>>

RollbackRow ==
  \E id \in pending :
    /\ pending' = pending \ {id}
    /\ UNCHANGED <<listing, visible, lastId, keys, walk, began, slipped>>

-----------------------------------------------------------------------------
(* The reader.                                                             *)

Count ==
  /\ ~walk.done /\ walk.total = Null
  /\ walk.page <= MaxPages
  /\ walk' = [walk EXCEPT !.total = Len(visible)]
  /\ began' = IF walk.page = 1 THEN Range(visible) ELSE began
  /\ slipped' = IF walk.page = 1 THEN {} ELSE slipped
  /\ UNCHANGED <<listing, visible, pending, lastId, keys>>

\* The page is shown, and the reader follows the link to the next one.
Show ==
  /\ walk.total # Null
  /\ LET page == Asked(walk.total)
         more == HasNext(page, walk.total)
     IN walk' = [page  |-> page + 1,
                 total |-> Null,
                 shown |-> walk.shown \o PageOf(visible, page),
                 done  |-> ~more]
  /\ UNCHANGED <<listing, visible, pending, lastId, keys, began, slipped>>

-----------------------------------------------------------------------------
PagingInit ==
  /\ listing \in Lists
  /\ \E n \in 0..MaxRows :
       /\ visible \in {[i \in 1..n |-> i], Reverse([i \in 1..n |-> i])}
       /\ lastId = n
       /\ keys \in {by \in [1..MaxRows -> SortKeys \cup 0..MaxRows] :
                     \A id \in 1..MaxRows : IF id <= n THEN by[id] \in KeysOf(id)
                                           ELSE by[id] = 0}
       /\ InOrder(visible, keys)
  /\ pending = {}
  /\ walk = [page |-> 1, total |-> Null, shown |-> <<>>, done |-> FALSE]
  /\ began = {}
  /\ slipped = {}

PagingNext ==
  Insert \/ CommitRow \/ RollbackRow \/ Depart \/ Move \/ Swap \/ Count \/ Show

PagingSpec == PagingInit /\ [][PagingNext]_pageVars

\* A reader who follows the links to the end has been shown every row that was
\* there when they began, whatever was inserted between two pages and in
\* whatever order it was committed; a row can only be missed that left or moved
\* itself, or that one other row made slip: by going from an earlier page, by
\* taking its place among equals at a page's edge, or by coming in between the
\* count and the last page.
NothingIsMissed == walk.done => began \ slipped \subseteq Range(walk.shown)

=============================================================================
