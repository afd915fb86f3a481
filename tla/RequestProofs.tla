----------------------------- MODULE RequestProofs ----------------------------
(***************************************************************************)
(* Proofs about requests, for any number of sessions whose statements      *)
(* interleave.  Triage: types and foreign keys, every change is made by    *)
(* somebody who may make it, events tell of committed changes only, a list *)
(* of related patches ends in one relation, and an update of relations     *)
(* that no other one overlaps with moves no patch and leaves no relation   *)
(* of one.  Bundles: types, and no two patches of a bundle share a         *)
(* position unless requests that place patches in it overlapped.  Checks:  *)
(* types, and a report is announced as created exactly once.  Paging: a    *)
(* reader who follows the links to the end misses no row, except those     *)
(* that slipped past.                                                      *)
(***************************************************************************)
EXTENDS Triage, Checks, Bundles, Paging, FiniteSetTheorems, SequenceTheorems,
        WellFoundedInduction, TLAPS

(***************************************************************************)
(*                                 Triage                                  *)
(***************************************************************************)

\* What the proofs assume of the constants: Null is no row of a table and no
\* list, there are finitely many patches, and the fields of a request's body, or
\* of a form, that are not left out have the types of the columns; related is a
\* list.
Tracker ==
  /\ InitialState \in States /\ MaxRelations \in Nat
  /\ Null \notin Rows \cup {<<>>} /\ IsFiniteSet(Patches)
  /\ \A body \in Bodies \cup Forms \cup ListForms :
       /\ body.state \in States \cup {Null}
       /\ body.delegate \in Users \cup {Null}
       /\ body.archived \in BOOLEAN \cup {Null}
  /\ \E Ids : \A body \in Bodies : body.related \in Seq(Ids) \cup {Null}

(***************************************************************************)
(* The invariant, part by part.  A request is a record r; its parts speak  *)
(* of the record and of the tables, so that a step of one session is seen  *)
(* by the others only through the tables.                                  *)
(***************************************************************************)

\* The row that a statement of the request reads.
SeenBy(r, q) == IF r.written[q] # Null THEN r.written[q] ELSE patch[q]

HasList(r) == r.body.related \notin {Null, <<>>}

\* The items of the list that have been looked at.
Looked(r) ==
  CASE r.at = "look"                      -> {j \in 1..Len(r.body.related) : j < r.item}
    [] r.at = "adopt"                     -> {j \in 1..Len(r.body.related) : j <= r.item}
    [] r.at \in {"create", "put", "commit"} -> 1..Len(r.body.related)
    [] OTHER                              -> {}

\* It has loaded a patch that its user maintains, and of the other patches it
\* writes only the relation.
WritesItsOwn(r) ==
  /\ IsMaintainer(r.user, r.patch)
  /\ \A q \in Patches \ {r.patch} : r.written[q] # Null
       => [r.written[q] EXCEPT !.related = 0] = [patch[q] EXCEPT !.related = 0]

\* What it has written refers to relations that will be there when it commits,
\* and nothing refers to those it has deleted.
RefersToRows(r) ==
  /\ r.related \in 0..relations.last
  /\ r.born \subseteq 1..relations.last
  /\ r.dropped \subseteq 1..relations.last
  /\ \A q \in Patches : r.written[q] # Null
       => r.written[q].related \in ({0} \cup relations.ids \cup r.born) \ r.dropped
  /\ \A q \in Patches : patch[q].related \in r.dropped => r.written[q] # Null

\* The columns of the body are written first.
WritesTheBody(r) ==
  /\ r.at = "write"
       => /\ \A q \in Patches : r.written[q] = Null
          /\ r.related = r.row.related /\ r.item = 1
  /\ r.at # "write" /\ r.body.state # Null
       => r.written[r.patch] # Null /\ r.written[r.patch].state = r.body.state
  /\ r.at # "write" /\ r.body.delegate # Null
       => r.written[r.patch] # Null /\ r.written[r.patch].delegate = r.body.delegate
  /\ r.at # "commit" => r.dropped = {}

\* A body without a list leaves relations alone.
LeavesRelations(r) ==
  r.body.related = Null
    => /\ r.at \in {"write", "commit"} /\ r.born = {} /\ r.dropped = {}
       /\ \A q \in Patches : r.written[q] # Null => r.written[q].related = patch[q].related

\* The statements of an empty list, and of one with patches.
FollowsTheList(r) ==
  /\ r.body.related = <<>>
       => /\ r.at \in {"write", "leave", "count", "dissolve", "commit"} /\ r.born = {}
          /\ r.related = r.row.related
          /\ r.at \in {"leave", "count", "dissolve"} => r.related # 0
  /\ HasList(r)
       => /\ r.at \in {"write", "look", "adopt", "create", "put", "commit"}
          /\ r.at = "commit" => r.item = Len(r.body.related) + 1
          /\ r.at # "commit" => r.item \in 1..Len(r.body.related)
          /\ \A j \in Looked(r) : r.body.related[j] \in Patches
          /\ r.dropped = {}
          /\ r.row.related # 0 => r.related = r.row.related
          /\ r.at \in {"adopt", "put", "commit"} => r.related # 0
          /\ r.at = "adopt" => r.row.related = 0
          /\ r.at = "create" => r.related = 0 /\ r.item = 1
          /\ r.at \in {"write", "look", "adopt", "create"} => r.born = {}

\* Whoever was in no relation, and whoever has been put, is in that of the list.
PutsTogether(r) ==
  HasList(r)
    => /\ r.at \in {"look", "put", "commit"} /\ r.row.related = 0 /\ r.related # 0
            => r.written[r.patch] # Null /\ r.written[r.patch].related = r.related
       /\ r.at \in {"put", "commit"}
            => \A j \in 1..Len(r.body.related) : j < r.item
                 => LET q == r.body.related[j]
                    IN r.written[q] # Null /\ r.written[q].related = r.related

\* What an update that is alone does to relations.
EndsWell(r) ==
  /\ \A q \in Patches : patch[q].related # 0 => SeenBy(r, q).related \in {patch[q].related, 0}
  /\ \A id \in relations.ids :
       LET now == {q \in Patches : SeenBy(r, q).related = id}
       IN Cardinality(Members(Rel, id)) > 1 /\ Cardinality(now) < 2
            => now = {} /\ id \in r.dropped

KeepsRelations(r) ==
  r.alone /\ r.body.related # Null
    => /\ r.row.related = patch[r.patch].related
       /\ r.at \in {"write", "leave"}
            => \A q \in Patches : SeenBy(r, q).related = patch[q].related
       /\ r.at \in {"count", "dissolve"}
            => /\ SeenBy(r, r.patch).related = 0
               /\ \A q \in Patches \ {r.patch} : SeenBy(r, q).related = patch[q].related
       /\ HasList(r)
            => /\ \A q \in Patches : patch[q].related # 0
                    => SeenBy(r, q).related = patch[q].related
               /\ \A j \in Looked(r) :
                    patch[r.body.related[j]].related \in {0, r.related}
       /\ r.body.related = <<>> /\ r.at = "commit" => EndsWell(r)

Sound(r) ==
  /\ WritesItsOwn(r) /\ RefersToRows(r) /\ WritesTheBody(r) /\ LeavesRelations(r)
  /\ FollowsTheList(r) /\ PutsTogether(r) /\ KeepsRelations(r)

\* No row is written by two requests, nothing refers to what another one has
\* deleted, and a request is alone if no other updates relations.
Apart(r, o) ==
  /\ \A q \in Patches : r.written[q] # Null
       => o.written[q] = Null /\ r.written[q].related \notin o.dropped
  /\ r.alone => o.body.related = Null

TriageInvariant ==
  /\ TriageTypeOK
  /\ \A s \in Begun : Sound(request[s])
  /\ \A s, t \in Begun : s # t => Apart(request[s], request[t])

(***************************************************************************)
(* The parts of the invariant, as the tables change around a request.      *)
(***************************************************************************)

\* A row of its own is not Null, and neither is the row it is read as.
LEMMA SeenFacts ==
  ASSUME Tracker, TriageTypeOK, NEW r \in Requests, NEW q \in Patches
  PROVE  /\ SeenBy(r, q) \in Rows /\ SeenBy(r, q).related \in Nat
         /\ patch[q] \in Rows /\ patch[q].related \in {0} \cup relations.ids
         /\ r.written[q] \in Rows \cup {Null}
         /\ 0 \notin relations.ids
<1>1. /\ patch[q] \in Rows /\ patch[q].related \in {0} \cup relations.ids
      /\ r.written[q] \in Rows \cup {Null}
  BY DEF TriageTypeOK, Requests
<1>2. SeenBy(r, q) \in Rows
  BY <1>1 DEF SeenBy
<1>3. SeenBy(r, q).related \in Nat
  BY <1>2 DEF Rows
<1>4. 0 \notin relations.ids
  BY DEF TriageTypeOK
<1> QED BY <1>1, <1>2, <1>3, <1>4

\* What the other sessions do to a request: its rows are locked, its relations
\* referred to, and, while it is alone, no relation changes.
Undisturbed(r) ==
  /\ \A q \in Patches : r.written[q] # Null => patch'[q] = patch[q]
  /\ r.alone /\ r.body.related # Null
       => /\ \A q \in Patches : patch'[q].related = patch[q].related
          /\ relations'.ids = relations.ids

Referred(r) ==
  /\ relations.last \in Nat /\ relations'.last \in Nat
  /\ relations.last <= relations'.last
  /\ \A q \in Patches : r.written[q] # Null /\ r.written[q].related \in relations.ids
       => r.written[q].related \in relations'.ids
  /\ \A q \in Patches : patch'[q].related \in r.dropped
       => patch[q].related \in r.dropped \/ r.written[q] # Null

LEMMA RefersStays ==
  ASSUME NEW r \in Requests, RefersToRows(r), Referred(r)
  PROVE  RefersToRows(r)'
<1>1. /\ r.related \in 0..relations'.last
      /\ r.born \subseteq 1..relations'.last
      /\ r.dropped \subseteq 1..relations'.last
  BY DEF RefersToRows, Referred
<1>2. ASSUME NEW q \in Patches, r.written[q] # Null
      PROVE  r.written[q].related \in ({0} \cup relations'.ids \cup r.born) \ r.dropped
  BY <1>2 DEF RefersToRows, Referred
<1>3. ASSUME NEW q \in Patches, patch'[q].related \in r.dropped
      PROVE  r.written[q] # Null
  BY <1>3 DEF RefersToRows, Referred
<1> QED BY <1>1, <1>2, <1>3 DEF RefersToRows

LEMMA EndStays ==
  ASSUME NEW r \in Requests, EndsWell(r), Undisturbed(r), r.alone, r.body.related # Null
  PROVE  EndsWell(r)'
<1>1. /\ \A q \in Patches : patch'[q].related = patch[q].related
      /\ relations'.ids = relations.ids
  BY DEF Undisturbed
<1>2. \A q \in Patches : SeenBy(r, q)'.related = SeenBy(r, q).related
  BY <1>1 DEF SeenBy
<1>3. ASSUME NEW id PROVE Members(Rel, id)' = Members(Rel, id)
  BY <1>1 DEF Members, Rel
<1>4. ASSUME NEW id
      PROVE  {q \in Patches : SeenBy(r, q).related = id}' = {q \in Patches : SeenBy(r, q).related = id}
  BY <1>2
<1>5. \A q \in Patches : patch'[q].related # 0
        => SeenBy(r, q)'.related \in {patch'[q].related, 0}
  BY <1>1, <1>2 DEF EndsWell
<1>6. ASSUME NEW id \in relations'.ids,
             Cardinality(Members(Rel, id)') > 1,
             Cardinality({q \in Patches : SeenBy(r, q).related = id}') < 2
      PROVE  /\ {q \in Patches : SeenBy(r, q).related = id}' = {}
             /\ id \in r.dropped
  <2>1. /\ Cardinality(Members(Rel, id)) > 1
        /\ Cardinality({q \in Patches : SeenBy(r, q).related = id}) < 2
    BY <1>3, <1>4, <1>6
  <2>2. id \in relations.ids
    BY <1>1
  <2>3. {q \in Patches : SeenBy(r, q).related = id} = {} /\ id \in r.dropped
    BY <2>1, <2>2 DEF EndsWell
  <2> QED BY <1>4, <2>3
<1> QED BY <1>5, <1>6 DEF EndsWell

LEMMA OthersStay ==
  ASSUME NEW r \in Requests, Sound(r), Undisturbed(r)
  PROVE  /\ WritesItsOwn(r)' /\ WritesTheBody(r)' /\ LeavesRelations(r)'
         /\ FollowsTheList(r)' /\ PutsTogether(r)' /\ KeepsRelations(r)'
<1>1. WritesItsOwn(r)'
  BY DEF Sound, WritesItsOwn, Undisturbed, IsMaintainer
<1>2. WritesTheBody(r)'
  BY DEF Sound, WritesTheBody
<1>3. LeavesRelations(r)'
  BY DEF Sound, LeavesRelations, Undisturbed
<1>4. FollowsTheList(r)'
  BY DEF Sound, FollowsTheList, HasList, Looked
<1>5. PutsTogether(r)'
  BY DEF Sound, PutsTogether, HasList
<1>6. ASSUME r.alone, r.body.related # Null
      PROVE  KeepsRelations(r)'
  <2>1. \A q \in Patches : patch'[q].related = patch[q].related
    BY <1>6 DEF Undisturbed
  <2>2. \A q \in Patches : SeenBy(r, q)'.related = SeenBy(r, q).related
    BY <2>1 DEF SeenBy
  <2>3. r.patch \in Patches
    BY DEF Requests
  <2>4. /\ r.row.related = patch'[r.patch].related
        /\ r.at \in {"write", "leave"}
             => \A q \in Patches : SeenBy(r, q)'.related = patch'[q].related
        /\ r.at \in {"count", "dissolve"}
             => /\ SeenBy(r, r.patch)'.related = 0
                /\ \A q \in Patches \ {r.patch} : SeenBy(r, q)'.related = patch'[q].related
    BY <1>6, <2>1, <2>2, <2>3 DEF Sound, KeepsRelations
  <2>5. ASSUME HasList(r)
        PROVE  /\ \A q \in Patches : patch'[q].related # 0
                    => SeenBy(r, q)'.related = patch'[q].related
               /\ \A j \in Looked(r) :
                    patch'[r.body.related[j]].related \in {0, r.related}
    <3>1. \A j \in Looked(r) : r.body.related[j] \in Patches
      BY <2>5 DEF Sound, FollowsTheList
    <3> QED BY <1>6, <2>1, <2>2, <2>5, <3>1 DEF Sound, KeepsRelations
  <2>6. r.body.related = <<>> /\ r.at = "commit" => EndsWell(r)'
    BY <1>6, EndStays DEF Sound, KeepsRelations
  <2>7. HasList(r)' = HasList(r) /\ Looked(r)' = Looked(r)
    BY DEF HasList, Looked
  <2> QED BY <2>4, <2>5, <2>6, <2>7 DEF KeepsRelations
<1>7. ~(r.alone /\ r.body.related # Null) => KeepsRelations(r)'
  BY DEF KeepsRelations
<1> QED BY <1>1, <1>2, <1>3, <1>4, <1>5, <1>6, <1>7

\* A request stays sound while others work.
LEMMA SoundStays ==
  ASSUME NEW r \in Requests, Sound(r), Undisturbed(r), Referred(r)
  PROVE  Sound(r)'
BY OthersStay, RefersStays DEF Sound

(***************************************************************************)
(* A statement of an update: a request r becomes r2.                       *)
(***************************************************************************)

SameUpdate(r, r2) ==
  /\ r2.user = r.user /\ r2.patch = r.patch /\ r2.body = r.body /\ r2.row = r.row
  /\ r2.alone = r.alone

\* What a statement adds to the written rows: rows that are not locked, and
\* that refer to no relation another session has deleted.
Fits(s, r2) ==
  \A q \in Patches : r2.written[q] # Null =>
    /\ request[s].written[q] # Null \/ LockedBy(q) \subseteq {s}
    /\ \A t \in Begun \ {s} : r2.written[q].related \notin request[t].dropped

\* Nobody else's rows refer to what the request has deleted.
Frees(s, r2) ==
  \A t \in Begun \ {s}, q \in Patches : request[t].written[q] # Null
    => request[t].written[q].related \notin r2.dropped

LEMMA Typed ==
  ASSUME TriageTypeOK, NEW s \in Begun
  PROVE  /\ s \in Sessions /\ request[s] \in Requests
         /\ request[s].patch \in Patches /\ request[s].body \in Bodies
         /\ request[s].item \in Nat \ {0} /\ request[s].related \in Nat
         /\ request[s].row \in Rows
         /\ request[s].written \in [Patches -> Rows \cup {Null}]
BY DEF TriageTypeOK, Begun, Requests

LEMMA StaysApart ==
  ASSUME TriageInvariant, NEW s \in Begun, NEW r2 \in Requests,
         SameUpdate(request[s], r2), Fits(s, r2), Frees(s, r2), NEW t \in Begun \ {s}
  PROVE  Apart(r2, request[t]) /\ Apart(request[t], r2)
<1>1. Apart(request[s], request[t]) /\ Apart(request[t], request[s])
  BY DEF TriageInvariant
<1>2. \A q \in Patches : request[s].written[q] # Null => request[t].written[q] = Null
  BY <1>1 DEF Apart
<1>3. ASSUME NEW q \in Patches, r2.written[q] # Null
      PROVE  request[t].written[q] = Null /\ r2.written[q].related \notin request[t].dropped
  <2>1. request[s].written[q] # Null \/ LockedBy(q) \subseteq {s}
    BY <1>3 DEF Fits
  <2>2. r2.written[q].related \notin request[t].dropped
    BY <1>3 DEF Fits
  <2> QED BY <1>2, <2>1, <2>2 DEF LockedBy
<1>4. /\ r2.alone => request[t].body.related = Null
      /\ request[t].alone => r2.body.related = Null
  BY <1>1 DEF Apart, SameUpdate
<1>5. \A q \in Patches : request[t].written[q] # Null
        => r2.written[q] = Null /\ request[t].written[q].related \notin r2.dropped
  BY <1>3 DEF Frees
<1> QED BY <1>3, <1>4, <1>5 DEF Apart

LEMMA StatementKeeps ==
  ASSUME TriageInvariant, NEW s \in Begun, NEW r2 \in Requests,
         request' = [request EXCEPT ![s] = r2], UNCHANGED <<patch, addressed>>,
         relations'.ids = relations.ids, relations'.last \in relations.last..MaxRelations,
         relations' \in [ids: SUBSET (1..MaxRelations), last: 0..MaxRelations],
         SameUpdate(request[s], r2), Fits(s, r2), Frees(s, r2), Sound(r2)'
  PROVE  TriageInvariant'
<1>1. TriageTypeOK /\ s \in Sessions /\ request \in [Sessions -> Requests \cup {Null}]
  BY DEF TriageInvariant, TriageTypeOK, Begun
<1>2. /\ request' \in [Sessions -> Requests \cup {Null}] /\ request'[s] = r2
      /\ \A t \in Sessions \ {s} : request'[t] = request[t]
  BY <1>1
<1>3. TriageTypeOK'
  <2>1. \A id \in relations.ids : id <= relations.last /\ id \in 1..MaxRelations
    BY <1>1 DEF TriageTypeOK
  <2>2. relations.last \in Nat
    BY <1>1 DEF TriageTypeOK
  <2>3. \A id \in relations'.ids : id <= relations'.last
    BY <2>1, <2>2
  <2> QED BY <1>1, <1>2, <2>3 DEF TriageTypeOK
<1>4. \A t \in Begun' : t \in Begun
  BY <1>2 DEF Begun
<1>5. ASSUME NEW t \in Begun'
      PROVE  Sound(request[t])'
  <2>1. CASE t = s
    BY <1>2, <2>1
  <2>2. CASE t # s
    <3>1. t \in Begun /\ request'[t] = request[t]
      BY <1>2, <1>4, <2>2 DEF Begun
    <3>2. PICK o \in Requests : o = request[t]
      BY <1>1, <3>1, Typed
    <3>3. Sound(o)
      BY <3>1, <3>2 DEF TriageInvariant
    <3>4. Undisturbed(o)
      BY DEF Undisturbed
    <3>5. Referred(o)
      <4>1. relations.last \in Nat
        BY <1>1 DEF TriageTypeOK
      <4> QED BY <4>1 DEF Referred
    <3>6. Sound(o)'
      BY <3>3, <3>4, <3>5, SoundStays
    <3> QED BY <3>1, <3>2, <3>6
  <2> QED BY <2>1, <2>2
<1>6. ASSUME NEW t \in Begun', NEW u \in Begun', t # u
      PROVE  Apart(request[t], request[u])'
  <2>1. t \in Begun /\ u \in Begun
    BY <1>4
  <2>2. CASE t = s
    <3>1. Apart(r2, request[u])
      BY <1>6, <2>1, <2>2, StaysApart
    <3>2. request'[t] = r2 /\ request'[u] = request[u]
      BY <1>2, <1>6, <2>1, <2>2 DEF Begun
    <3> QED BY <3>1, <3>2 DEF Apart
  <2>3. CASE u = s
    <3>1. Apart(request[t], r2)
      BY <1>6, <2>1, <2>3, StaysApart
    <3>2. request'[u] = r2 /\ request'[t] = request[t]
      BY <1>2, <1>6, <2>1, <2>3 DEF Begun
    <3> QED BY <3>1, <3>2 DEF Apart
  <2>4. CASE t # s /\ u # s
    <3>1. Apart(request[t], request[u])
      BY <1>6, <2>1 DEF TriageInvariant
    <3>2. request'[u] = request[u] /\ request'[t] = request[t]
      BY <1>2, <2>1, <2>4 DEF Begun
    <3> QED BY <3>1, <3>2 DEF Apart
  <2> QED BY <2>2, <2>3, <2>4
<1> QED BY <1>3, <1>5, <1>6 DEF TriageInvariant

\* The same, for a statement that inserts no relation.
LEMMA PlainStatement ==
  ASSUME TriageInvariant, NEW s \in Begun, NEW r2 \in Requests,
         request' = [request EXCEPT ![s] = r2], UNCHANGED <<patch, relations, addressed>>,
         SameUpdate(request[s], r2), Fits(s, r2), Frees(s, r2), Sound(r2)
  PROVE  TriageInvariant'
<1>1. /\ relations \in [ids: SUBSET (1..MaxRelations), last: 0..MaxRelations]
      /\ relations.last \in Nat
  BY DEF TriageInvariant, TriageTypeOK
<1>2. Undisturbed(r2) /\ Referred(r2)
  BY <1>1 DEF Undisturbed, Referred
<1>3. Sound(r2)'
  BY <1>2, SoundStays
<1>4. relations'.last \in relations.last..MaxRelations
  BY <1>1
<1> QED BY <1>1, <1>3, <1>4, StatementKeeps

\* A statement that writes nothing, or one row, and deletes nothing.
LEMMA FitsAsBefore ==
  ASSUME TriageInvariant, NEW s \in Begun, NEW r2 \in Requests,
         r2.written = request[s].written, r2.dropped = request[s].dropped
  PROVE  Fits(s, r2) /\ Frees(s, r2)
<1>1. \A t \in Begun \ {s} : Apart(request[s], request[t]) /\ Apart(request[t], request[s])
  BY DEF TriageInvariant
<1> QED BY <1>1 DEF Fits, Frees, Apart

LEMMA FitsOneRow ==
  ASSUME TriageInvariant, NEW s \in Begun, NEW r2 \in Requests, NEW p \in Patches,
         NEW row \in Rows,
         r2.written = [request[s].written EXCEPT ![p] = row],
         r2.dropped = request[s].dropped, LockedBy(p) \subseteq {s},
         \A t \in Begun \ {s} : row.related \notin request[t].dropped
  PROVE  Fits(s, r2) /\ Frees(s, r2)
<1>1. \A t \in Begun \ {s} : Apart(request[s], request[t]) /\ Apart(request[t], request[s])
  BY DEF TriageInvariant
<1>2. request[s].written \in [Patches -> Rows \cup {Null}]
  BY Typed DEF TriageInvariant
<1>3. \A q \in Patches : r2.written[q] = IF q = p THEN row ELSE request[s].written[q]
  BY <1>2
<1>4. Fits(s, r2)
  BY <1>1, <1>3 DEF Fits, Apart
<1>5. Frees(s, r2)
  BY <1>1 DEF Frees, Apart
<1> QED BY <1>4, <1>5

\* A row that is not locked by others refers to no relation another has deleted.
LEMMA ReadsNoDeleted ==
  ASSUME TriageInvariant, NEW s \in Begun, NEW p \in Patches, LockedBy(p) \subseteq {s},
         NEW t \in Begun \ {s}
  PROVE  SeenBy(request[s], p).related \notin request[t].dropped
<1>1. Apart(request[s], request[t])
  BY DEF TriageInvariant
<1>2. request[t].written[p] = Null
  BY DEF LockedBy
<1>3. RefersToRows(request[t])
  BY DEF TriageInvariant, Sound
<1>4. patch[p].related \notin request[t].dropped
  BY <1>2, <1>3 DEF RefersToRows
<1> QED BY <1>1, <1>4 DEF Apart, SeenBy

(***************************************************************************)
(* The columns of the body.                                                *)
(***************************************************************************)

LEMMA UpdatedFacts ==
  ASSUME Tracker, NEW row \in Rows, NEW body \in Bodies \cup Forms \cup ListForms
  PROVE  /\ Updated(row, body) \in Rows
         /\ Updated(row, body).related = row.related
         /\ body.state # Null => Updated(row, body).state = body.state
         /\ body.delegate # Null => Updated(row, body).delegate = body.delegate
<1>1. /\ Given(body.state, row.state) \in States
      /\ Given(body.delegate, row.delegate) \in Users \cup {Null}
      /\ Given(body.archived, row.archived) \in BOOLEAN
  BY DEF Tracker, Given, Rows
<1>2. Updated(row, body) = [row EXCEPT !.state    = Given(body.state, row.state),
                                       !.delegate = Given(body.delegate, row.delegate),
                                       !.archived = Given(body.archived, row.archived)]
  BY DEF Updated, Rows
<1> QED BY <1>1, <1>2 DEF Rows, Given

\* There are finitely many patches in a relation.
LEMMA MembersCount ==
  ASSUME Tracker, NEW rel, NEW id
  PROVE  /\ IsFiniteSet(Members(rel, id)) /\ Cardinality(Members(rel, id)) \in Nat
<1>1. Members(rel, id) \subseteq Patches /\ IsFiniteSet(Patches)
  BY DEF Members, Tracker
<1> QED BY <1>1, FS_Subset, FS_CardinalityType

\* A list is a sequence.
LEMMA ListFacts ==
  ASSUME Tracker, NEW r \in Requests
  PROVE  /\ Len(r.body.related) \in Nat \/ r.body.related = Null
         /\ HasList(r) => Len(r.body.related) \in Nat /\ 1 <= Len(r.body.related)
         /\ HasList(r) \/ r.body.related = <<>> \/ r.body.related = Null
         /\ HasList(r) => Range(r.body.related)
                            = {r.body.related[j] : j \in 1..Len(r.body.related)}
<1> PICK Ids : \A body \in Bodies : body.related \in Seq(Ids) \cup {Null}
  BY DEF Tracker
<1>1. r.body.related \in Seq(Ids) \cup {Null}
  BY DEF Requests
<1>2. CASE r.body.related = Null
  BY <1>2 DEF HasList
<1>3. CASE r.body.related # Null
  <2> DEFINE list == r.body.related
  <2>1. list \in Seq(Ids) /\ (HasList(r) <=> list # <<>>)
    BY <1>1, <1>3 DEF HasList
  <2> HIDE DEF list
  <2>2. Len(list) \in Nat /\ DOMAIN list = 1..Len(list)
    BY <2>1
  <2>3. list # <<>> => Len(list) # 0
    BY <2>1
  <2>4. Range(list) = {list[j] : j \in 1..Len(list)}
    BY <2>2 DEF Range
  <2> QED BY <2>1, <2>2, <2>3, <2>4 DEF list
<1> QED BY <1>2, <1>3

\* The request after its first statement.
LEMMA FirstStatement ==
  ASSUME Tracker, TriageTypeOK, NEW r \in Requests, Sound(r), r.at = "write",
         NEW r2 \in Requests, SameUpdate(r, r2), r2.at = FirstOfRelated(r),
         r2.related = r.related, r2.born = r.born, r2.dropped = r.dropped,
         r2.item = r.item,
         NEW row \in Rows, row.related = patch[r.patch].related,
         \/ r2.written = r.written /\ r.body.state = Null /\ r.body.delegate = Null
         \/ /\ r2.written = [r.written EXCEPT ![r.patch] = row]
            /\ r.body.state # Null => row.state = r.body.state
            /\ r.body.delegate # Null => row.delegate = r.body.delegate
  PROVE  Sound(r2)
<1>1. /\ r.patch \in Patches /\ r.written \in [Patches -> Rows \cup {Null}]
      /\ r.row \in Rows /\ r.row.related \in Nat
      /\ \A q \in Patches : r.written[q] = Null
      /\ r.related = r.row.related /\ r.item = 1 /\ r.dropped = {}
  BY DEF Requests, Rows, Sound, WritesTheBody
<1>2. \A q \in Patches : r2.written[q] # Null => q = r.patch /\ r2.written[q] = row
  BY <1>1
<1>3. \A q \in Patches : SeenBy(r2, q).related = patch[q].related
  BY <1>2 DEF SeenBy
<1>4. row # Null
  BY DEF Tracker
<1>5. /\ r2.at # "write"
      /\ r.body.related = Null => r2.at = "commit"
      /\ r.body.related = <<>> /\ r.related = 0 => r2.at = "commit"
      /\ r.body.related = <<>> => r2.at \in {"commit", "leave"}
      /\ HasList(r) => r2.at = "look"
      /\ HasList(r) \/ r.body.related = <<>> \/ r.body.related = Null
  <2>1. CASE r.body.related = Null
    BY <2>1 DEF FirstOfRelated, HasList, Tracker
  <2>2. CASE r.body.related # Null /\ r.body.related = <<>>
    <3>1. FirstOfRelated(r) = IF r.related = 0 THEN "commit" ELSE "leave"
      BY <2>2 DEF FirstOfRelated, Tracker
    <3> QED BY <2>2, <3>1 DEF HasList
  <2>3. CASE HasList(r)
    <3>1. r.body.related # Null /\ r.body.related # <<>>
      BY <2>3 DEF HasList
    <3>2. FirstOfRelated(r) = "look"
      BY <3>1 DEF FirstOfRelated
    <3> QED BY <2>3, <3>1, <3>2
  <2> QED BY <2>1, <2>2, <2>3 DEF HasList
<1>6. WritesItsOwn(r2)
  BY <1>2 DEF Sound, WritesItsOwn, SameUpdate
<1>7. RefersToRows(r2)
  <2>1. patch[r.patch].related \in {0} \cup relations.ids
    BY <1>1 DEF TriageTypeOK
  <2>2. \A q \in Patches : r2.written[q] # Null
          => r2.written[q].related \in ({0} \cup relations.ids \cup r2.born) \ r2.dropped
    BY <1>1, <1>2, <2>1
  <2> QED BY <1>1, <2>2 DEF Sound, RefersToRows
<1>8. WritesTheBody(r2)
  <2>1. r.body.state # Null => r2.written[r.patch] # Null /\ r2.written[r.patch].state = r.body.state
    BY <1>1, <1>4
  <2>2. r.body.delegate # Null
          => r2.written[r.patch] # Null /\ r2.written[r.patch].delegate = r.body.delegate
    BY <1>1, <1>4
  <2> QED BY <1>1, <1>5, <2>1, <2>2 DEF WritesTheBody, SameUpdate
<1>9. LeavesRelations(r2)
  BY <1>1, <1>2, <1>5 DEF Sound, LeavesRelations, SameUpdate
<1>10. FollowsTheList(r2)
  <2>1. r.body.related = <<>> \/ HasList(r) => r.born = {}
    BY DEF Sound, FollowsTheList
  <2>2. r2.body.related = <<>>
       => /\ r2.at \in {"write", "leave", "count", "dissolve", "commit"} /\ r2.born = {}
          /\ r2.related = r2.row.related
          /\ r2.at \in {"leave", "count", "dissolve"} => r2.related # 0
    BY <1>1, <1>5, <2>1 DEF SameUpdate
  <2>3. HasList(r2) => HasList(r) /\ r2.at = "look"
    BY <1>5 DEF HasList, SameUpdate
  <2>4. ASSUME HasList(r2)
        PROVE  /\ r2.item \in 1..Len(r2.body.related)
               /\ \A j \in Looked(r2) : FALSE
    <3>1. Len(r.body.related) \in Nat /\ 1 <= Len(r.body.related)
      BY <2>3, <2>4, ListFacts
    <3>2. r2.item = 1 /\ r2.body.related = r.body.related
      BY <1>1 DEF SameUpdate
    <3> QED BY <2>3, <2>4, <3>1, <3>2 DEF Looked
  <2>5. HasList(r2) => r2.born = {} /\ r2.dropped = {} /\ r2.related = r2.row.related
    BY <1>1, <2>1, <2>3 DEF SameUpdate
  <2> QED BY <2>2, <2>3, <2>4, <2>5 DEF FollowsTheList
<1>11. HasList(r2) => r2.at = "look" /\ r2.item = 1
  BY <1>1, <1>5 DEF HasList, SameUpdate
<1>12. PutsTogether(r2)
  BY <1>1, <1>11 DEF PutsTogether, SameUpdate
<1>13. ASSUME r2.alone, r2.body.related # Null
       PROVE  KeepsRelations(r2)
  <2>1. r2.row.related = patch[r2.patch].related
    BY <1>13 DEF Sound, KeepsRelations, SameUpdate
  <2>2. r2.at \notin {"count", "dissolve"}
    BY <1>5, <1>13 DEF SameUpdate
  <2>3. HasList(r2) => Looked(r2) = {}
    BY <1>11 DEF Looked
  <2>4. r2.body.related = <<>> /\ r2.at = "commit" => EndsWell(r2)
    <3>1. \A q \in Patches : SeenBy(r2, q).related \in {patch[q].related, 0}
      BY <1>3
    <3>2. \A id : {q \in Patches : SeenBy(r2, q).related = id} = Members(Rel, id)
      BY <1>3 DEF Members, Rel
    <3>3. \A id \in relations.ids :
            Cardinality(Members(Rel, id)) \in Nat
              => ~(Cardinality(Members(Rel, id)) > 1
                   /\ Cardinality({q \in Patches : SeenBy(r2, q).related = id}) < 2)
      BY <3>2
    <3> QED BY <3>1, <3>2, <3>3, MembersCount DEF EndsWell
  <2> QED BY <1>3, <2>1, <2>2, <2>3, <2>4 DEF KeepsRelations
<1>14. ~(r2.alone /\ r2.body.related # Null) => KeepsRelations(r2)
  BY DEF KeepsRelations
<1> QED BY <1>6, <1>7, <1>8, <1>9, <1>10, <1>12, <1>13, <1>14 DEF Sound

(***************************************************************************)
(* Statements that write relations.                                        *)
(***************************************************************************)

\* A row whose relation is replaced.
LEMMA RelinkedFacts ==
  ASSUME NEW row \in Rows, NEW id \in Nat
  PROVE  /\ [row EXCEPT !.related = id] \in Rows
         /\ [row EXCEPT !.related = id].related = id
         /\ [row EXCEPT !.related = id].state = row.state
         /\ [row EXCEPT !.related = id].delegate = row.delegate
         /\ [[row EXCEPT !.related = id] EXCEPT !.related = 0] = [row EXCEPT !.related = 0]
BY DEF Rows

\* A statement that sets the relations of some rows.
RelinksRows(r, r2, rows, id) ==
  r2.written = [q \in Patches |->
    IF q \in rows THEN [SeenBy(r, q) EXCEPT !.related = id] ELSE r.written[q]]

LEMMA Relinked ==
  ASSUME Tracker, TriageTypeOK, NEW r \in Requests, Sound(r), r.at # "write",
         NEW r2 \in Requests, SameUpdate(r, r2), NEW rows \in SUBSET Patches, NEW id \in Nat,
         RelinksRows(r, r2, rows, id), r2.at # "write", r2.at # "commit" => r2.dropped = {}
  PROVE  /\ \A q \in rows : r2.written[q] \in Rows /\ r2.written[q] # Null
                            /\ r2.written[q].related = id
         /\ \A q \in Patches \ rows : r2.written[q] = r.written[q]
         /\ \A q \in Patches :
              SeenBy(r2, q).related = IF q \in rows THEN id ELSE SeenBy(r, q).related
         /\ WritesItsOwn(r2) /\ WritesTheBody(r2)
<1>1. ASSUME NEW q \in rows
      PROVE  /\ r2.written[q] \in Rows /\ r2.written[q] # Null
             /\ r2.written[q].related = id
             /\ r2.written[q].state = SeenBy(r, q).state
             /\ r2.written[q].delegate = SeenBy(r, q).delegate
             /\ [r2.written[q] EXCEPT !.related = 0] = [SeenBy(r, q) EXCEPT !.related = 0]
  <2>1. PICK row \in Rows : row = SeenBy(r, q)
    BY SeenFacts
  <2>2. r2.written[q] = [row EXCEPT !.related = id]
    BY <2>1 DEF RelinksRows
  <2>3. /\ [row EXCEPT !.related = id] \in Rows
        /\ [row EXCEPT !.related = id].related = id
        /\ [row EXCEPT !.related = id].state = row.state
        /\ [row EXCEPT !.related = id].delegate = row.delegate
        /\ [[row EXCEPT !.related = id] EXCEPT !.related = 0] = [row EXCEPT !.related = 0]
    BY ONLY row \in Rows, id \in Nat, RelinkedFacts
  <2>4. r2.written[q] # Null
    BY <2>2, <2>3 DEF Tracker
  <2> QED BY <2>1, <2>2, <2>3, <2>4
<1>2. \A q \in Patches \ rows : r2.written[q] = r.written[q]
  BY DEF RelinksRows
<1>3. \A q \in Patches :
        SeenBy(r2, q).related = IF q \in rows THEN id ELSE SeenBy(r, q).related
  BY <1>1, <1>2 DEF SeenBy
<1>4. WritesItsOwn(r2)
  <2>1. WritesItsOwn(r)
    BY DEF Sound
  <2>2. ASSUME NEW q \in Patches \ {r.patch}, r2.written[q] # Null
        PROVE  [r2.written[q] EXCEPT !.related = 0] = [patch[q] EXCEPT !.related = 0]
    <3>1. CASE q \notin rows
      BY <1>2, <2>1, <2>2, <3>1 DEF WritesItsOwn
    <3>2. CASE q \in rows
      <4>1. [r2.written[q] EXCEPT !.related = 0] = [SeenBy(r, q) EXCEPT !.related = 0]
        BY <1>1, <3>2
      <4>2. [SeenBy(r, q) EXCEPT !.related = 0] = [patch[q] EXCEPT !.related = 0]
        BY <2>1, <2>2 DEF WritesItsOwn, SeenBy
      <4> QED BY <4>1, <4>2
    <3> QED BY <3>1, <3>2
  <2> QED BY <2>1, <2>2 DEF WritesItsOwn, SameUpdate
<1>5. WritesTheBody(r2)
  <2>1. r.patch \in Patches
    BY DEF Requests
  <2>2. /\ r.body.state # Null
             => r.written[r.patch] # Null /\ r.written[r.patch].state = r.body.state
        /\ r.body.delegate # Null
             => r.written[r.patch] # Null /\ r.written[r.patch].delegate = r.body.delegate
    BY DEF Sound, WritesTheBody
  <2>3. /\ r.body.state # Null
             => r2.written[r.patch] # Null /\ r2.written[r.patch].state = r.body.state
        /\ r.body.delegate # Null
             => r2.written[r.patch] # Null /\ r2.written[r.patch].delegate = r.body.delegate
    <3>1. CASE r.patch \in rows
      BY <1>1, <2>2, <3>1 DEF SeenBy
    <3>2. CASE r.patch \notin rows
      BY <1>2, <2>1, <2>2, <3>2
    <3> QED BY <3>1, <3>2
  <2> QED BY <2>3 DEF WritesTheBody, SameUpdate
<1> QED BY <1>1, <1>2, <1>3, <1>4, <1>5

LEMMA RefersAfter ==
  ASSUME NEW r \in Requests, Sound(r), r.dropped = {}, NEW r2 \in Requests,
         NEW rows \in SUBSET Patches, NEW id \in {0} \cup relations.ids \cup r.born,
         \A q \in rows : r2.written[q].related = id,
         \A q \in Patches \ rows : r2.written[q] = r.written[q],
         r2.related \in 0..relations.last, r2.born = r.born, r2.dropped = {}
  PROVE  RefersToRows(r2)
<1>1. RefersToRows(r)
  BY DEF Sound
<1>2. \A q \in Patches : r2.written[q] # Null
        => r2.written[q].related \in ({0} \cup relations.ids \cup r2.born) \ r2.dropped
  BY <1>1 DEF RefersToRows
<1> QED BY <1>1, <1>2 DEF RefersToRows

(***************************************************************************)
(* The statements of an empty list.                                        *)
(***************************************************************************)

LEMMA LeaveSound ==
  ASSUME Tracker, TriageTypeOK, NEW r \in Requests, Sound(r), r.at = "leave",
         NEW r2 \in Requests, SameUpdate(r, r2), RelinksRows(r, r2, {r.patch}, 0),
         r2.at = "count", r2.related = r.related, r2.born = r.born,
         r2.dropped = r.dropped
  PROVE  Sound(r2)
<1>1. /\ r.dropped = {} /\ r.patch \in Patches /\ r.related # 0
      /\ r.body.related = <<>> /\ r.body.related # Null /\ r.born = {}
      /\ r.related = r.row.related
  <2>1. r.dropped = {} /\ r.patch \in Patches
    BY DEF Sound, WritesTheBody, Requests
  <2>2. r.body.related # Null
    BY DEF Sound, LeavesRelations
  <2>3. ~HasList(r)
    BY DEF Sound, FollowsTheList
  <2>4. r.body.related = <<>>
    BY <2>2, <2>3 DEF HasList
  <2> QED BY <2>1, <2>2, <2>4 DEF Sound, FollowsTheList
<1>2. /\ r2.written[r.patch] # Null /\ r2.written[r.patch].related = 0
      /\ \A q \in Patches \ {r.patch} : r2.written[q] = r.written[q]
      /\ \A q \in Patches :
           SeenBy(r2, q).related = IF q = r.patch THEN 0 ELSE SeenBy(r, q).related
      /\ WritesItsOwn(r2) /\ WritesTheBody(r2)
  <2> DEFINE rows == {r.patch}
  <2>1. rows \in SUBSET Patches /\ RelinksRows(r, r2, rows, 0)
    BY <1>1
  <2> HIDE DEF rows
  <2>2. /\ \A q \in rows : r2.written[q] # Null /\ r2.written[q].related = 0
        /\ \A q \in Patches \ rows : r2.written[q] = r.written[q]
        /\ \A q \in Patches :
             SeenBy(r2, q).related = IF q \in rows THEN 0 ELSE SeenBy(r, q).related
        /\ WritesItsOwn(r2) /\ WritesTheBody(r2)
    BY <1>1, <2>1, Relinked
  <2> QED BY <1>1, <2>2 DEF rows
<1>3. RefersToRows(r2)
  <2> DEFINE rows == {r.patch}
  <2>1. r2.related \in 0..relations.last
    BY DEF Sound, RefersToRows
  <2>2. /\ rows \in SUBSET Patches
        /\ \A q \in rows : r2.written[q].related = 0
        /\ \A q \in Patches \ rows : r2.written[q] = r.written[q]
        /\ r2.dropped = {} /\ 0 \in {0} \cup relations.ids \cup r.born
    BY <1>1, <1>2
  <2> HIDE DEF rows
  <2> QED BY <1>1, <2>1, <2>2, RefersAfter
<1>4. ~HasList(r2) /\ r2.body.related # Null /\ r2.body.related = <<>>
  BY <1>1 DEF HasList, SameUpdate
<1>5. FollowsTheList(r2) /\ PutsTogether(r2) /\ LeavesRelations(r2)
  BY <1>1, <1>4 DEF FollowsTheList, PutsTogether, LeavesRelations, SameUpdate
<1>6. KeepsRelations(r2)
  <2>1. r.alone => /\ r.row.related = patch[r.patch].related
                   /\ \A q \in Patches : SeenBy(r, q).related = patch[q].related
    BY <1>1 DEF Sound, KeepsRelations
  <2> QED BY <1>1, <1>2, <1>4, <2>1 DEF KeepsRelations, SameUpdate
<1> QED BY <1>2, <1>3, <1>5, <1>6 DEF Sound

\* The patches that are left: more than one when they stay together.
LEMMA CountSound ==
  ASSUME Tracker, TriageTypeOK, NEW r \in Requests, Sound(r), r.at = "count",
         NEW r2 \in Requests, SameUpdate(r, r2), r2.written = r.written,
         r2.related = r.related, r2.born = r.born, r2.dropped = r.dropped,
         \/ r2.at = "dissolve"
         \/ /\ r2.at = "commit"
            /\ ~(Cardinality({q \in Patches : SeenBy(r, q).related = r.related}) < 2)
  PROVE  Sound(r2)
<1>1. /\ r.dropped = {} /\ r.patch \in Patches /\ r.related # 0
      /\ r.body.related = <<>> /\ r.body.related # Null /\ r.born = {}
      /\ r.related = r.row.related
  <2>1. r.dropped = {} /\ r.patch \in Patches
    BY DEF Sound, WritesTheBody, Requests
  <2>2. r.body.related # Null
    BY DEF Sound, LeavesRelations
  <2>3. ~HasList(r)
    BY DEF Sound, FollowsTheList
  <2>4. r.body.related = <<>>
    BY <2>2, <2>3 DEF HasList
  <2> QED BY <2>1, <2>2, <2>4 DEF Sound, FollowsTheList
<1>2. WritesItsOwn(r2) /\ RefersToRows(r2) /\ WritesTheBody(r2)
  BY <1>1 DEF Sound, WritesItsOwn, RefersToRows, WritesTheBody, SameUpdate
<1>3. ~HasList(r2) /\ r2.body.related # Null /\ r2.body.related = <<>>
  BY <1>1 DEF HasList, SameUpdate
<1>4. FollowsTheList(r2) /\ PutsTogether(r2) /\ LeavesRelations(r2)
  BY <1>1, <1>3 DEF FollowsTheList, PutsTogether, LeavesRelations, SameUpdate
<1>5. \A q \in Patches : SeenBy(r2, q) = SeenBy(r, q)
  BY DEF SeenBy
<1>6. ASSUME r2.alone
      PROVE  KeepsRelations(r2)
  <2>1. /\ r.row.related = patch[r.patch].related
        /\ SeenBy(r, r.patch).related = 0
        /\ \A q \in Patches \ {r.patch} : SeenBy(r, q).related = patch[q].related
    BY <1>1, <1>6 DEF Sound, KeepsRelations, SameUpdate
  <2>2. CASE r2.at = "dissolve"
    BY <1>1, <1>3, <1>5, <2>1, <2>2 DEF KeepsRelations, SameUpdate
  <2>3. CASE r2.at = "commit"
    <3>1. ~(Cardinality({q \in Patches : SeenBy(r, q).related = r.related}) < 2)
      BY <2>3
    <3>2. {q \in Patches : SeenBy(r2, q).related = r.related}
            = {q \in Patches : SeenBy(r, q).related = r.related}
      BY <1>5
    <3>3. ASSUME NEW id \in relations.ids, id # r.related
          PROVE  {q \in Patches : SeenBy(r2, q).related = id} = Members(Rel, id)
      <4>1. id # 0
        BY DEF TriageTypeOK
      <4>2. \A q \in Patches : SeenBy(r2, q).related = id <=> patch[q].related = id
        BY <1>1, <1>5, <2>1, <3>3, <4>1
      <4> QED BY <4>2 DEF Members, Rel
    <3>4. ASSUME NEW id \in relations.ids, Cardinality(Members(Rel, id)) > 1,
                 Cardinality({q \in Patches : SeenBy(r2, q).related = id}) < 2
          PROVE  FALSE
      <4>1. id # r.related
        BY <3>1, <3>2, <3>4
      <4>2. Cardinality(Members(Rel, id)) < 2
        BY <3>3, <3>4, <4>1
      <4> QED BY <3>4, <4>2, MembersCount
    <3>5. \A q \in Patches : patch[q].related # 0
            => SeenBy(r2, q).related \in {patch[q].related, 0}
      BY <1>5, <2>1
    <3>6. EndsWell(r2)
      BY <3>4, <3>5 DEF EndsWell
    <3> QED BY <1>1, <1>3, <2>1, <2>3, <3>6 DEF KeepsRelations, SameUpdate
  <2> QED BY <2>2, <2>3
<1>7. ~r2.alone => KeepsRelations(r2)
  BY DEF KeepsRelations
<1> QED BY <1>2, <1>4, <1>6, <1>7 DEF Sound

LEMMA DissolveSound ==
  ASSUME Tracker, TriageTypeOK, NEW r \in Requests, Sound(r), r.at = "dissolve",
         NEW r2 \in Requests, SameUpdate(r, r2), r2.at = "commit",
         RelinksRows(r, r2, {q \in Patches : SeenBy(r, q).related = r.related}, 0),
         r2.related = r.related, r2.born = r.born, r2.dropped = {r.related}
  PROVE  Sound(r2)
<1> DEFINE rows == {q \in Patches : SeenBy(r, q).related = r.related}
<1>1. /\ r.dropped = {} /\ r.patch \in Patches /\ r.related # 0
      /\ r.body.related = <<>> /\ r.body.related # Null /\ r.born = {}
      /\ r.related = r.row.related
  <2>1. r.dropped = {} /\ r.patch \in Patches
    BY DEF Sound, WritesTheBody, Requests
  <2>2. r.body.related # Null
    BY DEF Sound, LeavesRelations
  <2>3. ~HasList(r)
    BY DEF Sound, FollowsTheList
  <2>4. r.body.related = <<>>
    BY <2>2, <2>3 DEF HasList
  <2> QED BY <2>1, <2>2, <2>4 DEF Sound, FollowsTheList
<1>2. /\ \A q \in rows : r2.written[q] # Null /\ r2.written[q].related = 0
      /\ \A q \in Patches \ rows : r2.written[q] = r.written[q]
      /\ \A q \in Patches :
           SeenBy(r2, q).related = IF q \in rows THEN 0 ELSE SeenBy(r, q).related
      /\ WritesItsOwn(r2) /\ WritesTheBody(r2)
  <2>1. rows \in SUBSET Patches
    OBVIOUS
  <2> HIDE DEF rows
  <2>2. RelinksRows(r, r2, rows, 0)
    BY DEF rows
  <2> QED BY <1>1, <2>1, <2>2, Relinked
<1>3. RefersToRows(r2)
  <2>1. RefersToRows(r)
    BY DEF Sound
  <2>2. ASSUME NEW q \in Patches, r2.written[q] # Null
        PROVE  r2.written[q].related \in ({0} \cup relations.ids \cup r2.born) \ r2.dropped
    <3>1. CASE q \in rows
      BY <1>1, <1>2, <3>1
    <3>2. CASE q \notin rows
      <4>1. r2.written[q] = r.written[q] /\ r.written[q] # Null
        BY <1>2, <2>2, <3>2
      <4>2. r.written[q].related # r.related
        BY <3>2, <4>1 DEF SeenBy
      <4> QED BY <1>1, <2>1, <4>1, <4>2 DEF RefersToRows
    <3> QED BY <3>1, <3>2
  <2>3. ASSUME NEW q \in Patches, patch[q].related \in r2.dropped
        PROVE  r2.written[q] # Null
    <3>1. CASE q \in rows
      BY <1>2, <3>1
    <3>2. CASE q \notin rows
      BY <1>2, <2>3, <3>2 DEF SeenBy
    <3> QED BY <3>1, <3>2
  <2> QED BY <1>1, <2>1, <2>2, <2>3 DEF RefersToRows
<1>4. ~HasList(r2) /\ r2.body.related # Null /\ r2.body.related = <<>>
  BY <1>1 DEF HasList, SameUpdate
<1>5. FollowsTheList(r2) /\ PutsTogether(r2) /\ LeavesRelations(r2)
  BY <1>1, <1>4 DEF FollowsTheList, PutsTogether, LeavesRelations, SameUpdate
<1>6. ASSUME r2.alone
      PROVE  KeepsRelations(r2)
  <2>1. /\ r.row.related = patch[r.patch].related
        /\ SeenBy(r, r.patch).related = 0
        /\ \A q \in Patches \ {r.patch} : SeenBy(r, q).related = patch[q].related
    BY <1>1, <1>6 DEF Sound, KeepsRelations, SameUpdate
  <2>2. \A q \in Patches : SeenBy(r2, q).related \in {patch[q].related, 0}
    BY <1>1, <1>2, <2>1
  <2>3. {q \in Patches : SeenBy(r2, q).related = r.related} = {}
    BY <1>1, <1>2
  <2>4. ASSUME NEW id \in relations.ids, id # r.related
        PROVE  {q \in Patches : SeenBy(r2, q).related = id} = Members(Rel, id)
    <3>1. id # 0
      BY DEF TriageTypeOK
    <3>2. \A q \in Patches : SeenBy(r2, q).related = id <=> patch[q].related = id
      BY <1>1, <1>2, <2>1, <2>4, <3>1
    <3> QED BY <3>2 DEF Members, Rel
  <2>5. ASSUME NEW id \in relations.ids, Cardinality(Members(Rel, id)) > 1,
               Cardinality({q \in Patches : SeenBy(r2, q).related = id}) < 2
        PROVE  id = r.related
    <3>1. id # r.related => Cardinality(Members(Rel, id)) < 2
      BY <2>4, <2>5
    <3> QED BY <2>5, <3>1, MembersCount
  <2>6. EndsWell(r2)
    BY <2>2, <2>3, <2>5 DEF EndsWell
  <2> QED BY <1>1, <1>4, <2>1, <2>6 DEF KeepsRelations, SameUpdate
<1>7. ~r2.alone => KeepsRelations(r2)
  BY DEF KeepsRelations
<1> QED BY <1>2, <1>3, <1>5, <1>6, <1>7 DEF Sound

(***************************************************************************)
(* The statements of a list.                                               *)
(***************************************************************************)

\* The next statement after an item has been looked at.
Advances(r, r2) ==
  IF r.item < Len(r.body.related) THEN r2.at = "look" /\ r2.item = r.item + 1
  ELSE r2.item = 1 /\ r2.at = IF r.related = 0 THEN "create" ELSE "put"

LEMMA OnList ==
  ASSUME Tracker, TriageTypeOK, NEW r \in Requests, Sound(r),
         r.at \in {"look", "adopt", "create", "put"}
  PROVE  /\ HasList(r) /\ r.dropped = {} /\ r.patch \in Patches /\ r.related \in Nat
         /\ Len(r.body.related) \in Nat /\ r.item \in 1..Len(r.body.related)
         /\ r.body.related # Null /\ r.body.related # <<>>
         /\ r.row.related # 0 => r.related = r.row.related
         /\ \A j \in Looked(r) : r.body.related[j] \in Patches
<1>1. r.dropped = {} /\ r.patch \in Patches /\ r.related \in Nat
  BY DEF Sound, WritesTheBody, Requests
<1>2. r.body.related # Null
  BY DEF Sound, LeavesRelations
<1>3. r.body.related # <<>>
  BY DEF Sound, FollowsTheList
<1>4. HasList(r)
  BY <1>2, <1>3 DEF HasList
<1>5. Len(r.body.related) \in Nat
  BY <1>4, ListFacts
<1>6. /\ r.item \in 1..Len(r.body.related)
      /\ r.row.related # 0 => r.related = r.row.related
      /\ \A j \in Looked(r) : r.body.related[j] \in Patches
  BY <1>4 DEF Sound, FollowsTheList
<1> QED BY <1>1, <1>2, <1>3, <1>4, <1>5, <1>6

\* A listed patch has been looked at.
LEMMA LookSound ==
  ASSUME Tracker, TriageTypeOK, NEW r \in Requests, Sound(r), r.at = "look",
         NEW r2 \in Requests, SameUpdate(r, r2), r2.written = r.written,
         r2.born = r.born, r2.dropped = r.dropped,
         NEW q \in Patches, q = r.body.related[r.item],
         \/ SeenBy(r, q).related = 0 \/ r.related \in {0, SeenBy(r, q).related},
         \/ /\ SeenBy(r, q).related # 0 /\ r.related = 0
            /\ r2.related = SeenBy(r, q).related /\ r2.at = "adopt" /\ r2.item = r.item
         \/ /\ ~(SeenBy(r, q).related # 0 /\ r.related = 0)
            /\ r2.related = r.related /\ Advances(r, r2)
  PROVE  Sound(r2)
<1> DEFINE list == r.body.related
           n    == Len(list)
           seen == SeenBy(r, q).related
<1>1. /\ HasList(r) /\ r.dropped = {} /\ r.patch \in Patches /\ r.related \in Nat
      /\ n \in Nat /\ r.item \in 1..n /\ list # Null /\ list # <<>>
      /\ r.row.related # 0 => r.related = r.row.related
      /\ \A j \in Looked(r) : list[j] \in Patches
      /\ r.born = {}
  BY OnList DEF Sound, FollowsTheList
<1>2. HasList(r2) /\ r2.body.related = list /\ r2.patch = r.patch
  BY <1>1 DEF HasList, SameUpdate
<1>3. /\ r2.at \in {"look", "adopt", "create", "put"} /\ r2.item \in 1..n
      /\ r2.at = "create" => r2.related = 0 /\ r2.item = 1
      /\ r2.at = "put" => r2.related # 0 /\ r2.item = 1
      /\ r2.at = "adopt" => r2.related # 0 /\ r.related = 0 /\ r2.related = seen
      /\ r2.at # "adopt" => r2.related = r.related
  BY <1>1 DEF Advances
<1>4. \A j \in Looked(r2) : j \in Looked(r) \/ j = r.item
  <2>1. Looked(r) = {j \in 1..n : j < r.item}
    BY DEF Looked
  <2>2. CASE r2.at = "adopt"
    <3>1. Looked(r2) = {j \in 1..n : j <= r2.item} /\ r2.item = r.item
      BY <1>2, <2>2 DEF Looked, Advances
    <3> QED BY <1>1, <2>1, <3>1
  <2>3. CASE r2.at = "look"
    <3>1. Looked(r2) = {j \in 1..n : j < r2.item} /\ r2.item = r.item + 1
      BY <1>2, <2>3 DEF Looked, Advances
    <3> QED BY <1>1, <2>1, <3>1
  <2>4. CASE r2.at \in {"create", "put"}
    <3>1. Looked(r2) = 1..n
      BY <1>2, <2>4 DEF Looked
    <3>2. ~(r.item < n)
      BY <2>4 DEF Advances
    <3> QED BY <1>1, <2>1, <3>1, <3>2
  <2> QED BY <1>3, <2>2, <2>3, <2>4
<1>5. WritesItsOwn(r2) /\ WritesTheBody(r2) /\ LeavesRelations(r2)
  BY <1>1, <1>2, <1>3
  DEF Sound, WritesItsOwn, WritesTheBody, LeavesRelations, SameUpdate
<1>6. RefersToRows(r2)
  <2>1. RefersToRows(r)
    BY SMTT(30) DEF Sound
  <2>2. seen \in 0..relations.last
    <3>1. /\ relations.last \in Nat /\ relations.ids \subseteq 1..MaxRelations
          /\ \A id \in relations.ids : id <= relations.last
      BY DEF TriageTypeOK
    <3>2. relations.ids \subseteq 1..relations.last
      BY <3>1 DEF Tracker
    <3>3. patch[q].related \in 0..relations.last
      BY <3>1, <3>2, SeenFacts
    <3>4. r.written[q] # Null => r.written[q].related \in 0..relations.last
      BY <1>1, <2>1, <3>1, <3>2 DEF RefersToRows
    <3> QED BY <3>3, <3>4 DEF SeenBy
  <2>3. r2.related \in 0..relations.last
    BY <1>3, <2>1, <2>2 DEF RefersToRows
  <2> QED BY <2>1, <2>3 DEF RefersToRows
<1>7. FollowsTheList(r2)
  <2>1. \A j \in Looked(r2) : list[j] \in Patches
    BY <1>1, <1>4
  <2>2. r2.row.related # 0 => r2.related = r2.row.related /\ r2.at # "adopt"
    BY <1>1, <1>3 DEF SameUpdate
  <2> QED BY <1>1, <1>2, <1>3, <2>1, <2>2 DEF FollowsTheList, SameUpdate
<1>8. PutsTogether(r2)
  <2>1. r2.at \in {"look", "put"} => r2.related = r.related
    BY <1>3
  <2>2. r.row.related = 0 /\ r.related # 0
          => r.written[r.patch] # Null /\ r.written[r.patch].related = r.related
    BY <1>1 DEF Sound, PutsTogether
  <2>3. r2.at \in {"look", "put", "commit"} /\ r2.row.related = 0 /\ r2.related # 0
          => r2.written[r2.patch] # Null /\ r2.written[r2.patch].related = r2.related
    BY <1>2, <1>3, <2>1, <2>2 DEF SameUpdate
  <2>4. r2.at \in {"put", "commit"} => r2.item = 1
    BY <1>3
  <2> QED BY <1>2, <2>3, <2>4 DEF PutsTogether
<1>9. ASSUME r2.alone
      PROVE  KeepsRelations(r2)
  <2>1. \A p \in Patches : SeenBy(r2, p) = SeenBy(r, p)
    BY DEF SeenBy
  <2>2. /\ r.row.related = patch[r.patch].related
        /\ \A p \in Patches : patch[p].related # 0 => SeenBy(r, p).related = patch[p].related
        /\ \A j \in Looked(r) : patch[list[j]].related \in {0, r.related}
    BY <1>1, <1>9 DEF Sound, KeepsRelations, SameUpdate
  <2>3. patch[q].related \in {0, r2.related}
    <3>1. patch[q].related # 0 => seen = patch[q].related
      BY <2>2
    <3> QED BY <1>3, <3>1
  <2>4. ASSUME NEW j \in Looked(r2)
        PROVE  patch[list[j]].related \in {0, r2.related}
    BY <1>3, <1>4, <2>2, <2>3, <2>4
  <2> QED BY <1>2, <1>3, <2>1, <2>2, <2>4 DEF KeepsRelations, SameUpdate, HasList
<1>10. ~r2.alone => KeepsRelations(r2)
  BY DEF KeepsRelations
<1> QED BY <1>5, <1>6, <1>7, <1>8, <1>9, <1>10 DEF Sound

LEMMA AdoptSound ==
  ASSUME Tracker, TriageTypeOK, NEW r \in Requests, Sound(r), r.at = "adopt",
         NEW r2 \in Requests, SameUpdate(r, r2), RelinksRows(r, r2, {r.patch}, r.related),
         r2.related = r.related, r2.born = r.born, r2.dropped = r.dropped, Advances(r, r2),
         r.related \in relations.ids \cup r.born
  PROVE  Sound(r2)
<1> DEFINE list == r.body.related
           n    == Len(list)
           rows == {r.patch}
<1>1. /\ HasList(r) /\ r.dropped = {} /\ r.patch \in Patches /\ r.related \in Nat
      /\ n \in Nat /\ r.item \in 1..n /\ list # Null /\ list # <<>>
      /\ \A j \in Looked(r) : list[j] \in Patches
  BY OnList
<1>2. r.born = {} /\ r.related # 0 /\ r.row.related = 0
  BY <1>1 DEF Sound, FollowsTheList
<1>3. HasList(r2) /\ r2.body.related = list /\ r2.patch = r.patch
  BY <1>1 DEF HasList, SameUpdate
<1>4. /\ r2.at \in {"look", "put"} /\ r2.item \in 1..n
      /\ r2.at = "put" => r2.item = 1
  BY <1>1, <1>2 DEF Advances
<1>5. \A j \in Looked(r2) : j \in Looked(r)
  <2>1. Looked(r) = {j \in 1..n : j <= r.item}
    BY DEF Looked
  <2>2. CASE r2.at = "look"
    <3>1. Looked(r2) = {j \in 1..n : j < r2.item} /\ r2.item = r.item + 1
      BY <1>2, <1>3, <2>2 DEF Looked, Advances
    <3> QED BY <1>1, <2>1, <3>1
  <2>3. CASE r2.at = "put"
    <3>1. Looked(r2) = 1..n
      BY <1>3, <2>3 DEF Looked
    <3>2. ~(r.item < n)
      BY <2>3 DEF Advances
    <3> QED BY <1>1, <2>1, <3>1, <3>2
  <2> QED BY <1>4, <2>2, <2>3
<1>6. /\ r2.written[r.patch] # Null /\ r2.written[r.patch].related = r.related
      /\ \A q \in Patches \ rows : r2.written[q] = r.written[q]
      /\ \A q \in Patches :
           SeenBy(r2, q).related = IF q \in rows THEN r.related ELSE SeenBy(r, q).related
      /\ WritesItsOwn(r2) /\ WritesTheBody(r2)
  <2>1. rows \in SUBSET Patches /\ RelinksRows(r, r2, rows, r.related) /\ r.patch \in rows
    BY <1>1
  <2> HIDE DEF rows
  <2> QED BY <1>1, <1>4, <2>1, Relinked
<1>7. RefersToRows(r2)
  <2>1. r2.related \in 0..relations.last
    BY DEF Sound, RefersToRows
  <2>2. /\ rows \in SUBSET Patches
        /\ \A q \in rows : r2.written[q].related = r.related
        /\ r2.dropped = {} /\ r.related \in {0} \cup relations.ids \cup r.born
    BY <1>1, <1>6
  <2> HIDE DEF rows
  <2> QED BY <1>1, <1>6, <2>1, <2>2, RefersAfter
<1>8. LeavesRelations(r2) /\ FollowsTheList(r2)
  BY <1>1, <1>2, <1>3, <1>4, <1>5 DEF LeavesRelations, FollowsTheList, SameUpdate
<1>9. PutsTogether(r2)
  BY <1>3, <1>4, <1>6 DEF PutsTogether, SameUpdate
<1>10. ASSUME r2.alone
       PROVE  KeepsRelations(r2)
  <2>1. /\ r.row.related = patch[r.patch].related
        /\ \A p \in Patches : patch[p].related # 0 => SeenBy(r, p).related = patch[p].related
        /\ \A j \in Looked(r) : patch[list[j]].related \in {0, r.related}
    BY <1>1, <1>10 DEF Sound, KeepsRelations, SameUpdate
  <2>2. \A p \in Patches : patch[p].related # 0 => SeenBy(r2, p).related = patch[p].related
    BY <1>2, <1>6, <2>1
  <2>3. \A j \in Looked(r2) : patch[list[j]].related \in {0, r2.related}
    BY <1>5, <2>1
  <2> QED BY <1>3, <1>4, <2>1, <2>2, <2>3 DEF KeepsRelations, SameUpdate, HasList
<1>11. ~r2.alone => KeepsRelations(r2)
  BY DEF KeepsRelations
<1> QED BY <1>6, <1>7, <1>8, <1>9, <1>10, <1>11 DEF Sound

\* A new relation is referred to once it has been inserted.
LEMMA CreateSound ==
  ASSUME Tracker, TriageTypeOK, NEW r \in Requests, Sound(r), r.at = "create",
         NEW id \in Nat, id = relations.last + 1,
         NEW r2 \in Requests, SameUpdate(r, r2), RelinksRows(r, r2, {r.patch}, id),
         r2.related = id, r2.born = {id}, r2.dropped = r.dropped, r2.at = "put",
         r2.item = r.item,
         UNCHANGED patch, relations'.ids = relations.ids, relations'.last = id
  PROVE  Sound(r2)'
<1> DEFINE list == r.body.related
           n    == Len(list)
           rows == {r.patch}
<1>1. /\ HasList(r) /\ r.dropped = {} /\ r.patch \in Patches /\ r.related \in Nat
      /\ n \in Nat /\ r.item \in 1..n /\ list # Null /\ list # <<>>
      /\ \A j \in Looked(r) : list[j] \in Patches
      /\ r.row.related # 0 => r.related = r.row.related
  BY OnList
<1>2. r.born = {} /\ r.related = 0 /\ r.row.related = 0 /\ r.item = 1 /\ id # 0
  <2>1. relations.last \in Nat
    BY DEF TriageTypeOK
  <2> QED BY <1>1, <2>1 DEF Sound, FollowsTheList
<1>3. HasList(r2) /\ r2.body.related = list /\ r2.patch = r.patch
  BY <1>1 DEF HasList, SameUpdate
<1>4. Looked(r2) = 1..n /\ Looked(r) = 1..n
  BY <1>3 DEF Looked
<1>5. /\ r2.written[r.patch] # Null /\ r2.written[r.patch].related = id
      /\ \A q \in Patches \ rows : r2.written[q] = r.written[q]
      /\ \A q \in Patches :
           SeenBy(r2, q).related = IF q \in rows THEN id ELSE SeenBy(r, q).related
      /\ WritesItsOwn(r2) /\ WritesTheBody(r2)
  <2>1. rows \in SUBSET Patches /\ RelinksRows(r, r2, rows, id) /\ r.patch \in rows
    BY <1>1
  <2> HIDE DEF rows
  <2> QED BY <1>1, <2>1, Relinked
<1>6. RefersToRows(r2)'
  <2>1. RefersToRows(r)
    BY DEF Sound
  <2>2. r2.related \in 0..relations'.last /\ r2.born \subseteq 1..relations'.last
    BY <1>2
  <2>3. \A q \in Patches : r2.written[q] # Null
          => r2.written[q].related \in ({0} \cup relations'.ids \cup r2.born) \ r2.dropped
    BY <1>1, <1>2, <1>5, <2>1 DEF RefersToRows
  <2>4. \A q \in Patches : patch'[q].related \in r2.dropped => r2.written[q] # Null
    BY <1>1
  <2> QED BY <1>1, <2>2, <2>3, <2>4 DEF RefersToRows
<1>7. WritesItsOwn(r2)' /\ WritesTheBody(r2)'
  BY <1>5 DEF WritesItsOwn, WritesTheBody, IsMaintainer
<1>8. LeavesRelations(r2)' /\ FollowsTheList(r2)'
  BY <1>1, <1>2, <1>3, <1>4
  DEF LeavesRelations, FollowsTheList, SameUpdate, HasList, Looked
<1>9. PutsTogether(r2)'
  BY <1>2, <1>3, <1>5 DEF PutsTogether, SameUpdate, HasList
<1>10. ASSUME r2.alone
       PROVE  KeepsRelations(r2)
  <2>1. /\ r.row.related = patch[r.patch].related
        /\ \A p \in Patches : patch[p].related # 0 => SeenBy(r, p).related = patch[p].related
        /\ \A j \in Looked(r) : patch[list[j]].related \in {0, r.related}
    BY <1>1, <1>10 DEF Sound, KeepsRelations, SameUpdate
  <2>2. \A p \in Patches : patch[p].related # 0 => SeenBy(r2, p).related = patch[p].related
    BY <1>2, <1>5, <2>1
  <2>3. \A j \in Looked(r2) : patch[list[j]].related \in {0, r2.related}
    BY <1>2, <1>4, <2>1
  <2> QED BY <1>3, <2>1, <2>2, <2>3 DEF KeepsRelations, SameUpdate, HasList
<1>11. KeepsRelations(r2)'
  <2>1. CASE r2.alone
    <3>1. KeepsRelations(r2)
      BY <1>10, <2>1
    <3>2. r2.body.related # <<>>
      BY <1>1, <1>3
    <3>3. /\ HasList(r2)' = HasList(r2) /\ Looked(r2)' = Looked(r2)
          /\ \A q \in Patches : SeenBy(r2, q)' = SeenBy(r2, q)
      BY DEF HasList, Looked, SeenBy
    <3> QED BY <1>3, <3>1, <3>2, <3>3 DEF KeepsRelations
  <2>2. CASE ~r2.alone
    BY <2>2 DEF KeepsRelations
  <2> QED BY <2>1, <2>2
<1> QED BY <1>6, <1>7, <1>8, <1>9, <1>11 DEF Sound

LEMMA PutSound ==
  ASSUME Tracker, TriageTypeOK, NEW r \in Requests, Sound(r), r.at = "put",
         NEW r2 \in Requests, SameUpdate(r, r2),
         RelinksRows(r, r2, {r.body.related[r.item]}, r.related),
         r2.related = r.related, r2.born = r.born, r2.dropped = r.dropped,
         r2.at = IF r.item < Len(r.body.related) THEN "put" ELSE "commit",
         r2.item = r.item + 1,
         r.related \in relations.ids \cup r.born
  PROVE  Sound(r2)
<1> DEFINE list == r.body.related
           n    == Len(list)
           p    == list[r.item]
           rows == {p}
<1>1. /\ HasList(r) /\ r.dropped = {} /\ r.patch \in Patches /\ r.related \in Nat
      /\ n \in Nat /\ r.item \in 1..n /\ list # Null /\ list # <<>>
      /\ \A j \in Looked(r) : list[j] \in Patches
      /\ r.row.related # 0 => r.related = r.row.related
  BY OnList
<1>2. r.related # 0 /\ Looked(r) = 1..n /\ p \in Patches
  <2>1. r.related # 0
    BY <1>1 DEF Sound, FollowsTheList
  <2>2. Looked(r) = 1..n
    BY DEF Looked
  <2> QED BY <1>1, <2>1, <2>2
<1>3. HasList(r2) /\ r2.body.related = list /\ r2.patch = r.patch
  BY <1>1 DEF HasList, SameUpdate
<1>4. /\ r2.at \in {"put", "commit"} /\ Looked(r2) = 1..n
      /\ r2.at = "put" => r2.item \in 1..n
      /\ r2.at = "commit" => r2.item = n + 1
  BY <1>1, <1>3 DEF Looked
<1>5. /\ r2.written[p] # Null /\ r2.written[p].related = r.related
      /\ \A q \in Patches \ rows : r2.written[q] = r.written[q]
      /\ \A q \in Patches :
           SeenBy(r2, q).related = IF q \in rows THEN r.related ELSE SeenBy(r, q).related
      /\ WritesItsOwn(r2) /\ WritesTheBody(r2)
  <2>1. rows \in SUBSET Patches /\ RelinksRows(r, r2, rows, r.related) /\ p \in rows
    BY <1>1, <1>2
  <2> HIDE DEF rows, p
  <2> QED BY <1>1, <1>4, <2>1, Relinked
<1>6. RefersToRows(r2)
  <2>1. r2.related \in 0..relations.last
    BY DEF Sound, RefersToRows
  <2>2. /\ rows \in SUBSET Patches
        /\ \A q \in rows : r2.written[q].related = r.related
        /\ r2.dropped = {} /\ r.related \in {0} \cup relations.ids \cup r.born
    BY <1>1, <1>2, <1>5
  <2> HIDE DEF rows, p
  <2> QED BY <1>1, <1>5, <2>1, <2>2, RefersAfter
<1>7. LeavesRelations(r2) /\ FollowsTheList(r2)
  BY <1>1, <1>2, <1>3, <1>4 DEF LeavesRelations, FollowsTheList, SameUpdate
<1>8. PutsTogether(r2)
  <2>1. /\ r.row.related = 0
             => r.written[r.patch] # Null /\ r.written[r.patch].related = r.related
        /\ \A j \in 1..n : j < r.item
             => r.written[list[j]] # Null /\ r.written[list[j]].related = r.related
    BY <1>1, <1>2 DEF Sound, PutsTogether
  <2>2. \A q \in Patches : r.written[q] # Null /\ r.written[q].related = r.related
          => r2.written[q] # Null /\ r2.written[q].related = r.related
    BY <1>5
  <2>3. ASSUME NEW j \in 1..n, j < r2.item
        PROVE  r2.written[list[j]] # Null /\ r2.written[list[j]].related = r.related
    <3>1. CASE j = r.item
      BY <1>5, <3>1
    <3>2. CASE j < r.item
      BY <1>1, <1>2, <2>1, <2>2, <3>2
    <3> QED BY <1>1, <2>3, <3>1, <3>2
  <2> QED BY <1>1, <1>3, <2>1, <2>2, <2>3 DEF PutsTogether, SameUpdate
<1>9. ASSUME r2.alone
      PROVE  KeepsRelations(r2)
  <2>1. /\ r.row.related = patch[r.patch].related
        /\ \A q \in Patches : patch[q].related # 0 => SeenBy(r, q).related = patch[q].related
        /\ \A j \in Looked(r) : patch[list[j]].related \in {0, r.related}
    BY <1>1, <1>9 DEF Sound, KeepsRelations, SameUpdate
  <2>2. \A q \in Patches : patch[q].related # 0 => SeenBy(r2, q).related = patch[q].related
    BY <1>1, <1>2, <1>5, <2>1
  <2>3. \A j \in Looked(r2) : patch[list[j]].related \in {0, r2.related}
    BY <1>2, <1>4, <2>1
  <2> QED BY <1>3, <1>4, <2>1, <2>2, <2>3 DEF KeepsRelations, SameUpdate, HasList
<1>10. ~r2.alone => KeepsRelations(r2)
  BY DEF KeepsRelations
<1> QED BY <1>5, <1>6, <1>7, <1>8, <1>9, <1>10 DEF Sound

(***************************************************************************)
(* The statements, as actions.                                             *)
(***************************************************************************)

LEMMA WrittenFacts ==
  ASSUME Tracker, TriageTypeOK, NEW s \in Begun, NEW p \in Patches, NEW id \in Nat
  PROVE  /\ Written(s, p, id) \in [Patches -> Rows \cup {Null}]
         /\ [SeenBy(request[s], p) EXCEPT !.related = id] \in Rows
         /\ [SeenBy(request[s], p) EXCEPT !.related = id].related = id
         /\ \A q \in Patches : RowOf(s, q) = SeenBy(request[s], q)
<1>1. \A q \in Patches : RowOf(s, q) = SeenBy(request[s], q)
  BY DEF RowOf, SeenBy
<1>2. PICK row \in Rows : row = SeenBy(request[s], p)
  BY Typed, SeenFacts
<1>3. [row EXCEPT !.related = id] \in Rows /\ [row EXCEPT !.related = id].related = id
  BY ONLY row \in Rows, id \in Nat, RelinkedFacts
<1>4. request[s].written \in [Patches -> Rows \cup {Null}]
  BY Typed
<1>5. Written(s, p, id) = [request[s].written EXCEPT ![p] = [row EXCEPT !.related = id]]
  BY <1>1, <1>2 DEF Written
<1> QED BY <1>1, <1>2, <1>3, <1>4, <1>5

\* A statement that writes a relation to one row.
LEMMA FitsRelation ==
  ASSUME Tracker, TriageInvariant, NEW s \in Begun, NEW r2 \in Requests, NEW p \in Patches,
         NEW id \in Nat, r2.written = Written(s, p, id), r2.dropped = request[s].dropped,
         LockedBy(p) \subseteq {s}, \A t \in Begun \ {s} : id \notin request[t].dropped
  PROVE  Fits(s, r2) /\ Frees(s, r2) /\ RelinksRows(request[s], r2, {p}, id)
<1>1. TriageTypeOK
  BY DEF TriageInvariant
<1>2. \A q \in Patches : RowOf(s, q) = SeenBy(request[s], q)
  BY DEF RowOf, SeenBy
<1>3. PICK row \in Rows : row = SeenBy(request[s], p)
  BY <1>1, Typed, SeenFacts
<1>4. request[s].written \in [Patches -> Rows \cup {Null}]
  BY <1>1, Typed
<1>5. PICK new \in Rows : new = [row EXCEPT !.related = id] /\ new.related = id
  BY ONLY row \in Rows, id \in Nat, RelinkedFacts
<1>6. r2.written = [request[s].written EXCEPT ![p] = new]
  BY <1>2, <1>3, <1>5 DEF Written
<1>7. Fits(s, r2) /\ Frees(s, r2)
  <2>1. \A t \in Begun \ {s} : new.related \notin request[t].dropped
    BY <1>5
  <2> QED BY <1>6, <2>1, FitsOneRow
<1>8. RelinksRows(request[s], r2, {p}, id)
  BY <1>3, <1>4, <1>5, <1>6 DEF RelinksRows
<1> QED BY <1>7, <1>8

\* NULL is no relation that is deleted.
LEMMA NothingDropsZero ==
  ASSUME TriageInvariant, NEW t \in Begun
  PROVE  0 \notin request[t].dropped
BY DEF TriageInvariant, Sound, RefersToRows

LEMMA WritePatchKeeps ==
  ASSUME Tracker, TriageInvariant, NEW s \in Sessions, WritePatch(s)
  PROVE  TriageInvariant'
<1>1. s \in Begun /\ TriageTypeOK
  BY DEF WritePatch, TriageInvariant
<1>2. PICK r \in Requests : r = request[s]
  BY <1>1, Typed
<1>3. /\ r.at = "write" /\ Sound(r) /\ r.patch \in Patches /\ r.body \in Bodies
      /\ r.written \in [Patches -> Rows \cup {Null}]
      /\ UNCHANGED <<patch, relations, addressed>>
  BY <1>1, <1>2, Typed DEF WritePatch, TriageInvariant
<1>4. /\ \A q \in Patches : r.written[q] = Null
      /\ SeenBy(r, r.patch) = patch[r.patch] /\ RowOf(s, r.patch) = patch[r.patch]
  BY <1>2, <1>3 DEF Sound, WritesTheBody, SeenBy, RowOf
<1>5. PICK row \in Rows : /\ row = Updated(patch[r.patch], r.body)
                          /\ row.related = patch[r.patch].related
                          /\ r.body.state # Null => row.state = r.body.state
                          /\ r.body.delegate # Null => row.delegate = r.body.delegate
  <2>1. patch[r.patch] \in Rows
    BY <1>1, <1>3 DEF TriageTypeOK
  <2> QED BY <1>3, <2>1, UpdatedFacts
<1>6. FirstOfRelated(r) \in Statements
  <2>1. HasList(r) \/ r.body.related = <<>> \/ r.body.related = Null
    BY ListFacts
  <2> QED BY <2>1 DEF FirstOfRelated, Statements, HasList, Tracker
<1>7. CASE Sets(r.body)
  <2> DEFINE new == [r EXCEPT !.at = FirstOfRelated(r), !.written[r.patch] = row]
  <2>1. new \in Requests
    BY <1>3, <1>6 DEF Requests
  <2>2. PICK r2 \in Requests : r2 = new
    BY <2>1
  <2>3. /\ SameUpdate(r, r2) /\ r2.at = FirstOfRelated(r) /\ r2.related = r.related
        /\ r2.born = r.born /\ r2.dropped = r.dropped /\ r2.item = r.item
        /\ r2.written = [r.written EXCEPT ![r.patch] = row]
    BY <2>2 DEF Requests, SameUpdate
  <2>4. request' = [request EXCEPT ![s] = r2] /\ LockedBy(r.patch) \subseteq {s}
    BY <1>2, <1>4, <1>5, <1>7, <2>2 DEF WritePatch
  <2> HIDE DEF new
  <2>5. Sound(r2)
    BY <1>1, <1>3, <1>5, <2>3, FirstStatement
  <2>6. \A t \in Begun \ {s} : row.related \notin request[t].dropped
    BY <1>1, <1>2, <1>3, <1>4, <1>5, <2>4, ReadsNoDeleted
  <2>7. Fits(s, r2) /\ Frees(s, r2)
    BY <1>1, <1>2, <1>3, <2>3, <2>4, <2>6, FitsOneRow
  <2> QED BY <1>1, <1>2, <1>3, <2>3, <2>4, <2>5, <2>7, PlainStatement
<1>8. CASE ~Sets(r.body)
  <2> DEFINE new == [r EXCEPT !.at = FirstOfRelated(r)]
  <2>1. new \in Requests
    BY <1>6 DEF Requests
  <2>2. PICK r2 \in Requests : r2 = new
    BY <2>1
  <2>3. /\ SameUpdate(r, r2) /\ r2.at = FirstOfRelated(r) /\ r2.related = r.related
        /\ r2.born = r.born /\ r2.dropped = r.dropped /\ r2.item = r.item
        /\ r2.written = r.written
    BY <2>2 DEF Requests, SameUpdate
  <2>4. request' = [request EXCEPT ![s] = r2]
    BY <1>2, <1>8, <2>2 DEF WritePatch
  <2> HIDE DEF new
  <2>5. r.body.state = Null /\ r.body.delegate = Null
    BY <1>8 DEF Sets
  <2>6. Sound(r2)
    BY <1>1, <1>3, <1>5, <2>3, <2>5, FirstStatement
  <2>7. Fits(s, r2) /\ Frees(s, r2)
    BY <1>1, <1>2, <2>3, FitsAsBefore
  <2> QED BY <1>1, <1>2, <1>3, <2>3, <2>4, <2>6, <2>7, PlainStatement
<1> QED BY <1>7, <1>8

LEMMA LeaveKeeps ==
  ASSUME Tracker, TriageInvariant, NEW s \in Sessions, Leave(s)
  PROVE  TriageInvariant'
<1>1. s \in Begun /\ TriageTypeOK
  BY DEF Leave, TriageInvariant
<1>2. PICK r \in Requests : r = request[s]
  BY <1>1, Typed
<1>3. /\ r.at = "leave" /\ Sound(r) /\ r.patch \in Patches
      /\ LockedBy(r.patch) \subseteq {s} /\ UNCHANGED <<patch, relations, addressed>>
  BY <1>1, <1>2, Typed DEF Leave, TriageInvariant
<1> DEFINE new == [r EXCEPT !.written = Written(s, r.patch, 0), !.at = "count"]
<1>4. new \in Requests
  BY <1>1, <1>3, WrittenFacts DEF Requests, Statements
<1>5. PICK r2 \in Requests : r2 = new
  BY <1>4
<1>6. /\ SameUpdate(r, r2) /\ r2.at = "count" /\ r2.related = r.related
      /\ r2.born = r.born /\ r2.dropped = r.dropped /\ r2.item = r.item
      /\ r2.written = Written(s, r.patch, 0)
  BY <1>5 DEF Requests, SameUpdate
<1>7. request' = [request EXCEPT ![s] = r2]
  BY <1>2, <1>5 DEF Leave
<1> HIDE DEF new
<1>8. \A t \in Begun \ {s} : 0 \notin request[t].dropped
  BY NothingDropsZero
<1>9. Fits(s, r2) /\ Frees(s, r2) /\ RelinksRows(r, r2, {r.patch}, 0)
  BY <1>1, <1>2, <1>3, <1>6, <1>8, FitsRelation
<1>10. Sound(r2)
  BY <1>1, <1>3, <1>6, <1>9, LeaveSound
<1> QED BY <1>1, <1>2, <1>3, <1>6, <1>7, <1>9, <1>10, PlainStatement

LEMMA CountKeeps ==
  ASSUME Tracker, TriageInvariant, NEW s \in Sessions, CountRemaining(s)
  PROVE  TriageInvariant'
<1>1. s \in Begun /\ TriageTypeOK
  BY DEF CountRemaining, TriageInvariant
<1>2. PICK r \in Requests : r = request[s]
  BY <1>1, Typed
<1>3. r.at = "count" /\ Sound(r) /\ UNCHANGED <<patch, relations, addressed>>
  BY <1>1, <1>2 DEF CountRemaining, TriageInvariant
<1>4. Remaining(s) = {q \in Patches : SeenBy(r, q).related = r.related}
  BY <1>2 DEF Remaining, RowOf, SeenBy
<1> DEFINE next == IF Cardinality(Remaining(s)) < 2 THEN "dissolve" ELSE "commit"
           new  == [r EXCEPT !.at = next]
<1>5. new \in Requests
  BY DEF Requests, Statements
<1>6. PICK r2 \in Requests : r2 = new
  BY <1>5
<1>7. /\ SameUpdate(r, r2) /\ r2.at = next /\ r2.related = r.related
      /\ r2.born = r.born /\ r2.dropped = r.dropped /\ r2.written = r.written
  BY <1>6 DEF Requests, SameUpdate
<1>8. request' = [request EXCEPT ![s] = r2]
  BY <1>1, <1>2, <1>6 DEF CountRemaining, TriageTypeOK
<1>9. Fits(s, r2) /\ Frees(s, r2)
  BY <1>1, <1>2, <1>7, FitsAsBefore
<1>10. Sound(r2)
  <2>1. \/ r2.at = "dissolve"
        \/ /\ r2.at = "commit"
           /\ ~(Cardinality({q \in Patches : SeenBy(r, q).related = r.related}) < 2)
    BY <1>4, <1>7
  <2> HIDE DEF new, next
  <2> QED BY <1>1, <1>3, <1>7, <2>1, CountSound
<1> QED BY <1>1, <1>2, <1>3, <1>7, <1>8, <1>9, <1>10, PlainStatement

LEMMA DissolveKeeps ==
  ASSUME Tracker, TriageInvariant, NEW s \in Sessions, Dissolve(s)
  PROVE  TriageInvariant'
<1>1. s \in Begun /\ TriageTypeOK
  BY DEF Dissolve, TriageInvariant
<1>2. PICK r \in Requests : r = request[s]
  BY <1>1, Typed
<1>3. /\ r.at = "dissolve" /\ Sound(r) /\ UNCHANGED <<patch, relations, addressed>>
      /\ Droppable(s, r.related) /\ r.related \in Nat
  BY <1>1, <1>2, Typed DEF Dissolve, TriageInvariant
<1> DEFINE rows == {q \in Patches : SeenBy(r, q).related = r.related}
           writ == [q \in Patches |->
                      IF q \in rows THEN [SeenBy(r, q) EXCEPT !.related = 0]
                      ELSE r.written[q]]
           new  == [r EXCEPT !.written = writ, !.dropped = {r.related}, !.at = "commit"]
<1>4. Remaining(s) = rows /\ \A q \in Patches : RowOf(s, q) = SeenBy(r, q)
  BY <1>2 DEF Remaining, RowOf, SeenBy
<1>5. writ \in [Patches -> Rows \cup {Null}]
  <2>1. ASSUME NEW q \in Patches PROVE [SeenBy(r, q) EXCEPT !.related = 0] \in Rows
    BY <1>1, <1>2, WrittenFacts
  <2>2. \A q \in Patches : r.written[q] \in Rows \cup {Null}
    BY DEF Requests
  <2> QED BY <2>1, <2>2
<1>6. request' = [request EXCEPT ![s] = new]
  BY <1>2, <1>4 DEF Dissolve
<1> HIDE DEF writ
<1>7. new \in Requests
  BY <1>3, <1>5 DEF Requests, Statements
<1>8. PICK r2 \in Requests : r2 = new
  BY <1>7
<1>9. /\ SameUpdate(r, r2) /\ r2.at = "commit" /\ r2.related = r.related
      /\ r2.born = r.born /\ r2.dropped = {r.related} /\ r2.written = writ
  BY <1>8 DEF Requests, SameUpdate
<1>10. request' = [request EXCEPT ![s] = r2]
  BY <1>6, <1>8
<1> HIDE DEF new
<1>11. RelinksRows(r, r2, rows, 0)
  BY <1>9 DEF RelinksRows, writ
<1>12. Sound(r2)
  BY <1>1, <1>3, <1>9, <1>11, DissolveSound
<1>13. Frees(s, r2)
  BY <1>3, <1>9 DEF Frees, Droppable
<1>14. Fits(s, r2)
  <2>1. ASSUME NEW t \in Begun \ {s} PROVE Apart(r, request[t]) /\ 0 \notin request[t].dropped
    BY <1>1, <1>2, <2>1, NothingDropsZero DEF TriageInvariant
  <2>2. ASSUME NEW q \in Patches, q \notin rows, r2.written[q] # Null
        PROVE  /\ r.written[q] # Null
               /\ \A t \in Begun \ {s} : r2.written[q].related \notin request[t].dropped
    <3>1. r2.written[q] = r.written[q]
      BY <1>9, <2>2 DEF writ
    <3> QED BY <2>1, <2>2, <3>1 DEF Apart
  <2>3. ASSUME NEW q \in Patches, q \in rows
        PROVE  /\ r.written[q] # Null \/ LockedBy(q) \subseteq {s}
               /\ r2.written[q].related = 0
    <3>1. PICK row \in Rows : row = SeenBy(r, q)
      BY <1>1, SeenFacts
    <3>2. r2.written[q] = [row EXCEPT !.related = 0]
      BY <1>9, <2>3, <3>1 DEF writ
    <3>3. r2.written[q].related = 0
      BY <3>2 DEF Rows
    <3>4. r.written[q] = Null => patch[q].related = r.related
      BY <2>3 DEF SeenBy
    <3>5. r.written[q] = Null => \A t \in Begun \ {s} : request[t].written[q] = Null
      BY <1>3, <3>4 DEF Droppable
    <3> QED BY <3>3, <3>5 DEF LockedBy
  <2> QED BY <1>2, <2>1, <2>2, <2>3 DEF Fits
<1> QED BY <1>1, <1>2, <1>3, <1>9, <1>10, <1>12, <1>13, <1>14, PlainStatement

\* The request after an item has been looked at.
LEMMA LookedAtFacts ==
  ASSUME NEW r \in Requests
  PROVE  LookedAt(r) \in Requests /\ r.item + 1 \in Nat \ {0}
<1>1. r.item + 1 \in Nat \ {0}
  BY DEF Requests
<1>2. CASE r.item < Len(r.body.related)
  <2>1. PICK next \in Nat \ {0} : next = r.item + 1
    BY <1>1
  <2>2. LookedAt(r) = [r EXCEPT !.at = "look", !.item = next]
    BY <1>2, <2>1 DEF LookedAt, Requests
  <2> QED BY <1>1, <2>2 DEF Requests, Statements
<1>3. CASE ~(r.item < Len(r.body.related))
  <2>1. PICK next \in {"create", "put"} : next = IF r.related = 0 THEN "create" ELSE "put"
    OBVIOUS
  <2>2. PICK first \in Nat \ {0} : first = 1
    OBVIOUS
  <2>3. LookedAt(r) = [r EXCEPT !.at = next, !.item = first]
    BY <1>3, <2>1, <2>2 DEF LookedAt
  <2>4. next \in Statements
    BY <2>1 DEF Statements
  <2> QED BY <1>1, <2>3, <2>4 DEF Requests
<1> QED BY <1>1, <1>2, <1>3

LEMMA LookAtKeeps ==
  ASSUME Tracker, TriageInvariant, NEW s \in Sessions, LookAt(s)
  PROVE  TriageInvariant'
<1>1. s \in Begun /\ TriageTypeOK
  BY DEF LookAt, TriageInvariant
<1>2. PICK r \in Requests : r = request[s]
  BY <1>1, Typed
<1>3. r.at = "look" /\ Sound(r) /\ UNCHANGED <<patch, relations, addressed>>
  BY <1>1, <1>2 DEF LookAt, TriageInvariant
<1>4. PICK q \in Patches : q = r.body.related[r.item]
  BY <1>2 DEF LookAt
<1>5. PICK seen \in Nat : seen = SeenBy(r, q).related
  BY <1>1, SeenFacts, SMTT(30)
<1>6. /\ seen = 0 \/ r.related \in {0, seen}
      /\ request' = [request EXCEPT ![s] =
           IF seen # 0 /\ r.related = 0
           THEN [r EXCEPT !.related = seen, !.at = "adopt"] ELSE LookedAt(r)]
  BY <1>2, <1>4, <1>5 DEF LookAt, RowOf, SeenBy
<1>7. CASE seen # 0 /\ r.related = 0
  <2> DEFINE new == [r EXCEPT !.related = seen, !.at = "adopt"]
  <2>1. new \in Requests
    BY DEF Requests, Statements
  <2>2. PICK r2 \in Requests : r2 = new
    BY <2>1
  <2>3. /\ SameUpdate(r, r2) /\ r2.at = "adopt" /\ r2.related = seen
        /\ r2.born = r.born /\ r2.dropped = r.dropped /\ r2.item = r.item
        /\ r2.written = r.written
    BY <2>2 DEF Requests, SameUpdate
  <2>4. request' = [request EXCEPT ![s] = r2]
    BY <1>6, <1>7, <2>2
  <2> HIDE DEF new
  <2>5. Sound(r2)
    BY <1>1, <1>3, <1>4, <1>5, <1>6, <1>7, <2>3, LookSound
  <2>6. Fits(s, r2) /\ Frees(s, r2)
    BY <1>1, <1>2, <2>3, FitsAsBefore
  <2> QED BY <1>1, <1>2, <1>3, <2>3, <2>4, <2>5, <2>6, PlainStatement
<1>8. CASE ~(seen # 0 /\ r.related = 0)
  <2>1. LookedAt(r) \in Requests
    BY LookedAtFacts
  <2>2. PICK r2 \in Requests : r2 = LookedAt(r)
    BY <2>1
  <2>3. /\ SameUpdate(r, r2) /\ r2.related = r.related
        /\ r2.born = r.born /\ r2.dropped = r.dropped
        /\ r2.written = r.written /\ Advances(r, r2)
    BY <2>2 DEF Requests, SameUpdate, LookedAt, Advances
  <2>4. request' = [request EXCEPT ![s] = r2]
    BY <1>6, <1>8, <2>2
  <2>5. Sound(r2)
    BY <1>1, <1>3, <1>4, <1>5, <1>6, <1>8, <2>3, LookSound
  <2>6. Fits(s, r2) /\ Frees(s, r2)
    BY <1>1, <1>2, <2>3, FitsAsBefore
  <2> QED BY <1>1, <1>2, <1>3, <2>3, <2>4, <2>5, <2>6, PlainStatement
<1> QED BY <1>7, <1>8

\* A relation that can be referred to has not been deleted by others.
LEMMA ReferableFacts ==
  ASSUME NEW s \in Begun, NEW r, r = request[s], NEW id, Referable(s, id)
  PROVE  /\ id \in relations.ids \cup r.born
         /\ \A t \in Begun \ {s} : id \notin request[t].dropped
BY DEF Referable

LEMMA AdoptKeeps ==
  ASSUME Tracker, TriageInvariant, NEW s \in Sessions, Adopt(s)
  PROVE  TriageInvariant'
<1>1. s \in Begun /\ TriageTypeOK
  BY DEF Adopt, TriageInvariant
<1>2. PICK r \in Requests : r = request[s]
  BY <1>1, Typed
<1>3. /\ r.at = "adopt" /\ Sound(r) /\ r.patch \in Patches /\ r.related \in Nat
      /\ LockedBy(r.patch) \subseteq {s} /\ UNCHANGED <<patch, relations, addressed>>
  BY <1>1, <1>2, Typed DEF Adopt, TriageInvariant
<1>4. /\ r.related \in relations.ids \cup r.born
      /\ \A t \in Begun \ {s} : r.related \notin request[t].dropped
  BY <1>1, <1>2, ReferableFacts DEF Adopt
<1> DEFINE writ == Written(s, r.patch, r.related)
           new  == [LookedAt(r) EXCEPT !.written = writ]
<1>5. writ \in [Patches -> Rows \cup {Null}]
  BY <1>1, <1>3, WrittenFacts
<1>6. request' = [request EXCEPT ![s] = new]
  BY <1>2 DEF Adopt
<1> HIDE DEF writ
<1>7. new \in Requests
  <2>1. PICK looked \in Requests : looked = LookedAt(r)
    BY LookedAtFacts
  <2> QED BY <1>5, <2>1 DEF Requests
<1>8. PICK r2 \in Requests : r2 = new
  BY <1>7
<1>9. /\ SameUpdate(r, r2) /\ r2.related = r.related
      /\ r2.born = r.born /\ r2.dropped = r.dropped
      /\ r2.written = writ /\ Advances(r, r2)
  BY <1>8 DEF Requests, SameUpdate, LookedAt, Advances
<1>10. request' = [request EXCEPT ![s] = r2] /\ r2.written = Written(s, r.patch, r.related)
  BY <1>6, <1>8, <1>9 DEF writ
<1> HIDE DEF new
<1>11. Fits(s, r2) /\ Frees(s, r2) /\ RelinksRows(r, r2, {r.patch}, r.related)
  BY <1>1, <1>2, <1>3, <1>4, <1>9, <1>10, FitsRelation
<1>12. Sound(r2)
  BY <1>1, <1>3, <1>4, <1>9, <1>11, AdoptSound
<1> QED BY <1>1, <1>2, <1>3, <1>9, <1>10, <1>11, <1>12, PlainStatement

LEMMA CreateRelationKeeps ==
  ASSUME Tracker, TriageInvariant, NEW s \in Sessions, Create(s)
  PROVE  TriageInvariant'
<1>1. s \in Begun /\ TriageTypeOK
  BY DEF Create, TriageInvariant
<1>2. PICK r \in Requests : r = request[s]
  BY <1>1, Typed
<1>3. /\ r.at = "create" /\ Sound(r) /\ r.patch \in Patches
      /\ LockedBy(r.patch) \subseteq {s} /\ UNCHANGED <<patch, addressed>>
  BY <1>1, <1>2, Typed DEF Create, TriageInvariant
<1>4. /\ relations.last \in Nat
      /\ relations \in [ids: SUBSET (1..MaxRelations), last: 0..MaxRelations]
  BY <1>1 DEF TriageTypeOK
<1>5. PICK id \in Nat : id = relations.last + 1
  BY <1>4
<1>6. id <= MaxRelations /\ relations' = [relations EXCEPT !.last = id]
  BY <1>5 DEF Create
<1>7. /\ relations'.ids = relations.ids /\ relations'.last = id
      /\ relations'.last \in relations.last..MaxRelations
      /\ relations' \in [ids: SUBSET (1..MaxRelations), last: 0..MaxRelations]
  BY <1>4, <1>5, <1>6 DEF Tracker
<1>8. \A t \in Begun \ {s} : id \notin request[t].dropped
  <2>1. \A t \in Begun \ {s} : request[t].dropped \subseteq 1..relations.last
    BY DEF TriageInvariant, Sound, RefersToRows
  <2> QED BY <1>4, <1>5, <2>1
<1> DEFINE writ == Written(s, r.patch, id)
           new  == [r EXCEPT !.written = writ, !.related = id, !.born = {id}, !.at = "put"]
<1>9. writ \in [Patches -> Rows \cup {Null}]
  BY <1>1, <1>3, WrittenFacts
<1>10. request' = [request EXCEPT ![s] = new]
  BY <1>2, <1>5 DEF Create
<1> HIDE DEF writ
<1>11. new \in Requests
  BY <1>9 DEF Requests, Statements
<1>12. PICK r2 \in Requests : r2 = new
  BY <1>11
<1>13. /\ SameUpdate(r, r2) /\ r2.related = id /\ r2.at = "put" /\ r2.item = r.item
       /\ r2.born = {id} /\ r2.dropped = r.dropped /\ r2.written = writ
  BY <1>12 DEF Requests, SameUpdate
<1>14. request' = [request EXCEPT ![s] = r2] /\ r2.written = Written(s, r.patch, id)
  BY <1>10, <1>12, <1>13 DEF writ
<1> HIDE DEF new
<1>15. Fits(s, r2) /\ Frees(s, r2) /\ RelinksRows(r, r2, {r.patch}, id)
  BY <1>1, <1>2, <1>3, <1>8, <1>13, <1>14, FitsRelation
<1>16. Sound(r2)'
  BY <1>1, <1>3, <1>5, <1>7, <1>13, <1>15, CreateSound
<1> QED BY <1>1, <1>2, <1>3, <1>7, <1>13, <1>14, <1>15, <1>16, StatementKeeps

LEMMA PutKeeps ==
  ASSUME Tracker, TriageInvariant, NEW s \in Sessions, Put(s)
  PROVE  TriageInvariant'
<1>1. s \in Begun /\ TriageTypeOK
  BY DEF Put, TriageInvariant
<1>2. PICK r \in Requests : r = request[s]
  BY <1>1, Typed
<1>3. /\ r.at = "put" /\ Sound(r) /\ r.related \in Nat
      /\ UNCHANGED <<patch, relations, addressed>>
  BY <1>1, <1>2, Typed DEF Put, TriageInvariant
<1>4. /\ r.related \in relations.ids \cup r.born
      /\ \A t \in Begun \ {s} : r.related \notin request[t].dropped
  BY <1>1, <1>2, ReferableFacts DEF Put
<1>5. PICK q \in Patches : q = r.body.related[r.item]
  <2>1. /\ r.item \in 1..Len(r.body.related)
        /\ \A j \in Looked(r) : r.body.related[j] \in Patches
    BY <1>1, <1>3, OnList
  <2>2. Looked(r) = 1..Len(r.body.related)
    BY <1>3 DEF Looked
  <2> QED BY <2>1, <2>2
<1>6. LockedBy(q) \subseteq {s}
  BY <1>2, <1>5 DEF Put
<1> DEFINE writ == Written(s, q, r.related)
           next == IF r.item < Len(r.body.related) THEN "put" ELSE "commit"
           new  == [r EXCEPT !.written = writ, !.at = next, !.item = @ + 1]
<1>7. writ \in [Patches -> Rows \cup {Null}]
  BY <1>1, <1>3, WrittenFacts
<1>8. request' = [request EXCEPT ![s] = new]
  BY <1>2, <1>5 DEF Put
<1> HIDE DEF writ
<1>9. new \in Requests
  <2>1. r.item + 1 \in Nat \ {0}
    BY LookedAtFacts
  <2>2. new = [r EXCEPT !.written = writ, !.at = next, !.item = r.item + 1]
    BY DEF Requests
  <2> QED BY <1>7, <2>1, <2>2 DEF Requests, Statements
<1>10. PICK r2 \in Requests : r2 = new
  BY <1>9
<1>11. /\ SameUpdate(r, r2) /\ r2.related = r.related /\ r2.at = next
       /\ r2.item = r.item + 1 /\ r2.born = r.born /\ r2.dropped = r.dropped
       /\ r2.written = writ
  BY <1>10 DEF Requests, SameUpdate
<1>12. request' = [request EXCEPT ![s] = r2] /\ r2.written = Written(s, q, r.related)
  BY <1>8, <1>10, <1>11 DEF writ
<1> HIDE DEF new
<1>13. Fits(s, r2) /\ Frees(s, r2) /\ RelinksRows(r, r2, {q}, r.related)
  BY <1>1, <1>2, <1>3, <1>4, <1>6, <1>11, <1>12, FitsRelation
<1>14. RelinksRows(r, r2, {r.body.related[r.item]}, r.related)
  BY <1>5, <1>13
<1>15. Sound(r2)
  BY <1>1, <1>3, <1>4, <1>11, <1>14, PutSound
<1> QED BY <1>1, <1>2, <1>3, <1>11, <1>12, <1>13, <1>15, PlainStatement

(***************************************************************************)
(* Loading, committing and the other requests.                             *)
(***************************************************************************)

LEMMA LoadKeeps ==
  ASSUME Tracker, TriageInvariant, NEW s \in Sessions, NEW u \in Users, NEW p \in Patches,
         NEW body \in Bodies, Load(s, u, p, body)
  PROVE  TriageInvariant'
<1>1. /\ TriageTypeOK /\ request \in [Sessions -> Requests \cup {Null}]
      /\ request[s] = Null /\ IsMaintainer(u, p) /\ UNCHANGED <<patch, relations, addressed>>
      /\ patch[p] \in Rows
  BY DEF Load, TriageInvariant, TriageTypeOK
<1>2. PICK row \in Rows : row = patch[p]
  BY <1>1
<1>3. PICK alone \in BOOLEAN : alone = \A o \in Sessions : ~Relates(o)
  OBVIOUS
<1>4. PICK none \in [Patches -> Rows \cup {Null}] : none = [q \in Patches |-> Null]
  OBVIOUS
<1> DEFINE new == [user |-> u, patch |-> p, body |-> body, row |-> row,
                   related |-> row.related, written |-> none,
                   born |-> {}, dropped |-> {}, at |-> "write", item |-> 1,
                   alone |-> alone]
<1>5. new \in Requests
  BY DEF Requests, Rows, Statements
<1>6. PICK r \in Requests : r = new
  BY <1>5
<1>7. /\ r.user = u /\ r.patch = p /\ r.body = body /\ r.row = row /\ r.related = row.related
      /\ r.born = {} /\ r.dropped = {} /\ r.at = "write" /\ r.item = 1 /\ r.alone = alone
      /\ \A q \in Patches : r.written[q] = Null
  BY <1>4, <1>6
<1>8. /\ request'[s] = r
      /\ \A t \in Sessions \ {s} : request'[t] =
           IF request[t] = Null THEN Null
           ELSE [request[t] EXCEPT !.alone = @ /\ body.related = Null]
      /\ DOMAIN request' = Sessions /\ request' = [t \in Sessions |-> request'[t]]
  BY <1>2, <1>3, <1>4, <1>6 DEF Load
<1> HIDE DEF new
<1>9. Sound(r)
  <2>1. WritesItsOwn(r) /\ WritesTheBody(r) /\ LeavesRelations(r)
    BY <1>1, <1>7 DEF WritesItsOwn, WritesTheBody, LeavesRelations
  <2>2. RefersToRows(r)
    <3>1. /\ relations.last \in Nat /\ relations.ids \subseteq 1..MaxRelations
          /\ \A id \in relations.ids : id <= relations.last
          /\ patch[p].related \in {0} \cup relations.ids
      BY <1>1 DEF TriageTypeOK
    <3>2. row.related \in 0..relations.last
      BY <1>2, <3>1 DEF Tracker
    <3> QED BY <1>7, <3>2 DEF RefersToRows
  <2>3. HasList(r) => 1 \in 1..Len(r.body.related) /\ Looked(r) = {}
    BY <1>7, ListFacts DEF Looked
  <2>4. FollowsTheList(r) /\ PutsTogether(r)
    BY <1>7, <2>3 DEF FollowsTheList, PutsTogether
  <2>5. \A q \in Patches : SeenBy(r, q) = patch[q]
    BY <1>7 DEF SeenBy
  <2>6. KeepsRelations(r)
    BY <1>2, <1>7, <2>3, <2>5 DEF KeepsRelations
  <2> QED BY <2>1, <2>2, <2>4, <2>6 DEF Sound
<1>10. ASSUME NEW t \in Begun, t # s
       PROVE  \E o \in Requests :
                /\ o = request'[t] /\ Sound(o)
                /\ o.written = request[t].written /\ o.dropped = request[t].dropped
                /\ o.body = request[t].body
                /\ o.alone => request[t].alone /\ body.related = Null
  <2>1. PICK r1 \in Requests : r1 = request[t]
    BY <1>1, Typed
  <2>2. PICK still \in BOOLEAN : still = (r1.alone /\ body.related = Null)
    OBVIOUS
  <2>3. request'[t] = [r1 EXCEPT !.alone = still]
    BY <1>8, <1>10, <2>1, <2>2 DEF Begun
  <2>4. PICK o \in Requests : o = [r1 EXCEPT !.alone = still]
    BY DEF Requests
  <2>5. /\ o.user = r1.user /\ o.patch = r1.patch /\ o.body = r1.body /\ o.row = r1.row
        /\ o.related = r1.related /\ o.written = r1.written /\ o.born = r1.born
        /\ o.dropped = r1.dropped /\ o.at = r1.at /\ o.item = r1.item
        /\ o.alone => r1.alone /\ body.related = Null
    BY <2>2, <2>4 DEF Requests
  <2>6. Sound(r1)
    BY <2>1 DEF TriageInvariant
  <2>7. WritesItsOwn(o) /\ RefersToRows(o) /\ WritesTheBody(o) /\ LeavesRelations(o)
    BY <2>5, <2>6 DEF Sound, WritesItsOwn, RefersToRows, WritesTheBody, LeavesRelations
  <2>8. HasList(o) = HasList(r1) /\ Looked(o) = Looked(r1)
    BY <2>5 DEF HasList, Looked
  <2>9. FollowsTheList(o) /\ PutsTogether(o)
    BY <2>5, <2>6, <2>8 DEF Sound, FollowsTheList, PutsTogether
  <2>10. \A q \in Patches : SeenBy(o, q) = SeenBy(r1, q)
    BY <2>5 DEF SeenBy
  <2>11. EndsWell(r1) => EndsWell(o)
    BY <2>5, <2>10 DEF EndsWell
  <2>12. o.alone => KeepsRelations(o)
    <3>1. KeepsRelations(r1) /\ r1.patch \in Patches
      BY <2>6 DEF Sound, Requests
    <3> QED BY <2>5, <2>8, <2>10, <2>11, <3>1 DEF KeepsRelations
  <2>13. Sound(o)
    BY <2>7, <2>9, <2>12 DEF Sound, KeepsRelations
  <2> QED BY <2>1, <2>3, <2>4, <2>5, <2>13
<1>11. TriageTypeOK'
  <2>1. ASSUME NEW t \in Sessions
        PROVE  request'[t] \in Requests \cup {Null}
    BY <1>8, <1>10 DEF Begun
  <2>2. request' \in [Sessions -> Requests \cup {Null}]
    BY <1>8, <2>1
  <2> QED BY <1>1, <2>2 DEF TriageTypeOK
<1>12. \A t \in Begun' : t = s \/ t \in Begun
  BY <1>8 DEF Begun
<1>13. ASSUME NEW o \in Requests, Sound(o)
       PROVE  Sound(o)'
  <2>1. relations.last \in Nat
    BY <1>1 DEF TriageTypeOK
  <2>2. Undisturbed(o) /\ Referred(o)
    BY <1>1, <2>1 DEF Undisturbed, Referred
  <2> QED BY <1>13, <2>2, SoundStays
<1>14. ASSUME NEW t \in Begun'
       PROVE  Sound(request[t])'
  <2>1. CASE t = s
    BY <1>8, <1>9, <1>13, <2>1
  <2>2. CASE t # s
    <3>1. PICK o \in Requests : o = request'[t] /\ Sound(o)
      BY <1>10, <1>12, <2>2
    <3> QED BY <1>13, <3>1
  <2> QED BY <2>1, <2>2
<1>15. ASSUME NEW t \in Begun', NEW v \in Begun', t # v
       PROVE  Apart(request[t], request[v])'
  <2>1. CASE t = s
    <3>1. v \in Begun /\ v # s /\ v \in Sessions
      BY <1>12, <1>15, <2>1 DEF Begun
    <3>2. PICK o \in Requests : o = request'[v] /\ o.body = request[v].body
      BY <1>10, <3>1
    <3>3. alone => o.body.related = Null
      BY <1>3, <3>1, <3>2 DEF Relates, Begun
    <3>4. Apart(r, o)
      BY <1>7, <3>3 DEF Apart
    <3> QED BY <1>8, <2>1, <3>2, <3>4 DEF Apart
  <2>2. CASE v = s
    <3>1. t \in Begun /\ t # s
      BY <1>12, <1>15, <2>2
    <3>2. PICK o \in Requests : /\ o = request'[t]
                                /\ o.alone => body.related = Null
      BY <1>10, <3>1
    <3>3. Apart(o, r)
      BY <1>7, <3>2 DEF Apart
    <3> QED BY <1>8, <2>2, <3>2, <3>3 DEF Apart
  <2>3. CASE t # s /\ v # s
    <3>1. t \in Begun /\ v \in Begun
      BY <1>12, <2>3
    <3>2. PICK o \in Requests :
            /\ o = request'[t] /\ o.written = request[t].written
            /\ o.alone => request[t].alone
      BY <1>10, <2>3, <3>1
    <3>3. PICK w \in Requests :
            /\ w = request'[v] /\ w.written = request[v].written
            /\ w.dropped = request[v].dropped /\ w.body = request[v].body
      BY <1>10, <2>3, <3>1
    <3>4. Apart(request[t], request[v])
      BY <1>15, <3>1 DEF TriageInvariant
    <3>5. Apart(o, w)
      BY <3>2, <3>3, <3>4 DEF Apart
    <3> QED BY <3>2, <3>3, <3>5 DEF Apart
  <2> QED BY <2>1, <2>2, <2>3
<1> QED BY <1>11, <1>14, <1>15 DEF TriageInvariant

\* Requests that go on while the tables change.
LEMMA OthersGoOn ==
  ASSUME TriageInvariant, TriageTypeOK',
         \A t \in Begun' : /\ t \in Begun /\ request'[t] = request[t]
                           /\ Undisturbed(request[t]) /\ Referred(request[t])
  PROVE  TriageInvariant'
<1>1. ASSUME NEW t \in Begun'
      PROVE  Sound(request[t])'
  <2>1. TriageTypeOK
    BY DEF TriageInvariant
  <2>2. PICK o \in Requests : o = request[t]
    BY <1>1, <2>1, Typed
  <2>3. Sound(o) /\ Undisturbed(o) /\ Referred(o)
    BY <1>1, <2>2 DEF TriageInvariant
  <2>4. Sound(o)'
    BY <2>3, SoundStays
  <2> QED BY <1>1, <2>2, <2>4
<1>2. ASSUME NEW t \in Begun', NEW u \in Begun', t # u
      PROVE  Apart(request[t], request[u])'
  <2>1. Apart(request[t], request[u])
    BY <1>2 DEF TriageInvariant
  <2>2. request'[t] = request[t] /\ request'[u] = request[u]
    BY <1>2
  <2> QED BY <2>1, <2>2 DEF Apart
<1> QED BY <1>1, <1>2 DEF TriageInvariant

\* What a commit writes, and what it leaves to the others.
LEMMA CommitFacts ==
  ASSUME Tracker, TriageInvariant, NEW s \in Sessions, CommitUpdate(s),
         NEW r \in Requests, r = request[s]
  PROVE  /\ s \in Begun /\ Sound(r) /\ r.at = "commit"
         /\ \A q \in Patches : patch'[q] = SeenBy(r, q)
         /\ patch' \in [Patches -> Rows]
         /\ relations'.ids = (relations.ids \cup r.born) \ r.dropped
         /\ relations'.last = relations.last
         /\ relations' \in [ids: SUBSET (1..MaxRelations), last: 0..MaxRelations]
<1>1. s \in Begun /\ Sound(r) /\ r.at = "commit" /\ TriageTypeOK
  BY DEF CommitUpdate, TriageInvariant
<1>2. patch' = [q \in Patches |-> RowOf(s, q)]
  BY DEF CommitUpdate
<1>3. \A q \in Patches : patch'[q] = SeenBy(r, q) /\ SeenBy(r, q) \in Rows
  BY <1>1, <1>2, SeenFacts DEF RowOf, SeenBy
<1>4. /\ relations \in [ids: SUBSET (1..MaxRelations), last: 0..MaxRelations]
      /\ r.born \subseteq 1..relations.last
  BY <1>1 DEF TriageTypeOK, Sound, RefersToRows
<1>5. PICK ids \in SUBSET (1..MaxRelations) : ids = (relations.ids \cup r.born) \ r.dropped
  <2>1. r.born \subseteq 1..MaxRelations
    BY <1>4 DEF Tracker
  <2> QED BY <1>4, <2>1
<1>6. relations' = [relations EXCEPT !.ids = ids]
  BY <1>5 DEF CommitUpdate
<1> QED BY <1>1, <1>2, <1>3, <1>4, <1>5, <1>6

LEMMA CommitKeeps ==
  ASSUME Tracker, TriageInvariant, NEW s \in Sessions, CommitUpdate(s)
  PROVE  TriageInvariant'
<1>1. TriageTypeOK /\ s \in Begun
  BY DEF TriageInvariant, CommitUpdate
<1>2. PICK r \in Requests : r = request[s]
  BY <1>1, Typed
<1>3. /\ Sound(r) /\ \A q \in Patches : patch'[q] = SeenBy(r, q)
      /\ patch' \in [Patches -> Rows]
      /\ relations'.ids = (relations.ids \cup r.born) \ r.dropped
      /\ relations'.last = relations.last
      /\ relations' \in [ids: SUBSET (1..MaxRelations), last: 0..MaxRelations]
  BY <1>2, CommitFacts
<1>4. request' = [request EXCEPT ![s] = Null] /\ UNCHANGED addressed
  BY DEF CommitUpdate
<1>5. TriageTypeOK'
  <2>1. RefersToRows(r)
    BY <1>3 DEF Sound
  <2>2. ASSUME NEW q \in Patches
        PROVE  patch'[q].related \in {0} \cup relations'.ids
    <3>1. CASE r.written[q] # Null
      BY <1>3, <2>1, <3>1 DEF SeenBy, RefersToRows
    <3>2. CASE r.written[q] = Null
      BY <1>1, <1>3, <2>1, <3>2 DEF SeenBy, RefersToRows, TriageTypeOK
    <3> QED BY <3>1, <3>2
  <2>3. \A id \in relations'.ids : id <= relations'.last
    <3>1. /\ \A id \in relations.ids : id <= relations.last
          /\ relations.last \in Nat
      BY <1>1 DEF TriageTypeOK
    <3> QED BY <1>3, <2>1, <3>1 DEF RefersToRows
  <2>4. request' \in [Sessions -> Requests \cup {Null}]
    BY <1>1, <1>4 DEF TriageTypeOK
  <2>5. addressed' \in [Comments -> BOOLEAN \cup {Null}]
    BY <1>1, <1>4 DEF TriageTypeOK
  <2> QED BY <1>3, <2>2, <2>3, <2>4, <2>5 DEF TriageTypeOK
<1>6. ASSUME NEW t \in Begun'
      PROVE  /\ t \in Begun /\ request'[t] = request[t]
             /\ Undisturbed(request[t]) /\ Referred(request[t])
  <2>1. t \in Begun /\ t # s /\ request'[t] = request[t]
    BY <1>1, <1>4, <1>6 DEF Begun, TriageTypeOK
  <2>2. PICK o \in Requests : o = request[t]
    BY <1>1, <2>1, Typed
  <2>3. Apart(r, o) /\ Apart(o, r)
    BY <1>1, <1>2, <2>1, <2>2 DEF TriageInvariant
  <2>4. \A q \in Patches : o.written[q] # Null => patch'[q] = patch[q]
    BY <1>3, <2>3 DEF Apart, SeenBy
  <2>5. ASSUME o.alone, o.body.related # Null
        PROVE  /\ \A q \in Patches : patch'[q].related = patch[q].related
               /\ relations'.ids = relations.ids
    <3>1. r.body.related = Null
      BY <2>3, <2>5 DEF Apart
    <3>2. LeavesRelations(r)
      BY <1>3 DEF Sound
    <3> QED BY <1>3, <3>1, <3>2 DEF LeavesRelations, SeenBy
  <2>6. Undisturbed(o)
    BY <2>4, <2>5 DEF Undisturbed
  <2>7. Referred(o)
    <3>1. relations.last \in Nat
      BY <1>1 DEF TriageTypeOK
    <3>2. \A q \in Patches : o.written[q] # Null /\ o.written[q].related \in relations.ids
            => o.written[q].related \in relations'.ids
      BY <1>3, <2>3 DEF Apart
    <3>3. \A q \in Patches : patch'[q].related \in o.dropped
            => patch[q].related \in o.dropped
      BY <1>3, <2>3 DEF Apart, SeenBy
    <3> QED BY <1>3, <3>1, <3>2, <3>3 DEF Referred
  <2> QED BY <2>1, <2>2, <2>6, <2>7
<1> QED BY <1>5, <1>6, OthersGoOn

LEMMA AbortKeeps ==
  ASSUME Tracker, TriageInvariant, NEW s \in Sessions, AbortUpdate(s)
  PROVE  TriageInvariant'
<1>1. /\ TriageTypeOK /\ request' = [request EXCEPT ![s] = Null]
      /\ UNCHANGED <<patch, relations, addressed>>
  BY DEF TriageInvariant, AbortUpdate
<1>2. TriageTypeOK'
  BY <1>1 DEF TriageTypeOK
<1>3. \A t \in Begun' : t \in Begun /\ request'[t] = request[t]
  BY <1>1 DEF Begun, TriageTypeOK
<1>4. relations.last \in Nat
  BY <1>1 DEF TriageTypeOK
<1>5. \A t \in Begun' : Undisturbed(request[t]) /\ Referred(request[t])
  BY <1>1, <1>4 DEF Undisturbed, Referred
<1> QED BY <1>2, <1>3, <1>5, OthersGoOn

\* A form changes rows that nobody has locked, and no relation.
LEMMA FormFacts ==
  ASSUME Tracker, TriageInvariant, UNCHANGED <<relations, addressed, request>>,
         patch' = [p \in Patches |-> patch'[p]],
         \A p \in Patches :
           /\ patch'[p] \in Rows /\ patch'[p].related = patch[p].related
           /\ patch'[p] # patch[p] => LockedBy(p) = {}
  PROVE  TriageInvariant'
<1>1. TriageTypeOK /\ relations.last \in Nat
  BY DEF TriageInvariant, TriageTypeOK
<1>2. TriageTypeOK'
  <2>1. patch' \in [Patches -> Rows]
    OBVIOUS
  <2>2. \A p \in Patches : patch'[p].related \in {0} \cup relations'.ids
    BY <1>1 DEF TriageTypeOK
  <2> QED BY <1>1, <2>1, <2>2 DEF TriageTypeOK
<1>3. \A t \in Begun' : t \in Begun /\ request'[t] = request[t]
  BY DEF Begun
<1>4. ASSUME NEW t \in Begun
      PROVE  Undisturbed(request[t]) /\ Referred(request[t])
  <2>1. \A q \in Patches : request[t].written[q] # Null => patch'[q] = patch[q]
    BY DEF LockedBy
  <2> QED BY <1>1, <2>1 DEF Undisturbed, Referred
<1> QED BY <1>2, <1>3, <1>4, OthersGoOn

LEMMA PatchUpdateFacts ==
  ASSUME Tracker, TriageInvariant, NEW u \in Users, NEW p \in Patches, NEW form \in Forms,
         PatchUpdate(u, p, form)
  PROVE  /\ \A q \in Patches \ {p} : patch'[q] = patch[q]
         /\ \A q \in Patches : patch'[q].related = patch[q].related
         /\ TriageInvariant'
<1> DEFINE row == Updated(patch[p], form)
<1>1. /\ patch \in [Patches -> Rows] /\ patch[p] \in Rows
      /\ form.delegate \in Users \cup {Null}
  BY DEF TriageInvariant, TriageTypeOK, Tracker
<1>2. row \in Rows /\ row.related = patch[p].related
  BY <1>1, UpdatedFacts
<1>3. patch' = [patch EXCEPT ![p] = [row EXCEPT !.delegate = form.delegate]]
  BY DEF PatchUpdate
<1> HIDE DEF row
<1>4. /\ [row EXCEPT !.delegate = form.delegate] \in Rows
      /\ [row EXCEPT !.delegate = form.delegate].related = row.related
  BY <1>1, <1>2 DEF Rows
<1>5. /\ patch' = [q \in Patches |-> patch'[q]]
      /\ patch'[p] = [row EXCEPT !.delegate = form.delegate]
      /\ \A q \in Patches \ {p} : patch'[q] = patch[q] /\ patch[q] \in Rows
  BY <1>1, <1>3
<1>6. \A q \in Patches : patch'[q] \in Rows /\ patch'[q].related = patch[q].related
  BY <1>2, <1>4, <1>5
<1>7. UNCHANGED <<relations, addressed, request>> /\ LockedBy(p) = {}
  BY DEF PatchUpdate
<1> QED BY <1>5, <1>6, <1>7, FormFacts

LEMMA PatchListUpdateFacts ==
  ASSUME Tracker, TriageInvariant, NEW u \in Users, NEW ids \in SUBSET Patches, NEW project,
         NEW form \in ListForms, PatchListUpdate(u, ids, project, form)
  PROVE  /\ \A q \in Patches \ Ticked(u, ids, project) : patch'[q] = patch[q]
         /\ \A q \in Patches : patch'[q].related = patch[q].related
         /\ TriageInvariant'
<1>1. patch \in [Patches -> Rows]
  BY DEF TriageInvariant, TriageTypeOK
<1>2. patch' = [p \in Patches |->
                  IF p \notin Ticked(u, ids, project) THEN patch[p]
                  ELSE IF form.clear
                  THEN [Updated(patch[p], form) EXCEPT !.delegate = Null]
                  ELSE Updated(patch[p], form)]
  BY DEF PatchListUpdate
<1>3. ASSUME NEW p \in Patches
      PROVE  patch'[p] \in Rows /\ patch'[p].related = patch[p].related
  <2> DEFINE row == Updated(patch[p], form)
  <2>1. patch[p] \in Rows
    BY <1>1
  <2>2. row \in Rows /\ row.related = patch[p].related
    BY <2>1, UpdatedFacts
  <2>3. patch'[p] \in {patch[p], row, [row EXCEPT !.delegate = Null]}
    BY <1>2
  <2> HIDE DEF row
  <2>4. /\ [row EXCEPT !.delegate = Null] \in Rows
        /\ [row EXCEPT !.delegate = Null].related = row.related
    BY <2>2 DEF Rows
  <2> QED BY <2>1, <2>2, <2>3, <2>4
<1>4. patch' = [q \in Patches |-> patch'[q]]
  BY <1>2
<1>5. UNCHANGED <<relations, addressed, request>>
  BY DEF PatchListUpdate
<1>6. \A q \in Patches \ Ticked(u, ids, project) : patch'[q] = patch[q]
  BY <1>2
<1>7. \A q \in Patches : patch'[q] # patch[q] => LockedBy(q) = {}
  BY <1>6 DEF PatchListUpdate
<1> QED BY <1>3, <1>4, <1>5, <1>6, <1>7, FormFacts

\* The flag of a comment.
LEMMA FlagFacts ==
  ASSUME TriageInvariant, NEW c \in Comments, NEW value \in BOOLEAN,
         addressed' = [addressed EXCEPT ![c] = value],
         UNCHANGED <<patch, relations, request>>
  PROVE  TriageInvariant' /\ \A d \in Comments \ {c} : addressed'[d] = addressed[d]
<1>1. addressed \in [Comments -> BOOLEAN \cup {Null}] /\ relations.last \in Nat
  BY DEF TriageInvariant, TriageTypeOK
<1>2. addressed' \in [Comments -> BOOLEAN \cup {Null}]
  BY <1>1
<1>3. \A d \in Comments \ {c} : addressed'[d] = addressed[d]
  BY <1>1
<1>4. TriageTypeOK'
  BY <1>2 DEF TriageInvariant, TriageTypeOK
<1>5. \A t \in Begun' : t \in Begun /\ request'[t] = request[t]
  BY DEF Begun
<1>6. \A t \in Begun : Undisturbed(request[t]) /\ Referred(request[t])
  BY <1>1 DEF Undisturbed, Referred
<1>7. TriageInvariant'
  BY <1>4, <1>5, <1>6, OthersGoOn
<1> QED BY <1>3, <1>7

(***************************************************************************)
(* The invariant.                                                          *)
(***************************************************************************)

LEMMA InvariantInit ==
  ASSUME Tracker, TriageInit
  PROVE  TriageInvariant
<1>1. [state |-> InitialState, delegate |-> Null, archived |-> FALSE, related |-> 0] \in Rows
  BY DEF Tracker, Rows
<1>2. patch \in [Patches -> Rows]
  BY <1>1 DEF TriageInit
<1>3. \A p \in Patches : patch[p].related \in {0} \cup relations.ids
  BY DEF TriageInit
<1>4. /\ relations \in [ids: SUBSET (1..MaxRelations), last: 0..MaxRelations]
      /\ \A id \in relations.ids : id <= relations.last
  <2>1. relations = [ids |-> {}, last |-> 0]
    BY DEF TriageInit
  <2>2. 0 \in 0..MaxRelations
    BY DEF Tracker
  <2>3. {} \in SUBSET (1..MaxRelations)
    OBVIOUS
  <2> QED BY <2>1, <2>2, <2>3
<1>5. addressed \in [Comments -> BOOLEAN \cup {Null}]
  BY DEF TriageInit
<1>6. request \in [Sessions -> Requests \cup {Null}] /\ Begun = {}
  BY DEF TriageInit, Begun
<1> QED BY <1>2, <1>3, <1>4, <1>5, <1>6 DEF TriageInvariant, TriageTypeOK

LEMMA UpdateStatementKeeps ==
  ASSUME Tracker, TriageInvariant, NEW s \in Sessions, UpdatePatch(s)
  PROVE  TriageInvariant'
BY WritePatchKeeps, LeaveKeeps, CountKeeps, DissolveKeeps, LookAtKeeps, AdoptKeeps,
   CreateRelationKeeps, PutKeeps, CommitKeeps, AbortKeeps DEF UpdatePatch

LEMMA InvariantNext ==
  ASSUME Tracker, TriageInvariant, [TriageNext]_triageVars
  PROVE  TriageInvariant'
<1>1. ASSUME NEW c \in Comments, NEW value \in BOOLEAN, NEW u \in Users,
             \/ UpdatePatchComment(u, c, value)
             \/ UpdateCoverComment(u, c, value)
             \/ CommentAddressed(u, c, value)
      PROVE  TriageInvariant'
  <2>1. /\ addressed' = [addressed EXCEPT ![c] = value]
        /\ UNCHANGED <<patch, relations, request>>
    BY <1>1 DEF UpdatePatchComment, UpdateCoverComment, CommentAddressed
  <2> QED BY <2>1, FlagFacts
<1>2. CASE UNCHANGED triageVars
  <2>1. TriageTypeOK' /\ relations.last \in Nat
    BY <1>2 DEF triageVars, TriageInvariant, TriageTypeOK
  <2>2. \A t \in Begun' : t \in Begun /\ request'[t] = request[t]
    BY <1>2 DEF triageVars, Begun
  <2>3. \A t \in Begun : Undisturbed(request[t]) /\ Referred(request[t])
    BY <1>2, <2>1 DEF triageVars, Undisturbed, Referred
  <2> QED BY <2>1, <2>2, <2>3, OthersGoOn
<1>3. ASSUME NEW s \in Sessions, UpdatePatch(s)
      PROVE  TriageInvariant'
  BY <1>3, UpdateStatementKeeps
<1>4. ASSUME NEW s \in Sessions, NEW u \in Users, NEW p \in Patches, NEW body \in Bodies,
             Load(s, u, p, body)
      PROVE  TriageInvariant'
  BY <1>4, LoadKeeps
<1>5. ASSUME NEW u \in Users, NEW p \in Patches, NEW form \in Forms, PatchUpdate(u, p, form)
      PROVE  TriageInvariant'
  BY <1>5, PatchUpdateFacts
<1>6. ASSUME NEW u \in Users, NEW ids \in SUBSET Patches, NEW project, NEW form \in ListForms,
             PatchListUpdate(u, ids, project, form)
      PROVE  TriageInvariant'
  BY <1>6, PatchListUpdateFacts
<1> QED BY <1>1, <1>2, <1>3, <1>4, <1>5, <1>6 DEF TriageNext, Api, Web

LEMMA InvariantHolds ==
  ASSUME Tracker
  PROVE  TriageSpec => []TriageInvariant
<1>1. TriageInit => TriageInvariant
  BY InvariantInit
<1>2. TriageInvariant /\ [TriageNext]_triageVars => TriageInvariant'
  BY InvariantNext
<1> QED BY <1>1, <1>2, PTL DEF TriageSpec

(***************************************************************************)
(* The theorems.                                                           *)
(***************************************************************************)

\* The columns keep their types, whatever the requests and however the
\* statements of their updates interleave, and a patch only refers to a relation
\* that exists: patch.related_id is not left dangling by a relation dissolved
\* while other updates still write references to it.
THEOREM TriageTypes ==
  ASSUME Tracker
  PROVE  TriageSpec => []TriageTypeOK
<1>1. TriageInvariant => TriageTypeOK
  BY DEF TriageInvariant
<1> QED BY <1>1, InvariantHolds, PTL

\* Before its commit a statement shows nothing to others.
LEMMA UpdateSteps ==
  ASSUME NEW s \in Sessions, UpdatePatch(s)
  PROVE  \/ CommitUpdate(s)
         \/ UNCHANGED <<patch, addressed, relations.ids>> /\ last'.events = {}
         \/ UNCHANGED <<patch, addressed, relations.ids, last>>
<1>1. CASE WritePatch(s)
  BY <1>1 DEF WritePatch
<1>2. CASE Create(s)
  <2>1. relations' = [relations EXCEPT !.last = relations.last + 1]
    BY <1>2 DEF Create
  <2> QED BY <1>2, <2>1 DEF Create
<1>3. CASE AbortUpdate(s)
  BY <1>3 DEF AbortUpdate, Published
<1>4. CASE Leave(s) \/ CountRemaining(s) \/ Dissolve(s) \/ LookAt(s) \/ Adopt(s) \/ Put(s)
  BY <1>4 DEF Leave, CountRemaining, Dissolve, LookAt, Adopt, Put
<1> QED BY <1>1, <1>2, <1>3, <1>4 DEF UpdatePatch

\* One step changes a patch, or a comment, only for somebody who may.
LEMMA StepHadTheRight ==
  ASSUME Tracker, TriageInvariant, [TriageNext]_triageVars
  PROVE  HadTheRight \/ UNCHANGED triageVars
<1>0. HadTheRight \/ ~UNCHANGED <<patch, addressed>>
  BY DEF HadTheRight
<1>1. ASSUME NEW s \in Sessions, CommitUpdate(s)
      PROVE  HadTheRight
  <2>1. PICK r \in Requests : r = request[s]
    BY <1>1, Typed DEF CommitUpdate, TriageInvariant
  <2>2. Sound(r) /\ \A q \in Patches : patch'[q] = SeenBy(r, q)
    BY <1>1, <2>1, CommitFacts
  <2>3. last'.actor = r.user /\ UNCHANGED addressed
    BY <1>1, <2>1 DEF CommitUpdate
  <2>4. IsMaintainer(r.user, r.patch)
    BY <2>2 DEF Sound, WritesItsOwn
  <2>5. \A q \in Patches \ {r.patch} :
          [patch'[q] EXCEPT !.related = 0] = [patch[q] EXCEPT !.related = 0]
    BY <2>2 DEF Sound, WritesItsOwn, SeenBy
  <2> QED BY <2>3, <2>4, <2>5 DEF HadTheRight
<1>2. ASSUME NEW s \in Sessions, UpdatePatch(s)
      PROVE  HadTheRight
  BY <1>0, <1>1, <1>2, UpdateSteps
<1>3. ASSUME NEW c \in Comments, NEW value \in BOOLEAN, NEW u \in Users,
             \/ UpdatePatchComment(u, c, value)
             \/ UpdateCoverComment(u, c, value)
             \/ CommentAddressed(u, c, value)
      PROVE  HadTheRight
  <2>1. /\ addressed' = [addressed EXCEPT ![c] = value]
        /\ UNCHANGED <<patch, relations, request>> /\ last'.actor = u
    BY <1>3 DEF UpdatePatchComment, UpdateCoverComment, CommentAddressed, Silent
  <2>2. \A d \in Comments \ {c} : addressed'[d] = addressed[d]
    BY <2>1, FlagFacts
  <2>3. \/ IsMaintainer(u, CommentOn[c])
        \/ CommentOn[c] \in Patches /\ SubmittedBy[CommentOn[c]] = u
    BY <1>3 DEF UpdatePatchComment, UpdateCoverComment, CommentAddressed, CanEditPatch
  <2> QED BY <2>1, <2>2, <2>3 DEF HadTheRight
<1>4. ASSUME NEW u \in Users, NEW p \in Patches, NEW form \in Forms, PatchUpdate(u, p, form)
      PROVE  HadTheRight
  <2>1. \A q \in Patches \ {p} : patch'[q] = patch[q]
    BY <1>4, PatchUpdateFacts
  <2>2. /\ IsMaintainer(u, p) \/ SubmittedBy[p] = u
        /\ UNCHANGED addressed /\ last'.actor = u
    BY <1>4 DEF PatchUpdate, CanEditPatch, Silent
  <2> QED BY <2>1, <2>2 DEF HadTheRight
<1>5. ASSUME NEW u \in Users, NEW ids \in SUBSET Patches, NEW project, NEW form \in ListForms,
             PatchListUpdate(u, ids, project, form)
      PROVE  HadTheRight
  <2>1. \A q \in Patches \ Ticked(u, ids, project) : patch'[q] = patch[q]
    BY <1>5, PatchListUpdateFacts
  <2>2. \A q \in Ticked(u, ids, project) : IsMaintainer(u, q) \/ SubmittedBy[q] = u
    BY DEF Ticked, IsMaintainer
  <2>3. UNCHANGED addressed /\ last'.actor = u
    BY <1>5 DEF PatchListUpdate, Silent
  <2> QED BY <2>1, <2>2, <2>3 DEF HadTheRight
<1>6. ASSUME NEW s \in Sessions, NEW u \in Users, NEW p \in Patches, NEW body \in Bodies,
             Load(s, u, p, body)
      PROVE  HadTheRight
  <2>1. UNCHANGED <<patch, addressed>>
    BY <1>6 DEF Load
  <2> QED BY <2>1, <1>0
<1> QED BY <1>2, <1>3, <1>4, <1>5, <1>6 DEF TriageNext, Api, Web

\* Every change of a patch's columns other than related_id, and of a comment's
\* flag, was made by somebody who maintains its project, or by the patch's own
\* submitter (rights do not change here): CanEditPatch and its like are asked by
\* every handler, and an update that overlaps with others writes these columns
\* only of the patch it was allowed to write when it loaded it.
THEOREM ChangesNeedRights ==
  ASSUME Tracker
  PROVE  TriageSpec => RightsRespected
<1>1. TriageInvariant /\ [TriageNext]_triageVars => [HadTheRight]_triageVars
  BY StepHadTheRight
<1> QED BY <1>1, InvariantHolds, PTL DEF TriageSpec, RightsRespected

\* A step publishes what it has written.
LEMMA StepTellsTheTruth ==
  ASSUME Tracker, TriageInvariant, EventsTellTheTruth, [TriageNext]_triageVars
  PROVE  EventsTellTheTruth'
<1>1. ASSUME NEW s \in Sessions, CommitUpdate(s)
      PROVE  EventsTellTheTruth'
  <2>1. PICK r \in Requests : r = request[s]
    BY <1>1, Typed DEF CommitUpdate, TriageInvariant
  <2>2. Sound(r) /\ r.at = "commit" /\ \A q \in Patches : patch'[q] = SeenBy(r, q)
    BY <1>1, <2>1, CommitFacts
  <2>3. last'.events = Queued(r)
    BY <1>1, <2>1 DEF CommitUpdate, Published
  <2>4. r.patch \in Patches
    BY DEF Requests
  <2>5. /\ r.body.state # Null => patch'[r.patch].state = r.body.state
        /\ r.body.delegate # Null => patch'[r.patch].delegate = r.body.delegate
    BY <2>2, <2>4 DEF Sound, WritesTheBody, SeenBy
  <2>6. ASSUME NEW e \in Queued(r)
        PROVE  \/ /\ e.category = "patch-state-changed" /\ e.patch = r.patch
                  /\ e.current = r.body.state /\ r.body.state # Null
               \/ /\ e.category = "patch-delegated" /\ e.patch = r.patch
                  /\ e.current = r.body.delegate /\ r.body.delegate # Null
    BY DEF Queued, EventOf, StateChanged, DelegateChanged
  <2> QED BY <2>3, <2>5, <2>6 DEF EventsTellTheTruth
<1>2. ASSUME last'.events = {}
      PROVE  EventsTellTheTruth'
  BY <1>2 DEF EventsTellTheTruth
<1>3. ASSUME UNCHANGED <<patch, last>>
      PROVE  EventsTellTheTruth'
  BY <1>3 DEF EventsTellTheTruth
<1>4. ASSUME NEW s \in Sessions, UpdatePatch(s)
      PROVE  EventsTellTheTruth'
  BY <1>1, <1>2, <1>3, <1>4, UpdateSteps
<1>5. ASSUME NEW u \in Users, NEW c \in Comments, NEW value \in BOOLEAN,
             \/ UpdatePatchComment(u, c, value)
             \/ UpdateCoverComment(u, c, value)
             \/ CommentAddressed(u, c, value)
      PROVE  EventsTellTheTruth'
  BY <1>2, <1>5 DEF UpdatePatchComment, UpdateCoverComment, CommentAddressed, Silent
<1>6. ASSUME NEW u \in Users, NEW p \in Patches, NEW form \in Forms, PatchUpdate(u, p, form)
      PROVE  EventsTellTheTruth'
  BY <1>2, <1>6 DEF PatchUpdate, Silent
<1>7. ASSUME NEW u \in Users, NEW ids, NEW project, NEW form \in ListForms,
             PatchListUpdate(u, ids, project, form)
      PROVE  EventsTellTheTruth'
  BY <1>2, <1>7 DEF PatchListUpdate, Silent
<1>8. ASSUME NEW s \in Sessions, NEW u \in Users, NEW p \in Patches, NEW body \in Bodies,
             Load(s, u, p, body)
      PROVE  EventsTellTheTruth'
  BY <1>3, <1>8 DEF Load
<1>9. CASE UNCHANGED triageVars
  BY <1>3, <1>9 DEF triageVars
<1> QED BY <1>4, <1>5, <1>6, <1>7, <1>8, <1>9 DEF TriageNext, Api, Web

\* An event tells of a change that is in the tables: the queue of a transaction
\* that is rolled back is dropped, and what it tells is what was written, also
\* when the row has changed since the request loaded it.
THEOREM EventsAreTrue ==
  ASSUME Tracker
  PROVE  TriageSpec => []EventsTellTheTruth
<1>1. TriageInit => EventsTellTheTruth
  BY DEF TriageInit, EventsTellTheTruth
<1>2. TriageInvariant /\ EventsTellTheTruth /\ [TriageNext]_triageVars => EventsTellTheTruth'
  BY StepTellsTheTruth
<1> QED BY <1>1, <1>2, InvariantHolds, PTL DEF TriageSpec

(***************************************************************************)
(* Relations of patches.                                                   *)
(***************************************************************************)

\* Whoever commits a list leaves it in one relation.
LEMMA CommitsTogether ==
  ASSUME Tracker, TriageInvariant, NEW s \in Sessions, CommitUpdate(s),
         NEW r \in Requests, r = request[s], HasList(r)
  PROVE  \E id \in relations'.ids :
           /\ \A q \in Range(r.body.related) : patch'[q].related = id
           /\ r.row.related = 0 => patch'[r.patch].related = id
<1>1. /\ Sound(r) /\ r.at = "commit" /\ r.patch \in Patches
      /\ \A q \in Patches : patch'[q] = SeenBy(r, q)
      /\ relations'.ids = (relations.ids \cup r.born) \ r.dropped
  BY CommitFacts DEF Requests
<1> DEFINE list == r.body.related
<1>2. /\ Len(list) \in Nat /\ 1 <= Len(list)
      /\ Range(list) = {list[j] : j \in 1..Len(list)}
  BY ListFacts
<1>3. /\ r.item = Len(list) + 1 /\ r.related # 0 /\ Looked(r) = 1..Len(list)
      /\ \A j \in Looked(r) : list[j] \in Patches
  BY <1>1 DEF Sound, FollowsTheList, Looked
<1>4. \A j \in 1..Len(list) : r.written[list[j]] # Null /\ r.written[list[j]].related = r.related
  <2>1. \A j \in 1..Len(list) : j < r.item
    BY <1>2, <1>3
  <2> QED BY <1>1, <2>1 DEF Sound, PutsTogether
<1>5. \A q \in Range(list) : patch'[q].related = r.related
  BY <1>1, <1>2, <1>3, <1>4 DEF SeenBy
<1>6. r.row.related = 0 => patch'[r.patch].related = r.related
  BY <1>1, <1>3 DEF Sound, PutsTogether, SeenBy
<1>7. r.related \in relations'.ids
  <2>1. list[1] \in Patches /\ r.written[list[1]] # Null /\ r.written[list[1]].related = r.related
    BY <1>2, <1>3, <1>4
  <2>2. r.related \in ({0} \cup relations.ids \cup r.born) \ r.dropped
    BY <1>1, <2>1 DEF Sound, RefersToRows
  <2> QED BY <1>1, <1>3, <2>2
<1> QED BY <1>5, <1>6, <1>7

\* When an update commits that gave a list of related patches, these are all in
\* one relation, which exists, and so is the patch itself if it was in none when
\* it was loaded, for any lists and however the statements of updates interleave
\* that create, join, leave and dissolve relations.
THEOREM ListedPatchesEndTogether ==
  ASSUME Tracker
  PROVE  TriageSpec => RelatedTogether
<1>1. ASSUME TriageInvariant, NEW s \in Begun, CommitUpdate(s),
             request[s].body.related \notin {Null, <<>>}
      PROVE  \E id \in relations'.ids :
               /\ \A q \in Range(request[s].body.related) : patch'[q].related = id
               /\ request[s].row.related = 0 => patch'[request[s].patch].related = id
  <2>1. PICK r \in Requests : r = request[s]
    BY <1>1, Typed DEF TriageInvariant
  <2>2. s \in Sessions /\ HasList(r)
    BY <1>1, <2>1 DEF Begun, HasList
  <2> QED BY <1>1, <2>1, <2>2, CommitsTogether
<1>2. TriageInvariant /\ [TriageNext]_triageVars =>
        [\A s \in Begun : LET r == request[s] IN
           CommitUpdate(s) /\ r.body.related \notin {Null, <<>>} =>
             \E id \in relations'.ids :
               /\ \A q \in Range(r.body.related) : patch'[q].related = id
               /\ r.row.related = 0 => patch'[r.patch].related = id]_triageVars
  BY <1>1
<1> QED BY <1>2, InvariantHolds, PTL DEF TriageSpec, RelatedTogether

\* The end of an update that was alone.
LEMMA CommitKeepsRelations ==
  ASSUME Tracker, TriageInvariant, NEW s \in Sessions, CommitUpdate(s),
         NEW r \in Requests, r = request[s], r.alone
  PROVE  /\ \A p \in Patches : patch[p].related # 0
              => patch'[p].related \in {patch[p].related, 0}
         /\ \A id \in relations.ids :
              Cardinality(Members(Rel, id)) > 1 /\ Cardinality(Members(Rel, id)') < 2
                => Members(Rel, id)' = {} /\ id \notin relations'.ids
<1>1. /\ Sound(r) /\ r.at = "commit"
      /\ \A q \in Patches : patch'[q] = SeenBy(r, q)
      /\ relations'.ids = (relations.ids \cup r.born) \ r.dropped
      /\ TriageTypeOK
  BY CommitFacts DEF TriageInvariant
<1>2. \A id : Members(Rel, id)' = {q \in Patches : SeenBy(r, q).related = id}
  BY <1>1 DEF Members, Rel
<1>3. ASSUME \A q \in Patches : patch[q].related # 0
               => SeenBy(r, q).related = patch[q].related,
             NEW id \in relations.ids,
             Cardinality(Members(Rel, id)) > 1, Cardinality(Members(Rel, id)') < 2
      PROVE  FALSE
  <2>1. Members(Rel, id) \subseteq {q \in Patches : SeenBy(r, q).related = id}
    <3>1. id # 0
      BY <1>1 DEF TriageTypeOK
    <3> QED BY <1>3, <3>1 DEF Members, Rel
  <2> DEFINE was == Members(Rel, id)
             now == {q \in Patches : SeenBy(r, q).related = id}
  <2>2. was \subseteq now /\ Cardinality(was) > 1 /\ Cardinality(now) < 2
    BY <1>2, <1>3, <2>1
  <2>3. IsFiniteSet(now)
    <3>1. now \subseteq Patches /\ IsFiniteSet(Patches)
      BY DEF Tracker
    <3> HIDE DEF now
    <3> QED BY <3>1, FS_Subset
  <2> HIDE DEF was, now
  <2>4. Cardinality(was) <= Cardinality(now)
    BY <2>2, <2>3, FS_Subset
  <2>5. Cardinality(now) \in Nat /\ Cardinality(was) \in Nat
    BY <2>2, <2>3, FS_Subset, FS_CardinalityType
  <2> QED BY <2>2, <2>4, <2>5
<1>4. CASE r.body.related = Null
  <2>1. \A q \in Patches : SeenBy(r, q).related = patch[q].related
    BY <1>1, <1>4 DEF Sound, LeavesRelations, SeenBy
  <2> QED BY <1>1, <1>3, <2>1
<1>5. CASE r.body.related # Null /\ HasList(r)
  <2>1. \A q \in Patches : patch[q].related # 0 => SeenBy(r, q).related = patch[q].related
    BY <1>1, <1>5 DEF Sound, KeepsRelations
  <2> QED BY <1>1, <1>3, <2>1
<1>6. CASE r.body.related # Null /\ r.body.related = <<>>
  <2>1. EndsWell(r)
    BY <1>1, <1>6 DEF Sound, KeepsRelations
  <2>2. ASSUME NEW id \in relations.ids,
               Cardinality(Members(Rel, id)) > 1, Cardinality(Members(Rel, id)') < 2
        PROVE  Members(Rel, id)' = {} /\ id \notin relations'.ids
    <3>1. Cardinality({q \in Patches : SeenBy(r, q).related = id}) < 2
      BY <1>2, <2>2
    <3>2. {q \in Patches : SeenBy(r, q).related = id} = {} /\ id \in r.dropped
      BY <2>1, <2>2, <3>1 DEF EndsWell
    <3> QED BY <1>1, <1>2, <3>2
  <2> QED BY <1>1, <2>1, <2>2 DEF EndsWell
<1> QED BY <1>4, <1>5, <1>6, ListFacts

LEMMA StepKeepsRelations ==
  ASSUME Tracker, TriageInvariant, [TriageNext]_triageVars
  PROVE  KeptRelations
<1>1. TriageTypeOK /\ DOMAIN Rel = Patches /\ \A q \in Patches : Rel[q] = patch[q].related
  BY DEF TriageInvariant, Rel
<1>2. \A q \in Patches : Rel'[q] = patch'[q].related
  BY DEF Rel
<1>3. ASSUME \A q \in Patches : patch'[q].related = patch[q].related
      PROVE  KeptRelations
  <2>1. ASSUME NEW id, Cardinality(Members(Rel, id)) > 1
        PROVE  ~(Cardinality(Members(Rel, id)') < 2)
    <3>1. Members(Rel, id)' = Members(Rel, id)
      BY <1>3 DEF Members, Rel
    <3> QED BY <2>1, <3>1, MembersCount
  <2> QED BY <1>1, <1>2, <1>3, <2>1 DEF KeptRelations
<1>4. ASSUME NEW s \in Sessions, CommitUpdate(s), Lone
      PROVE  /\ \A p \in Patches : patch[p].related # 0
                  => patch'[p].related \in {patch[p].related, 0}
             /\ \A id \in relations.ids :
                  Cardinality(Members(Rel, id)) > 1 /\ Cardinality(Members(Rel, id)') < 2
                    => Members(Rel, id)' = {} /\ id \notin relations'.ids
  <2>1. s \in Begun /\ request' = [request EXCEPT ![s] = Null]
    BY <1>4 DEF CommitUpdate
  <2>2. PICK r \in Requests : r = request[s]
    BY <1>1, <2>1, Typed
  <2>3. request'[s] = Null
    BY <1>1, <2>1 DEF TriageTypeOK
  <2>4. r.alone
    BY <1>4, <2>1, <2>2, <2>3 DEF Lone
  <2> QED BY <1>4, <2>2, <2>4, CommitKeepsRelations
<1>5. ASSUME NEW s \in Sessions, CommitUpdate(s)
      PROVE  KeptRelations
  BY <1>1, <1>2, <1>4, <1>5 DEF KeptRelations
<1>6. ASSUME NEW s \in Sessions, UpdatePatch(s)
      PROVE  KeptRelations
  BY <1>3, <1>5, <1>6, UpdateSteps
<1>7. ASSUME NEW u \in Users, NEW p \in Patches, NEW form \in Forms, PatchUpdate(u, p, form)
      PROVE  KeptRelations
  BY <1>3, <1>7, PatchUpdateFacts
<1>8. ASSUME NEW u \in Users, NEW ids \in SUBSET Patches, NEW project, NEW form \in ListForms,
             PatchListUpdate(u, ids, project, form)
      PROVE  KeptRelations
  BY <1>3, <1>8, PatchListUpdateFacts
<1>9. ASSUME NEW u \in Users, NEW c \in Comments, NEW value \in BOOLEAN,
             \/ UpdatePatchComment(u, c, value)
             \/ UpdateCoverComment(u, c, value)
             \/ CommentAddressed(u, c, value)
      PROVE  KeptRelations
  BY <1>3, <1>9 DEF UpdatePatchComment, UpdateCoverComment, CommentAddressed
<1>10. ASSUME NEW s \in Sessions, NEW u \in Users, NEW p \in Patches, NEW body \in Bodies,
              Load(s, u, p, body)
       PROVE  KeptRelations
  BY <1>3, <1>10 DEF Load
<1>11. CASE UNCHANGED triageVars
  BY <1>3, <1>11 DEF triageVars
<1> QED BY <1>6, <1>7, <1>8, <1>9, <1>10, <1>11 DEF TriageNext, Api, Web

\* An update of relations with which no other one overlaps takes no patch from
\* one relation to another, and leaves no relation with a single patch that had
\* more: several statements of updateRelated, with other requests in between
\* that change the same patches but no relations.
THEOREM LoneUpdatesAreSafe ==
  ASSUME Tracker
  PROVE  TriageSpec => LoneUpdatesKeepRelations
<1>1. TriageInvariant /\ [TriageNext]_triageVars => [KeptRelations]_triageVars
  BY StepKeepsRelations
<1> QED BY <1>1, InvariantHolds, PTL DEF TriageSpec, LoneUpdatesKeepRelations

(***************************************************************************)
(*                                 Bundles                                 *)
(***************************************************************************)

BundleRows == [owner: Users, name: Names, public: BOOLEAN, project: Range(ProjectOf)]

ContentRows == [bundle: BundleIds, patch: Patches, order: 0..MaxOrder]

PlaceRequests ==
  [bundle: BundleIds, list: PatchLists, name: Names \cup {Null},
   public: BOOLEAN \cup {Null}, project: Range(ProjectOf) \cup {Null},
   first: 0..MaxOrder, gone: SUBSET ContentRows, held: BOOLEAN, fresh: BOOLEAN]

\* What the proofs assume of the constants: lists are not empty, and the bound
\* leaves room for them.
Collecting ==
  /\ Null \notin BundleRows
  /\ MaxOrder \in Nat
  /\ Patches \subseteq DOMAIN ProjectOf
  /\ \A list \in PatchLists :
       list \in Seq(Range(list)) /\ Len(list) \in 1..(MaxOrder + 1)

\* A list has room behind its first position, the rows to go are of its bundle,
\* and while its request is fresh the rows that stay are before it.
InPlace(r) ==
  /\ \A row \in r.gone : row.bundle = r.bundle
  /\ r.first + Len(r.list) - 1 <= MaxOrder
  /\ r.fresh => \A row \in Kept(r) : row.order < r.first

BundleInvariant ==
  /\ BundlesTypeOK
  /\ OrdersDistinct
  /\ \A s \in Placing : InPlace(placing[s])

\* The types, one by one.
LEMMA BundleTypeFacts ==
  ASSUME BundlesTypeOK
  PROVE  /\ bundle \in [BundleIds -> BundleRows \cup {Null}]
         /\ content \subseteq ContentRows
         /\ \A row \in content : row.bundle \in BundleIds /\ bundle[row.bundle] # Null
         /\ placing \in [Sessions -> {Null} \cup PlaceRequests]
         /\ raced \subseteq BundleIds
<1>1. bundle \in [BundleIds -> BundleRows \cup {Null}]
  BY DEF BundlesTypeOK, BundleRows
<1>2. /\ content \subseteq ContentRows
      /\ \A row \in content : row.bundle \in BundleIds /\ bundle[row.bundle] # Null
  BY DEF BundlesTypeOK, ContentRows
<1>3. placing \in [Sessions -> {Null} \cup PlaceRequests] /\ raced \subseteq BundleIds
  BY DEF BundlesTypeOK, PlaceRequests, ContentRows
<1> QED BY <1>1, <1>2, <1>3

LEMMA TypesOfRows ==
  ASSUME bundle' \in [BundleIds -> BundleRows \cup {Null}],
         content' \subseteq ContentRows,
         \A row \in content' : bundle'[row.bundle] # Null,
         placing' \in [Sessions -> {Null} \cup PlaceRequests],
         raced' \subseteq BundleIds
  PROVE  BundlesTypeOK'
<1>1. bundle' \in [BundleIds -> [owner: Users, name: Names, public: BOOLEAN,
                                 project: Range(ProjectOf)] \cup {Null}]
  BY DEF BundleRows
<1>2. content' \subseteq [bundle: {b \in BundleIds : bundle'[b] # Null},
                          patch: Patches, order: 0..MaxOrder]
  BY DEF ContentRows
<1>3. placing' \in [Sessions -> {Null} \cup
                    [bundle: BundleIds, list: PatchLists, name: Names \cup {Null},
                     public: BOOLEAN \cup {Null}, project: Range(ProjectOf) \cup {Null},
                     first: 0..MaxOrder, gone: SUBSET [bundle: BundleIds,
                     patch: Patches, order: 0..MaxOrder], held: BOOLEAN, fresh: BOOLEAN]]
  BY DEF PlaceRequests, ContentRows
<1> QED BY <1>1, <1>2, <1>3 DEF BundlesTypeOK

(***************************************************************************)
(* Positions.                                                              *)
(***************************************************************************)

LEMMA BelowIsWellFounded ==
  IsWellFoundedOn({ss \in Nat \X Nat : ss[1] < ss[2]}, Nat)
BY NatLessThanWellFounded DEF OpToRel

LEMMA MaxOfBounded ==
  ASSUME NEW n \in Nat, NEW S \in SUBSET (-1..n), S # {}
  PROVE  Max(S) \in S /\ \A k \in S : k <= Max(S)
<1> DEFINE T == {n - k : k \in S}
           R == {ss \in Nat \X Nat : ss[1] < ss[2]}
<1>1. T \subseteq Nat /\ T # {}
  <2>1. \A k \in S : n - k \in Nat
    OBVIOUS
  <2> QED BY <2>1
<1>2. PICK t \in T : \A u \in T : ~(<<u, t>> \in R)
  <2>1. IsWellFoundedOn(R, Nat)
    BY BelowIsWellFounded
  <2> HIDE DEF R, T
  <2> QED BY <1>1, <2>1, WFMin
<1>3. PICK k \in S : t = n - k
  OBVIOUS
<1>4. \A j \in S : k >= j
  <2> SUFFICES ASSUME NEW j \in S, ~(k >= j) PROVE FALSE
    OBVIOUS
  <2>1. n - j \in T /\ n - j \in Nat /\ t \in Nat /\ n - j < t
    BY <1>1, <1>3
  <2>2. <<n - j, t>> \in R
    BY <2>1
  <2> QED BY <1>2, <2>1, <2>2
<1>5. Max(S) \in S /\ \A j \in S : Max(S) >= j
  BY <1>4 DEF Max
<1> QED BY <1>5

LEMMA NextOrderIsFree ==
  ASSUME Collecting, BundlesTypeOK, NEW b \in BundleIds
  PROVE  NextOrder(b) \in Nat /\ \A row \in RowsOf(b) : row.order < NextOrder(b)
<1> DEFINE S == {row.order : row \in RowsOf(b)} \cup {-1}
<1>1. S \in SUBSET (-1..MaxOrder) /\ S # {} /\ MaxOrder \in Nat
  <2>1. \A row \in RowsOf(b) : row.order \in 0..MaxOrder
    BY BundleTypeFacts DEF RowsOf, ContentRows
  <2>2. MaxOrder \in Nat
    BY DEF Collecting
  <2>3. \A k \in S : k \in -1..MaxOrder
    BY <2>1, <2>2
  <2> QED BY <2>2, <2>3
<1>2. Max(S) \in S /\ \A k \in S : k <= Max(S)
  BY <1>1, MaxOfBounded
<1>3. NextOrder(b) = Max(S) + 1
  BY DEF NextOrder
<1>4. \A row \in RowsOf(b) : row.order \in S
  OBVIOUS
<1> HIDE DEF S
<1>5. Max(S) \in -1..MaxOrder
  BY <1>1, <1>2
<1>6. \A row \in RowsOf(b) : row.order \in -1..MaxOrder /\ row.order <= Max(S)
  BY <1>1, <1>2, <1>4
<1> QED BY <1>1, <1>3, <1>5, <1>6

LEMMA FirstProject ==
  ASSUME Collecting, NEW list \in PatchLists, Range(list) \subseteq Patches
  PROVE  ProjectOf[list[1]] \in Range(ProjectOf)
<1>1. 1 \in DOMAIN list
  BY DEF Collecting
<1>2. list[1] \in DOMAIN ProjectOf
  BY <1>1 DEF Collecting, Range
<1> QED BY <1>2 DEF Range

\* The rows of a list take the positions from first on, one each.
LEMMA PlacedFacts ==
  ASSUME Collecting, NEW b \in BundleIds, NEW list \in PatchLists,
         Range(list) \subseteq Patches, NEW first \in Nat,
         first + Len(list) - 1 <= MaxOrder
  PROVE  /\ RowsAt(b, list, first) \subseteq
              [bundle: {b}, patch: Patches, order: first..MaxOrder]
         /\ \A r1, r2 \in RowsAt(b, list, first) : r1.order = r2.order => r1 = r2
<1>1. DOMAIN list = 1..Len(list) /\ Len(list) \in Nat /\ MaxOrder \in Nat
  BY DEF Collecting
<1>2. \A i \in DOMAIN list : list[i] \in Patches
  BY DEF Range
<1>3. \A i \in DOMAIN list : first + i - 1 \in first..MaxOrder
  BY <1>1
<1>4. \A i, j \in DOMAIN list : first + i - 1 = first + j - 1 => i = j
  BY <1>1
<1> QED BY <1>2, <1>3, <1>4 DEF RowsAt

(***************************************************************************)
(* The content of one bundle b after a request: some of its rows, and a    *)
(* list in positions behind all of these unless the bundle is raced.       *)
(***************************************************************************)

LEMMA ContentKeeps ==
  ASSUME Collecting, BundleInvariant, NEW b \in BundleIds,
         NEW kept \in SUBSET RowsOf(b), NEW first \in Nat,
         NEW list \in PatchLists, Range(list) \subseteq Patches,
         first + Len(list) - 1 <= MaxOrder,
         raced \ {b} \subseteq raced',
         b \notin raced' => \A row \in kept : row.order < first /\ b \notin raced,
         content' = (content \ RowsOf(b)) \cup kept \cup RowsAt(b, list, first)
  PROVE  /\ content' \subseteq ContentRows
         /\ \A row \in content' : row \in content \/ row.bundle = b
         /\ OrdersDistinct'
<1> DEFINE added == RowsAt(b, list, first)
<1>1. /\ added \subseteq [bundle: {b}, patch: Patches, order: first..MaxOrder]
      /\ \A r1, r2 \in added : r1.order = r2.order => r1 = r2
  BY PlacedFacts
<1> HIDE DEF added
<1>2. content' = (content \ RowsOf(b)) \cup kept \cup added
  BY DEF added
<1>3. MaxOrder \in Nat /\ content \subseteq ContentRows
  BY BundleTypeFacts DEF Collecting, BundleInvariant
<1>4. \A row \in added : row.bundle = b /\ row.order \in first..MaxOrder
  BY <1>1
<1>5. added \subseteq ContentRows
  <2>1. first..MaxOrder \subseteq 0..MaxOrder
    BY <1>3
  <2> QED BY <1>1, <2>1 DEF ContentRows
<1>6. \A row \in content : row.order \in Nat
  BY <1>3 DEF ContentRows
<1>7. OrdersDistinct'
  <2> SUFFICES ASSUME NEW r1 \in content', NEW r2 \in content',
                      r1.bundle = r2.bundle, r1.bundle \notin raced', r1.order = r2.order
               PROVE  r1 = r2
    BY DEF OrdersDistinct
  <2>1. CASE r1 \in content /\ r2 \in content /\ r1.bundle \notin raced
    BY <2>1 DEF BundleInvariant, OrdersDistinct
  <2>2. CASE r1 \in added /\ r2 \in added
    BY <1>1, <2>2
  <2>3. ASSUME NEW r \in added, NEW s \in content, s \in content', s \notin added,
               r.bundle = s.bundle, r.bundle \notin raced', r.order = s.order
        PROVE  FALSE
    <3>1. s \in kept /\ b \notin raced'
      BY <1>2, <1>4, <2>3 DEF RowsOf
    <3>2. s.order < first /\ s.order \in Nat /\ r.order \in first..MaxOrder
      BY <1>4, <1>6, <3>1
    <3> QED BY <1>3, <2>3, <3>2
  <2>4. CASE r1 \in content /\ r2 \in content /\ r1.bundle \in raced
               /\ r1 \notin added /\ r2 \notin added
    <3>1. r1.bundle = b
      BY <2>4
    <3>2. r1 \in kept
      BY <1>2, <2>4, <3>1 DEF RowsOf
    <3> QED BY <2>4, <3>1, <3>2
  <2> QED BY <1>2, <2>1, <2>2, <2>3, <2>4 DEF RowsOf
<1>8. \A row \in content' : row \in content \/ row.bundle = b
  BY <1>2, <1>4 DEF RowsOf
<1>9. content' \subseteq ContentRows
  BY <1>2, <1>3, <1>5 DEF RowsOf
<1> QED BY <1>7, <1>8, <1>9

(***************************************************************************)
(* Requests that place a list, and requests that do not.                   *)
(***************************************************************************)

LEMMA DroppingKeeps ==
  ASSUME Collecting, BundleInvariant, UNCHANGED placing,
         bundle' \in [BundleIds -> BundleRows \cup {Null}], content' \subseteq content,
         \A row \in content' : bundle[row.bundle] # Null => bundle'[row.bundle] # Null,
         raced' \subseteq BundleIds,
         \A row \in content' : row.bundle \in raced => row.bundle \in raced'
  PROVE  BundleInvariant'
<1>1. /\ content' \subseteq ContentRows
      /\ \A row \in content' : bundle'[row.bundle] # Null
      /\ placing' \in [Sessions -> {Null} \cup PlaceRequests]
  BY BundleTypeFacts DEF BundleInvariant
<1>2. OrdersDistinct'
  BY DEF BundleInvariant, OrdersDistinct
<1>3. BundlesTypeOK'
  BY <1>1, TypesOfRows
<1>4. \A s \in Placing' : InPlace(placing[s])'
  <2> SUFFICES ASSUME NEW s \in Sessions, placing[s] # Null PROVE InPlace(placing[s])'
    BY DEF Placing
  <2> DEFINE r == placing[s]
  <2>1. InPlace(r)
    BY DEF BundleInvariant, Placing
  <2>2. r' = r
    OBVIOUS
  <2> HIDE DEF r
  <2>3. InPlace(r)'
    BY <2>1, <2>2 DEF InPlace, Kept, RowsOf
  <2> QED BY <2>3 DEF r
<1> QED BY <1>2, <1>3, <1>4 DEF BundleInvariant

\* A row that can be stored is not Null, and the id of a new bundle has no rows.
LEMMA NewBundle ==
  ASSUME Collecting, BundleInvariant, NEW b \in BundleIds, NewId(b),
         NEW row \in BundleRows, bundle' = [bundle EXCEPT ![b] = row],
         NEW list \in PatchLists, Range(list) \subseteq Patches,
         content' = content \cup RowsAt(b, list, 0), UNCHANGED <<placing, raced>>
  PROVE  BundleInvariant'
<1> USE BundleTypeFacts DEF BundleInvariant
<1>1. row # Null
  BY DEF Collecting
<1>2. /\ bundle' \in [BundleIds -> BundleRows \cup {Null}] /\ bundle'[b] # Null
      /\ \A c \in BundleIds : bundle[c] # Null => bundle'[c] # Null
  BY <1>1
<1>3. RowsOf(b) = {}
  BY DEF RowsOf, NewId
<1>4. PICK none \in SUBSET RowsOf(b) : none = {}
  OBVIOUS
<1>5. content' = (content \ RowsOf(b)) \cup none \cup RowsAt(b, list, 0)
  BY <1>3, <1>4
<1>6. 0 + Len(list) - 1 <= MaxOrder
  BY DEF Collecting
<1>7. /\ content' \subseteq ContentRows
      /\ \A r \in content' : r \in content \/ r.bundle = b
      /\ OrdersDistinct'
  BY <1>4, <1>5, <1>6, ContentKeeps
<1>8. BundlesTypeOK'
  <2>1. \A r \in content' : bundle'[r.bundle] # Null
    BY <1>2, <1>7
  <2> QED BY <1>2, <1>7, <2>1, TypesOfRows
<1>9. \A s \in Placing' : InPlace(placing[s])'
  <2> SUFFICES ASSUME NEW s \in Sessions, placing[s] # Null PROVE InPlace(placing[s])'
    BY DEF Placing
  <2> DEFINE r == placing[s]
  <2>1. InPlace(r) /\ r' = r /\ r.bundle # b
    BY DEF Placing, NewId
  <2> HIDE DEF r
  <2>2. InPlace(r)'
    BY <1>7, <2>1 DEF InPlace, Kept, RowsOf
  <2> QED BY <2>2 DEF r
<1> QED BY <1>7, <1>8, <1>9

LEMMA CreateBundleKeeps ==
  ASSUME Collecting, BundleInvariant, NEW u \in Users, NEW b \in BundleIds,
         NEW name \in Names, NEW public \in BOOLEAN, NEW list \in PatchLists,
         CreateBundle(u, b, name, public, list)
  PROVE  BundleInvariant'
<1> DEFINE row == [owner |-> u, name |-> name, public |-> public,
                   project |-> ProjectOf[list[1]]]
<1>1. /\ NewId(b) /\ Range(list) \subseteq Patches
      /\ bundle' = [bundle EXCEPT ![b] = row]
      /\ content' = content \cup RowsAt(b, list, 0)
      /\ UNCHANGED <<placing, raced>>
  BY DEF CreateBundle, Valid
<1>2. ProjectOf[list[1]] \in Range(ProjectOf)
  BY <1>1, FirstProject
<1>3. row \in BundleRows
  BY <1>2 DEF BundleRows
<1> HIDE DEF row
<1> QED BY <1>1, <1>3, NewBundle

LEMMA CreateFromListKeeps ==
  ASSUME Collecting, BundleInvariant, NEW u \in Users, NEW b \in BundleIds,
         NEW name \in Names, NEW project \in Range(ProjectOf), NEW list \in PatchLists,
         CreateFromList(u, b, name, project, list)
  PROVE  BundleInvariant'
<1> DEFINE row == [owner |-> u, name |-> name, public |-> FALSE, project |-> project]
<1>1. /\ NewId(b) /\ Range(list) \subseteq Patches
      /\ bundle' = [bundle EXCEPT ![b] = row]
      /\ content' = content \cup RowsAt(b, list, 0)
      /\ UNCHANGED <<placing, raced>>
  BY DEF CreateFromList, Insertable
<1>2. row \in BundleRows
  BY DEF BundleRows
<1> HIDE DEF row
<1> QED BY <1>1, <1>2, NewBundle

\* An update of a bundle's row leaves a row.
LEMMA RenamedFacts ==
  ASSUME Collecting, BundlesTypeOK, NEW b \in BundleIds, bundle[b] # Null,
         NEW name \in Names \cup {Null}, NEW public \in BOOLEAN \cup {Null},
         NEW project \in Range(ProjectOf) \cup {Null},
         bundle' = [bundle EXCEPT ![b] = Renamed(@, name, public, project)]
  PROVE  /\ bundle' \in [BundleIds -> BundleRows \cup {Null}]
         /\ bundle'[b] # Null
         /\ \A c \in BundleIds : bundle[c] # Null => bundle'[c] # Null
<1>1. bundle \in [BundleIds -> BundleRows \cup {Null}] /\ bundle[b] \in BundleRows
  BY BundleTypeFacts
<1>2. Renamed(bundle[b], name, public, project) \in BundleRows
  BY <1>1 DEF Renamed, BundleRows
<1>3. bundle' = [bundle EXCEPT ![b] = Renamed(bundle[b], name, public, project)]
  OBVIOUS
<1>4. Null \notin BundleRows
  BY DEF Collecting
<1> QED BY <1>1, <1>2, <1>3, <1>4

\* Requests that do not touch placing.
LEMMA OtherRequestsKeep ==
  ASSUME Collecting, BundleInvariant, NEW u \in Users, NEW b \in BundleIds,
         \/ DeleteBundle(u, b)
         \/ \E name \in Names \cup {Null}, public \in BOOLEAN \cup {Null} :
              UpdateBundle(u, b, name, public)
         \/ \E name \in Names, public \in BOOLEAN : BundleUpdate(u, b, name, public)
         \/ \E removed \in SUBSET Patches : RemovePatches(u, b, removed)
  PROVE  BundleInvariant'
<1>1. /\ bundle \in [BundleIds -> BundleRows \cup {Null}] /\ bundle[b] # Null
      /\ raced \subseteq BundleIds
      /\ BundlesTypeOK
  BY BundleTypeFacts DEF BundleInvariant, DeleteBundle, BundleUpdate, UpdateBundle,
     RemovePatches, Owns
<1>2. \A row \in content : row.bundle \in BundleIds
  BY BundleTypeFacts DEF BundleInvariant
<1>3. CASE DeleteBundle(u, b)
  <2>1. content' \subseteq content /\ \A row \in content' : row.bundle # b
    BY <1>3 DEF DeleteBundle, RowsOf
  <2>2. /\ bundle' \in [BundleIds -> BundleRows \cup {Null}]
        /\ \A c \in BundleIds : c # b => bundle'[c] = bundle[c]
    BY <1>1, <1>3 DEF DeleteBundle
  <2>3. placing' = placing /\ raced' = raced \ {b}
    BY <1>3 DEF DeleteBundle
  <2>4. /\ raced' \subseteq BundleIds
        /\ \A row \in content' : row.bundle \in raced => row.bundle \in raced'
        /\ \A row \in content' : bundle[row.bundle] # Null => bundle'[row.bundle] # Null
    BY <1>1, <1>2, <2>1, <2>2, <2>3
  <2> QED BY <2>1, <2>2, <2>3, <2>4, DroppingKeeps
<1>4. ASSUME bundle' \in [BundleIds -> BundleRows \cup {Null}],
             \A c \in BundleIds : bundle[c] # Null => bundle'[c] # Null,
             UNCHANGED <<content, placing, raced>>
      PROVE  BundleInvariant'
  BY <1>1, <1>2, <1>4, DroppingKeeps
<1>5. ASSUME NEW name \in Names \cup {Null}, NEW public \in BOOLEAN \cup {Null},
             UpdateBundle(u, b, name, public)
      PROVE  BundleInvariant'
  <2>1. /\ bundle' = [bundle EXCEPT ![b] = Renamed(@, name, public, Null)]
        /\ UNCHANGED <<content, placing, raced>>
    BY <1>5 DEF UpdateBundle
  <2>2. Null \in Range(ProjectOf) \cup {Null}
    OBVIOUS
  <2> QED BY <1>1, <1>4, <2>1, <2>2, RenamedFacts
<1>6. ASSUME NEW name \in Names, NEW public \in BOOLEAN, BundleUpdate(u, b, name, public)
      PROVE  BundleInvariant'
  <2>1. /\ bundle' = [bundle EXCEPT ![b] = Renamed(@, name, public, Null)]
        /\ UNCHANGED <<content, placing, raced>>
    BY <1>6 DEF BundleUpdate
  <2>2. /\ Null \in Range(ProjectOf) \cup {Null}
        /\ name \in Names \cup {Null} /\ public \in BOOLEAN \cup {Null}
    OBVIOUS
  <2> QED BY <1>1, <1>4, <2>1, <2>2, RenamedFacts
<1>7. ASSUME NEW removed \in SUBSET Patches, RemovePatches(u, b, removed)
      PROVE  BundleInvariant'
  <2>1. content' \subseteq content /\ UNCHANGED <<bundle, placing, raced>>
    BY <1>7 DEF RemovePatches
  <2> QED BY <1>1, <2>1, DroppingKeeps
<1> QED BY <1>3, <1>5, <1>6, <1>7

(***************************************************************************)
(* The statements of the requests that overlap.                            *)
(***************************************************************************)

\* A session takes up, goes on with or gives up its request.
LEMMA SessionKeeps ==
  ASSUME Collecting, BundleInvariant, UNCHANGED <<bundle, content, raced>>,
         NEW s \in Sessions, NEW r \in {Null} \cup PlaceRequests,
         placing' = [placing EXCEPT ![s] = r], r # Null => InPlace(r)'
  PROVE  BundleInvariant'
<1> USE BundleTypeFacts DEF BundleInvariant
<1>1. placing' \in [Sessions -> {Null} \cup PlaceRequests] /\ placing'[s] = r
      /\ \A t \in Sessions : t # s => placing'[t] = placing[t]
  OBVIOUS
<1>2. BundlesTypeOK' /\ OrdersDistinct'
  <2>1. BundlesTypeOK'
    BY <1>1, TypesOfRows
  <2> QED BY <2>1 DEF OrdersDistinct
<1>3. ASSUME NEW q, InPlace(q) PROVE InPlace(q)'
  BY <1>3 DEF InPlace, Kept, RowsOf
<1>4. \A t \in Placing' : InPlace(placing[t])'
  <2> SUFFICES ASSUME NEW t \in Sessions, placing'[t] # Null PROVE InPlace(placing[t])'
    BY DEF Placing
  <2>1. PICK q : q = placing'[t]
    OBVIOUS
  <2>2. InPlace(q)'
    <3>1. CASE t = s
      BY <1>1, <2>1, <3>1
    <3>2. CASE t # s
      <4>1. q = placing[t] /\ InPlace(placing[t])
        BY <1>1, <2>1, <3>2 DEF Placing
      <4> QED BY <1>3, <4>1
    <3> QED BY <3>1, <3>2
  <2> QED BY <2>1, <2>2 DEF InPlace, Kept
<1> QED BY <1>2, <1>4

LEMMA StartAddingKeeps ==
  ASSUME Collecting, BundleInvariant, NEW s \in Sessions, NEW u \in Users,
         NEW b \in BundleIds, NEW list \in PatchLists, StartAdding(s, u, b, list)
  PROVE  BundleInvariant'
<1> DEFINE r == [bundle |-> b, list |-> list, name |-> Null, public |-> Null,
                 project |-> Null, first |-> NextOrder(b),
                 gone |-> {}, held |-> TRUE, fresh |-> TRUE]
<1>1. /\ NextOrder(b) + Len(list) - 1 <= MaxOrder
      /\ placing' = [placing EXCEPT ![s] = r]
      /\ UNCHANGED <<bundle, content, raced>>
  BY DEF StartAdding
<1>2. NextOrder(b) \in Nat /\ \A row \in RowsOf(b) : row.order < NextOrder(b)
  BY NextOrderIsFree DEF BundleInvariant
<1>3. NextOrder(b) \in 0..MaxOrder
  BY <1>1, <1>2 DEF Collecting
<1>4. PICK q \in PlaceRequests : q = r
  BY <1>3 DEF PlaceRequests
<1>5. InPlace(q)'
  <2>1. RowsOf(b)' = RowsOf(b)
    BY <1>1 DEF RowsOf
  <2>2. Kept(q)' = RowsOf(b)
    BY <1>4, <2>1 DEF Kept
  <2>3. q.first = NextOrder(b) /\ q.list = list /\ q.gone = {}
    BY <1>4
  <2> QED BY <1>1, <1>2, <2>2, <2>3 DEF InPlace
<1> HIDE DEF r
<1> QED BY <1>1, <1>4, <1>5, SessionKeeps

LEMMA StartReplacingKeeps ==
  ASSUME Collecting, BundleInvariant, NEW s \in Sessions, NEW u \in Users,
         NEW b \in BundleIds, NEW name \in Names \cup {Null},
         NEW public \in BOOLEAN \cup {Null}, NEW list \in PatchLists,
         StartReplacing(s, u, b, name, public, list)
  PROVE  BundleInvariant'
<1> DEFINE r == [bundle |-> b, list |-> list, name |-> name, public |-> public,
                 project |-> ProjectOf[list[1]], first |-> 0,
                 gone |-> RowsOf(b), held |-> FALSE, fresh |-> TRUE]
<1>1. /\ Range(list) \subseteq Patches
      /\ placing' = [placing EXCEPT ![s] = r]
      /\ UNCHANGED <<bundle, content, raced>>
  BY DEF StartReplacing, Valid
<1>2. ProjectOf[list[1]] \in Range(ProjectOf)
  BY <1>1, FirstProject
<1>3. RowsOf(b) \subseteq ContentRows /\ 0 \in 0..MaxOrder /\ 0 + Len(list) - 1 <= MaxOrder
  BY BundleTypeFacts DEF RowsOf, BundleInvariant, Collecting
<1>4. PICK q \in PlaceRequests : q = r
  BY <1>2, <1>3 DEF PlaceRequests
<1>5. InPlace(q)'
  <2>1. RowsOf(b)' = RowsOf(b)
    BY <1>1 DEF RowsOf
  <2>2. Kept(q)' = {}
    BY <1>4, <2>1 DEF Kept
  <2>3. q.first = 0 /\ q.list = list /\ \A row \in q.gone : row.bundle = q.bundle
    BY <1>4 DEF RowsOf
  <2> QED BY <1>3, <2>2, <2>3 DEF InPlace
<1> HIDE DEF r
<1> QED BY <1>1, <1>4, <1>5, SessionKeeps

LEMMA DeleteRowsKeeps ==
  ASSUME Collecting, BundleInvariant, NEW s \in Sessions, DeleteRows(s)
  PROVE  BundleInvariant'
<1> DEFINE r == placing[s]
<1>1. /\ r # Null /\ UNCHANGED <<bundle, content, raced>>
      /\ placing' = [placing EXCEPT ![s].gone = @ \cap content, ![s].held = TRUE]
  BY DEF DeleteRows, Placing
<1>2. /\ placing \in [Sessions -> {Null} \cup PlaceRequests]
      /\ r \in PlaceRequests /\ InPlace(r)
  BY <1>1, BundleTypeFacts DEF BundleInvariant, Placing
<1>3. PICK q \in PlaceRequests : q = [r EXCEPT !.gone = @ \cap content, !.held = TRUE]
  BY <1>2 DEF PlaceRequests
<1>4. placing' = [placing EXCEPT ![s] = q]
  BY <1>1, <1>2, <1>3
<1>5. InPlace(q)'
  <2>1. /\ q.bundle = r.bundle /\ q.first = r.first /\ q.list = r.list
        /\ q.fresh = r.fresh /\ q.gone = r.gone \cap content
    BY <1>2, <1>3 DEF PlaceRequests
  <2>2. Kept(q)' = Kept(r)
    BY <1>1, <2>1 DEF Kept, RowsOf
  <2> HIDE DEF r
  <2> QED BY <1>2, <2>1, <2>2 DEF InPlace
<1> QED BY <1>1, <1>4, <1>5, SessionKeeps

LEMMA GiveUpKeeps ==
  ASSUME Collecting, BundleInvariant, NEW s \in Sessions, GiveUp(s)
  PROVE  BundleInvariant'
BY SessionKeeps DEF GiveUp

\* The list is behind the rows that stay, or the bundle is raced; the others'
\* requests for the bundle are fresh no longer.
LEMMA PlaceKeeps ==
  ASSUME Collecting, BundleInvariant, NEW s \in Sessions, Place(s)
  PROVE  BundleInvariant'
<1> USE BundleTypeFacts DEF BundleInvariant
<1>1. PICK r : r = placing[s]
  OBVIOUS
<1>2. PICK b : b = r.bundle
  OBVIOUS
<1>3. /\ r # Null /\ bundle[b] # Null
      /\ Range(r.list) \subseteq Patches
      /\ bundle' = [bundle EXCEPT ![b] = Renamed(@, r.name, r.public, r.project)]
      /\ content' = (content \ r.gone) \cup RowsAt(b, r.list, r.first)
      /\ placing' = [t \in Sessions |->
           IF t \in Placing \ {s}
           THEN [placing[t] EXCEPT !.fresh = @ /\ placing[t].bundle # b] ELSE Null]
      /\ raced' = IF ~r.fresh THEN raced \cup {b}
                  ELSE IF Kept(r) = {} THEN raced \ {b} ELSE raced
  BY <1>1, <1>2 DEF Place, Placing, Insertable
<1>4. r \in PlaceRequests /\ InPlace(r)
  BY <1>1, <1>3 DEF Placing
<1>5. /\ b \in BundleIds /\ r.list \in PatchLists /\ r.first \in Nat
      /\ r.name \in Names \cup {Null} /\ r.public \in BOOLEAN \cup {Null}
      /\ r.project \in Range(ProjectOf) \cup {Null} /\ r.gone \subseteq ContentRows
      /\ r.fresh \in BOOLEAN
  BY <1>2, <1>4 DEF PlaceRequests
<1>6. /\ bundle' \in [BundleIds -> BundleRows \cup {Null}] /\ bundle'[b] # Null
      /\ \A c \in BundleIds : bundle[c] # Null => bundle'[c] # Null
  BY <1>3, <1>5, RenamedFacts
<1>7. r.first + Len(r.list) - 1 <= MaxOrder
  BY <1>4 DEF InPlace
<1>8. PICK kept \in SUBSET RowsOf(b) : kept = Kept(r)
  BY <1>2 DEF Kept
<1>9. content' = (content \ RowsOf(b)) \cup kept \cup RowsAt(b, r.list, r.first)
  <2>1. content \ r.gone = (content \ RowsOf(b)) \cup kept
    BY <1>2, <1>4, <1>8 DEF RowsOf, Kept, InPlace
  <2> QED BY <1>3, <2>1
<1>10. /\ raced' \subseteq BundleIds /\ raced \ {b} \subseteq raced'
       /\ b \notin raced' => \A row \in kept : row.order < r.first /\ b \notin raced
  <2>1. raced \subseteq BundleIds
    OBVIOUS
  <2>2. CASE ~r.fresh
    BY <1>3, <1>5, <2>1, <2>2
  <2>3. CASE r.fresh /\ Kept(r) = {}
    BY <1>3, <1>5, <1>8, <2>1, <2>3
  <2>4. CASE r.fresh /\ Kept(r) # {}
    <3>1. raced' = raced
      BY <1>3, <2>4
    <3> QED BY <1>4, <1>8, <2>1, <2>4, <3>1 DEF InPlace
  <2> QED BY <2>2, <2>3, <2>4
<1>11. /\ content' \subseteq ContentRows
       /\ \A row \in content' : row \in content \/ row.bundle = b
       /\ OrdersDistinct'
  BY <1>3, <1>5, <1>7, <1>9, <1>10, ContentKeeps
<1>12. ASSUME NEW t \in Placing \ {s}
       PROVE  placing'[t] \in PlaceRequests /\ InPlace(placing[t])'
  <2>1. PICK o : o = placing[t]
    OBVIOUS
  <2>2. t \in Sessions /\ o \in PlaceRequests /\ InPlace(o)
    BY <2>1 DEF Placing
  <2>3. placing'[t] = [o EXCEPT !.fresh = @ /\ o.bundle # b]
    BY <1>3, <1>12, <2>1, <2>2
  <2>4. PICK q \in PlaceRequests : q = [o EXCEPT !.fresh = @ /\ o.bundle # b]
    BY <2>2 DEF PlaceRequests
  <2>5. /\ q.bundle = o.bundle /\ q.first = o.first /\ q.list = o.list
        /\ q.gone = o.gone /\ (q.fresh => o.fresh /\ o.bundle # b)
    BY <2>2, <2>4 DEF PlaceRequests
  <2>6. o.bundle # b => \A row \in Kept(q)' : row \in Kept(o)
    BY <1>11, <2>5 DEF Kept, RowsOf
  <2>7. InPlace(q)'
    BY <2>2, <2>5, <2>6 DEF InPlace
  <2> QED BY <2>3, <2>4, <2>7 DEF InPlace, Kept
<1>13. placing' \in [Sessions -> {Null} \cup PlaceRequests]
  BY <1>3, <1>12
<1>14. BundlesTypeOK'
  <2>1. \A row \in content' : bundle'[row.bundle] # Null
    BY <1>6, <1>11
  <2> QED BY <1>6, <1>10, <1>11, <1>13, <2>1, TypesOfRows
<1>15. \A t \in Placing' : t \in Placing \ {s}
  BY <1>3 DEF Placing
<1> QED BY <1>11, <1>12, <1>14, <1>15

LEMMA BundleInit ==
  ASSUME Collecting
  PROVE  BundlesInit => BundleInvariant
BY DEF BundlesInit, BundleInvariant, BundlesTypeOK, OrdersDistinct, Placing

LEMMA BundleStep ==
  ASSUME Collecting, BundleInvariant, [BundlesNext]_bundleVars
  PROVE  BundleInvariant'
<1>1. CASE UNCHANGED bundleVars
  <2>1. /\ bundle' \in [BundleIds -> BundleRows \cup {Null}] /\ raced' \subseteq BundleIds
        /\ \A row \in content' : bundle[row.bundle] # Null => bundle'[row.bundle] # Null
    BY <1>1, BundleTypeFacts DEF bundleVars, BundleInvariant
  <2> QED BY <1>1, <2>1, DroppingKeeps DEF bundleVars
<1>2. CASE AtOnce
  BY <1>2, CreateBundleKeeps, CreateFromListKeeps, OtherRequestsKeep DEF AtOnce
<1>3. CASE Starts
  BY <1>3, StartAddingKeeps, StartReplacingKeeps DEF Starts
<1>4. CASE Goes
  BY <1>4, DeleteRowsKeeps, PlaceKeeps, GiveUpKeeps DEF Goes
<1> QED BY <1>1, <1>2, <1>3, <1>4 DEF BundlesNext

LEMMA BundleIsInvariant ==
  ASSUME Collecting
  PROVE  BundlesSpec => []BundleInvariant
<1>1. BundlesInit => BundleInvariant
  BY BundleInit
<1>2. BundleInvariant /\ [BundlesNext]_bundleVars => BundleInvariant'
  BY BundleStep
<1> QED BY <1>1, <1>2, PTL DEF BundlesSpec

\* The rows of both tables have their types, and those of the content belong to
\* bundles that exist (createBundle, updateBundle, deleteBundle and the forms).
THEOREM BundleTypes ==
  ASSUME Collecting
  PROVE  BundlesSpec => []BundlesTypeOK
<1>1. BundleInvariant => BundlesTypeOK
  BY DEF BundleInvariant
<1> QED BY <1>1, BundleIsInvariant, PTL

\* No two patches of a bundle share a position, whatever was appended, removed
\* and replaced in it, one at a time or with requests that overlap, unless one
\* of them placed patches after another that it had not seen.
THEOREM PositionsAreDistinct ==
  ASSUME Collecting
  PROVE  BundlesSpec => []OrdersDistinct
<1>1. BundleInvariant => OrdersDistinct
  BY DEF BundleInvariant
<1> QED BY <1>1, BundleIsInvariant, PTL

(***************************************************************************)
(*                                  Checks                                 *)
(***************************************************************************)

\* What the proofs assume of the constants.
Reporting ==
  /\ Null \notin CheckStates
  /\ MaxRequests \in Nat

\* A report that a request found is still there when it is overwritten, since
\* no request deletes one: insertions and events agree because of it.
CheckInvariant ==
  /\ ChecksTypeOK
  /\ \A s \in Sessions :
       report[s] # Null /\ report[s].found => check[report[s].key] # Null
  /\ CreatedOnce

LEMMA CheckInit ==
  ASSUME Reporting
  PROVE  ChecksInit => CheckInvariant
BY DEF Reporting, ChecksInit, CheckInvariant, ChecksTypeOK, CreatedOnce

LEMMA LookKeeps ==
  ASSUME Reporting, CheckInvariant, NEW s \in Sessions, NEW u \in Users,
         NEW p \in Patches, NEW context \in Contexts, NEW state \in CheckStates,
         Look(s, u, p, context, state)
  PROVE  CheckInvariant'
<1> DEFINE key == [patch |-> p, context |-> context, user |-> u]
           r   == [key |-> key, state |-> state, found |-> check[key] # Null]
<1>1. UNCHANGED <<check, created>> /\ made' = made + 1 /\ made < MaxRequests
      /\ report' = [report EXCEPT ![s] = r]
  BY DEF Look
<1>2. r \in Reports /\ r.key = key /\ r.found = (check[key] # Null)
  BY DEF Reports, Keys
<1>3. made' \in 0..MaxRequests
  BY <1>1 DEF Reporting, CheckInvariant, ChecksTypeOK
<1> HIDE DEF r, key
<1>4. \A t \in Sessions :
        report'[t] # Null /\ report'[t].found => check'[report'[t].key] # Null
  BY <1>1, <1>2 DEF CheckInvariant, ChecksTypeOK
<1>5. report' \in [Sessions -> Reports \cup {Null}]
  BY <1>1, <1>2 DEF CheckInvariant, ChecksTypeOK
<1> QED BY <1>1, <1>3, <1>4, <1>5 DEF CheckInvariant, ChecksTypeOK, CreatedOnce

\* The request that inserts the row is the one that finds none and is not
\* refused; every other one leaves the number of events alone.
LEMMA CreateKeeps ==
  ASSUME Reporting, CheckInvariant, NEW s \in Sessions, CreateCheck(s)
  PROVE  CheckInvariant'
<1> DEFINE r == report[s]
<1>1. r \in Reports /\ r # Null /\ made' = made
      /\ report' = [report EXCEPT ![s] = Null]
  BY DEF CreateCheck, CheckInvariant, ChecksTypeOK
<1>2. r.key \in Keys /\ r.state \in CheckStates /\ r.state # Null
      /\ r.found \in BOOLEAN /\ (r.found => check[r.key] # Null)
  BY <1>1 DEF Reports, CheckInvariant, ChecksTypeOK, Reporting
<1>3. CASE Refused(r)
  <2>1. UNCHANGED <<check, created>>
    BY <1>3 DEF CreateCheck
  <2> QED BY <1>1, <2>1 DEF CheckInvariant, ChecksTypeOK, CreatedOnce
<1>4. CASE ~Refused(r)
  <2>1. /\ check' = [check EXCEPT ![r.key] = r.state]
        /\ created' = IF r.found THEN created ELSE [created EXCEPT ![r.key] = @ + 1]
    BY <1>4 DEF CreateCheck
  <2>2. r.found <=> check[r.key] # Null
    BY <1>2, <1>4 DEF Refused
  <2> HIDE DEF r
  <2>3. check' \in [Keys -> CheckStates \cup {Null}] /\ created' \in [Keys -> Nat]
    BY <1>2, <2>1 DEF CheckInvariant, ChecksTypeOK
  <2>4. CreatedOnce'
    <3> SUFFICES ASSUME NEW key \in Keys
                 PROVE  created'[key] = IF check'[key] = Null THEN 0 ELSE 1
      BY DEF CreatedOnce
    <3>1. created[key] = IF check[key] = Null THEN 0 ELSE 1
      BY DEF CheckInvariant, ChecksTypeOK, CreatedOnce
    <3>2. CASE key = r.key
      BY <1>2, <2>1, <2>2, <3>1, <3>2 DEF CheckInvariant, ChecksTypeOK
    <3>3. CASE key # r.key
      BY <1>2, <2>1, <3>1, <3>3 DEF CheckInvariant, ChecksTypeOK
    <3> QED BY <3>2, <3>3
  <2>5. \A t \in Sessions :
          report'[t] # Null /\ report'[t].found => check'[report'[t].key] # Null
    <3>1. \A key \in Keys : check[key] # Null => check'[key] # Null
      BY <1>2, <2>1 DEF CheckInvariant, ChecksTypeOK
    <3>2. \A t \in Sessions : report'[t] # Null => report'[t] = report[t]
      BY <1>1 DEF CheckInvariant, ChecksTypeOK
    <3>3. \A t \in Sessions : report[t] # Null => report[t].key \in Keys
      BY DEF CheckInvariant, ChecksTypeOK, Reports
    <3> QED BY <3>1, <3>2, <3>3 DEF CheckInvariant, ChecksTypeOK
  <2> QED BY <1>1, <2>3, <2>4, <2>5 DEF CheckInvariant, ChecksTypeOK
<1> QED BY <1>3, <1>4

LEMMA UpdateKeeps ==
  ASSUME Reporting, CheckInvariant, NEW u \in Users, NEW key \in Keys,
         NEW state \in CheckStates, UpdateCheck(u, key, state)
  PROVE  CheckInvariant'
<1>1. /\ made < MaxRequests /\ made' = made + 1 /\ UNCHANGED <<report, created>>
      /\ check' = [check EXCEPT ![key] = state] /\ check[key] # Null /\ state # Null
  BY DEF UpdateCheck, Reporting
<1>2. made' \in 0..MaxRequests
  BY <1>1 DEF Reporting, CheckInvariant, ChecksTypeOK
<1>3. \A k \in Keys : check'[k] = Null <=> check[k] = Null
  BY <1>1 DEF CheckInvariant, ChecksTypeOK
<1>4. \A t \in Sessions : report[t] # Null => report[t].key \in Keys
  BY DEF CheckInvariant, ChecksTypeOK, Reports
<1>5. check' \in [Keys -> CheckStates \cup {Null}]
  BY <1>1 DEF CheckInvariant, ChecksTypeOK
<1> QED BY <1>1, <1>2, <1>3, <1>4, <1>5 DEF CheckInvariant, ChecksTypeOK, CreatedOnce

LEMMA CheckStep ==
  ASSUME Reporting, CheckInvariant, [ChecksNext]_checkVars
  PROVE  CheckInvariant'
<1>1. CASE UNCHANGED checkVars
  BY <1>1 DEF checkVars, CheckInvariant, ChecksTypeOK, CreatedOnce
<1> QED BY <1>1, LookKeeps, CreateKeeps, UpdateKeeps DEF ChecksNext

LEMMA CheckIsInvariant ==
  ASSUME Reporting
  PROVE  ChecksSpec => []CheckInvariant
<1>1. ChecksInit => CheckInvariant
  BY CheckInit
<1>2. CheckInvariant /\ [ChecksNext]_checkVars => CheckInvariant'
  BY CheckStep
<1> QED BY <1>1, <1>2, PTL DEF ChecksSpec

\* The tables and the requests keep their types (createCheck, updateCheck).
THEOREM CheckTypes ==
  ASSUME Reporting
  PROVE  ChecksSpec => []ChecksTypeOK
<1>1. CheckInvariant => ChecksTypeOK
  BY DEF CheckInvariant
<1> QED BY <1>1, CheckIsInvariant, PTL

\* However many requests for one patch, context and user overlap, its report is
\* announced as created once if it exists, and not at all if it does not
\* (createCheck, GetCheckByPatchContextUser and the unique key of ci_check).
THEOREM ReportsAreAnnouncedOnce ==
  ASSUME Reporting
  PROVE  ChecksSpec => []CreatedOnce
<1>1. CheckInvariant => CreatedOnce
  BY DEF CheckInvariant
<1> QED BY <1>1, CheckIsInvariant, PTL

(***************************************************************************)
(*                                 Paging                                  *)
(***************************************************************************)

\* What the proof assumes of the constants: a page has a row at least, and NULL
\* is no number.
Paged == PerPage \in Nat \ {0} /\ Null \notin Nat

(***************************************************************************)
(* Pages.                                                                  *)
(***************************************************************************)

\* The last page ends at or after the last row.
LEMMA LastPageIsLast ==
  ASSUME Paged, NEW n \in Nat
  PROVE  LastPage(n) \in Nat /\ LastPage(n) * PerPage >= n
  BY DEF Paged, LastPage

\* The rows of a page are shown, and those before it are counted.
LEMMA PageShows ==
  ASSUME Paged, NEW s \in Seq(Nat), NEW page \in Nat \ {0}, NEW j \in 1..Len(s),
         j > (page - 1) * PerPage
  PROVE  s[j] \in Range(PageOf(s, page)) \/ j > page * PerPage
<1> DEFINE off  == Offset(page)
           final == IF off + PerPage < Len(s) THEN off + PerPage ELSE Len(s)
<1>1. off \in Nat /\ PerPage \in Nat /\ Len(s) \in Nat
  BY DEF Offset, Paged
<1>2. page * PerPage = off + PerPage
  BY DEF Offset, Paged
<1>3. PageOf(s, page) = SubSeq(s, off + 1, final)
  BY DEF PageOf
<1> HIDE DEF off
<1>4. CASE j <= off + PerPage
  <2>1. j \in (off + 1)..final
    BY <1>1, <1>4 DEF Offset, off
  <2>2. j - off \in 1..Len(SubSeq(s, off + 1, final)) /\ SubSeq(s, off + 1, final)[j - off] = s[j]
    BY <1>1, <2>1, SubSeqProperties
  <2>3. DOMAIN SubSeq(s, off + 1, final) = 1..Len(SubSeq(s, off + 1, final))
    <3>1. \A i \in (off + 1)..final : s[i] \in Nat
      BY <1>1, ElementOfSeq
    <3>2. SubSeq(s, off + 1, final) \in Seq(Nat)
      BY <1>1, <3>1, SubSeqProperties
    <3> QED BY <3>2, LenProperties
  <2> QED BY <1>3, <2>2, <2>3 DEF Range
<1>5. CASE j > off + PerPage
  BY <1>2, <1>5
<1> QED BY <1>1, <1>4, <1>5

\* A row keeps its place or moves on by one when another comes in.
LEMMA InsertMoves ==
  ASSUME NEW s \in Seq(Nat), NEW id \in Nat, NEW at \in 1..(Len(s) + 1)
  PROVE  /\ InsertAt(s, at, id) \in Seq(Nat)
         /\ Len(InsertAt(s, at, id)) = Len(s) + 1
         /\ \A j \in 1..Len(s) :
              InsertAt(s, at, id)[IF j < at THEN j ELSE j + 1] = s[j]
<1> DEFINE front == SubSeq(s, 1, at - 1)
           back  == SubSeq(s, at, Len(s))
           one   == <<id>>
           n     == Len(s)
<1>1. n \in Nat /\ at \in 1..(n + 1) /\ \A i \in 1..n : s[i] \in Nat
  BY ElementOfSeq, LenProperties
<1>2. /\ front \in Seq(Nat) /\ Len(front) = at - 1
      /\ \A i \in 1..(at - 1) : front[i] = s[i]
  BY <1>1, SubSeqProperties
<1>3. /\ back \in Seq(Nat) /\ Len(back) = n - at + 1
      /\ \A i \in 1..(n - at + 1) : back[i] = s[at + i - 1]
  BY <1>1, SubSeqProperties
<1>4. one \in Seq(Nat) /\ Len(one) = 1
  OBVIOUS
<1>5. InsertAt(s, at, id) = front \o one \o back
  BY DEF InsertAt
<1> HIDE DEF front, back, one, n
<1> DEFINE first == front \o one
<1>6. /\ first \in Seq(Nat) /\ Len(first) = Len(front) + Len(one)
      /\ \A i \in 1..(Len(front) + Len(one)) :
           first[i] = IF i <= Len(front) THEN front[i] ELSE one[i - Len(front)]
  BY <1>2, <1>4, ConcatProperties
<1> HIDE DEF first
<1>7. /\ Len(first) = at
      /\ \A i \in 1..(at - 1) : first[i] = s[i]
  <2>1. Len(first) = at
    BY <1>1, <1>2, <1>4, <1>6
  <2>2. ASSUME NEW i \in 1..(at - 1) PROVE first[i] = s[i]
    <3>1. i \in 1..(Len(front) + Len(one)) /\ i <= Len(front)
      BY <1>1, <1>2, <1>4
    <3> QED BY <1>2, <1>6, <3>1
  <2> QED BY <2>1, <2>2
<1> DEFINE whole == first \o back
<1>8. /\ whole \in Seq(Nat) /\ Len(whole) = Len(first) + Len(back)
      /\ \A i \in 1..(Len(first) + Len(back)) :
           whole[i] = IF i <= Len(first) THEN first[i] ELSE back[i - Len(first)]
  BY <1>3, <1>6, ConcatProperties, SMTT(30)
<1>11. InsertAt(s, at, id) = whole
  BY <1>5 DEF first
<1> HIDE DEF whole
<1>12. Len(whole) = n + 1
  BY <1>1, <1>3, <1>7, <1>8
<1>9. ASSUME NEW j \in 1..n PROVE whole[IF j < at THEN j ELSE j + 1] = s[j]
  <2>1. CASE j < at
    BY <1>1, <1>3, <1>7, <1>8, <2>1
  <2>2. CASE j >= at
    <3>1. j + 1 \in (at + 1)..(n + 1) /\ j + 1 - at \in 1..(n - at + 1)
      BY <1>1, <2>2
    <3>2. back[j + 1 - at] = s[j]
      BY <1>1, <1>3, <3>1
    <3>5. j + 1 \in 1..(Len(first) + Len(back)) /\ ~(j + 1 <= Len(first))
      BY <1>1, <1>3, <1>7, <3>1
    <3>3. whole[j + 1] = back[j + 1 - at]
      BY <1>7, <1>8, <3>5
    <3>4. (IF j < at THEN j ELSE j + 1) = j + 1
      BY <1>1, <2>2
    <3> QED BY <3>2, <3>3, <3>4
  <2> QED BY <1>1, <2>1, <2>2
<1> QED BY <1>8, <1>9, <1>11, <1>12 DEF n

\* A row keeps its place or moves back by one when an earlier one goes.
LEMMA RemoveMoves ==
  ASSUME NEW s \in Seq(Nat), NEW at \in 1..Len(s)
  PROVE  /\ RemoveAt(s, at) \in Seq(Nat)
         /\ Len(RemoveAt(s, at)) = Len(s) - 1
         /\ \A j \in 1..Len(s) : j # at =>
              RemoveAt(s, at)[IF j < at THEN j ELSE j - 1] = s[j]
<1> DEFINE front == SubSeq(s, 1, at - 1)
           back  == SubSeq(s, at + 1, Len(s))
           n     == Len(s)
           whole == front \o back
<1>1. n \in Nat /\ at \in 1..n /\ \A i \in 1..n : s[i] \in Nat
  BY ElementOfSeq, LenProperties
<1>2. /\ front \in Seq(Nat) /\ Len(front) = at - 1
      /\ \A i \in 1..(at - 1) : front[i] = s[i]
  BY <1>1, SubSeqProperties
<1>3. /\ back \in Seq(Nat) /\ Len(back) = n - at
      /\ \A i \in 1..(n - at) : back[i] = s[at + i]
  <2>1. /\ back \in Seq(Nat)
        /\ Len(back) = IF at + 1 <= n THEN n - (at + 1) + 1 ELSE 0
        /\ \A i \in 1..(n - (at + 1) + 1) : back[i] = s[at + 1 + i - 1]
    BY <1>1, SubSeqProperties
  <2>2. Len(back) = n - at
    BY <1>1, <2>1
  <2>3. ASSUME NEW i \in 1..(n - at) PROVE back[i] = s[at + i]
    <3>1. i \in 1..(n - (at + 1) + 1) /\ at + 1 + i - 1 = at + i
      BY <1>1
    <3> QED BY <2>1, <3>1
  <2> QED BY <2>1, <2>2, <2>3
<1>4. RemoveAt(s, at) = whole
  BY DEF RemoveAt
<1> HIDE DEF front, back, n
<1>5. /\ whole \in Seq(Nat) /\ Len(whole) = Len(front) + Len(back)
      /\ \A i \in 1..(Len(front) + Len(back)) :
           whole[i] = IF i <= Len(front) THEN front[i] ELSE back[i - Len(front)]
  BY <1>2, <1>3, ConcatProperties
<1> HIDE DEF whole
<1>6. Len(whole) = n - 1
  BY <1>1, <1>2, <1>3, <1>5
<1>7. ASSUME NEW j \in 1..n, j # at PROVE whole[IF j < at THEN j ELSE j - 1] = s[j]
  <2>1. CASE j < at
    <3>1. j \in 1..(Len(front) + Len(back)) /\ j <= Len(front) /\ j \in 1..(at - 1)
      BY <1>1, <1>2, <1>3, <2>1
    <3> QED BY <1>2, <1>5, <2>1, <3>1
  <2>2. CASE j > at
    <3>1. /\ j - 1 \in 1..(Len(front) + Len(back)) /\ ~(j - 1 <= Len(front))
          /\ j - 1 - Len(front) = j - at /\ j - at \in 1..(n - at) /\ at + (j - at) = j
      BY <1>1, <1>2, <1>3, <2>2
    <3>2. whole[j - 1] = back[j - at] /\ back[j - at] = s[j]
      BY <1>3, <1>5, <3>1
    <3>3. (IF j < at THEN j ELSE j - 1) = j - 1
      BY <1>1, <2>2
    <3> QED BY <3>2, <3>3
  <2> QED BY <1>1, <1>7, <2>1, <2>2
<1> QED BY <1>4, <1>5, <1>6, <1>7 DEF n

\* A page is a sequence of rows.
LEMMA PageType ==
  ASSUME Paged, NEW s \in Seq(Nat), NEW page \in Nat \ {0}
  PROVE  PageOf(s, page) \in Seq(Nat)
<1> DEFINE off  == Offset(page)
           final == IF off + PerPage < Len(s) THEN off + PerPage ELSE Len(s)
<1>1. off \in Nat /\ PerPage \in Nat /\ Len(s) \in Nat
  BY DEF Offset, Paged
<1>2. PageOf(s, page) = SubSeq(s, off + 1, final)
  BY DEF PageOf
<1> HIDE DEF off
<1>3. \A i \in (off + 1)..final : s[i] \in Nat
  BY <1>1, ElementOfSeq
<1> QED BY <1>1, <1>2, <1>3, SubSeqProperties

\* What was shown stays shown when a page is added.
LEMMA ShownStays ==
  ASSUME NEW s \in Seq(Nat), NEW t \in Seq(Nat)
  PROVE  s \o t \in Seq(Nat) /\ Range(s \o t) = Range(s) \cup Range(t)
<1>1. /\ s \o t \in Seq(Nat)
      /\ Len(s \o t) = Len(s) + Len(t)
      /\ \A i \in 1..(Len(s) + Len(t)) :
           (s \o t)[i] = IF i <= Len(s) THEN s[i] ELSE t[i - Len(s)]
  BY ConcatProperties
<1>2. /\ Len(s) \in Nat /\ Len(t) \in Nat
      /\ DOMAIN s = 1..Len(s) /\ DOMAIN t = 1..Len(t)
      /\ DOMAIN (s \o t) = 1..(Len(s) + Len(t))
  BY <1>1, LenProperties
<1> DEFINE both == s \o t
<1> HIDE DEF both
<1>3. ASSUME NEW i \in 1..Len(s) PROVE s[i] \in Range(both)
  <2>1. i \in DOMAIN both /\ both[i] = s[i]
    BY <1>1, <1>2 DEF both
  <2> QED BY <2>1 DEF Range
<1>4. ASSUME NEW i \in 1..Len(t) PROVE t[i] \in Range(both)
  <2>1. i + Len(s) \in DOMAIN both /\ both[i + Len(s)] = t[i]
    BY <1>1, <1>2 DEF both
  <2> QED BY <2>1 DEF Range
<1>5. ASSUME NEW i \in DOMAIN both PROVE both[i] \in Range(s) \cup Range(t)
  <2>1. i \in 1..(Len(s) + Len(t))
    BY <1>2 DEF both
  <2>2. CASE i <= Len(s)
    <3>1. both[i] = s[i] /\ i \in DOMAIN s
      BY <1>1, <1>2, <2>1, <2>2 DEF both
    <3> QED BY <3>1 DEF Range
  <2>3. CASE i > Len(s)
    <3>1. both[i] = t[i - Len(s)] /\ i - Len(s) \in DOMAIN t
      BY <1>1, <1>2, <2>1, <2>3 DEF both
    <3> QED BY <3>1 DEF Range
  <2> QED BY <1>2, <2>1, <2>2, <2>3
<1>6. Range(both) = Range(s) \cup Range(t)
  BY <1>2, <1>3, <1>4, <1>5 DEF Range
<1> QED BY <1>1, <1>6 DEF both

(***************************************************************************)
(* The walk.                                                               *)
(***************************************************************************)

PagingTypes ==
  /\ visible \in Seq(Nat)
  /\ pending \subseteq Nat /\ lastId \in Nat
  /\ walk \in [page: Nat \ {0}, total: Nat \cup {Null}, shown: Seq(Nat), done: BOOLEAN]

\* The places of rows that the reader has yet to come to: on pages to come, and
\* once the rows are counted, on the last page at the latest if this is it.
Ahead(j) ==
  /\ j > Offset(walk.page)
  /\ walk.total # Null /\ ~HasNext(walk.page, walk.total)
       => j <= LastPage(walk.total) * PerPage

\* A row has been shown or is ahead of the reader.
Reached(r) ==
  r \in Range(walk.shown) \/ \E j \in 1..Len(visible) : visible[j] = r /\ Ahead(j)

PagingInvariant ==
  /\ PagingTypes
  /\ walk.done => walk.total = Null
  /\ ~walk.done => \A r \in began \ slipped : Reached(r)
  /\ NothingIsMissed

\* The reader is where they were, and so is every row they were ahead of, or it
\* has slipped.
LEMMA RowsStay ==
  ASSUME PagingInvariant, PagingTypes', UNCHANGED <<walk, began>>,
         slipped \subseteq slipped',
         \A j \in 1..Len(visible) : Ahead(j) /\ visible[j] \notin slipped' =>
           \E k \in 1..Len(visible') : visible'[k] = visible[j] /\ Ahead(k)
  PROVE  PagingInvariant'
<1>1. ASSUME NEW r \in began \ slipped', Reached(r) PROVE Reached(r)'
  <2>1. \A k : Ahead(k)' <=> Ahead(k)
    BY DEF Ahead
  <2>2. CASE r \in Range(walk.shown)
    BY <2>2 DEF Reached
  <2>3. ASSUME NEW j \in 1..Len(visible), visible[j] = r, Ahead(j)
        PROVE  Reached(r)'
    <3>1. PICK k \in 1..Len(visible') : visible'[k] = r /\ Ahead(k)
      BY <2>3
    <3> QED BY <2>1, <3>1 DEF Reached
  <2> QED BY <1>1, <2>2, <2>3 DEF Reached
<1> QED BY <1>1 DEF PagingInvariant, NothingIsMissed

\* Where the reader is.
LEMMA PlaceOfReader ==
  ASSUME Paged, PagingTypes
  PROVE  /\ Offset(walk.page) \in Nat
         /\ walk.total # Null => LastPage(walk.total) * PerPage \in Nat
<1>1. walk.page \in Nat \ {0} /\ (walk.total # Null => walk.total \in Nat)
  BY DEF PagingTypes
<1>2. Offset(walk.page) \in Nat
  <2>1. walk.page - 1 \in Nat
    BY <1>1
  <2> QED BY <2>1 DEF Offset, Paged
<1>3. ASSUME walk.total # Null PROVE LastPage(walk.total) * PerPage \in Nat
  <2>1. LastPage(walk.total) \in Nat
    BY <1>1, <1>3, LastPageIsLast
  <2> QED BY <2>1 DEF Paged
<1> QED BY <1>2, <1>3

\* A row that comes in pushes the others on, one of them perhaps out of the last
\* page.
LEMMA InsertAhead ==
  ASSUME Paged, PagingTypes, NEW s \in Seq(Nat), NEW id \in Nat,
         NEW at \in 1..(Len(s) + 1), NEW t, t = InsertAt(s, at, id)
  PROVE  \A j \in 1..Len(s) : Ahead(j) /\ s[j] \notin Pushed(t) =>
           \E k \in 1..Len(t) : t[k] = s[j] /\ Ahead(k)
<1> SUFFICES ASSUME NEW j \in 1..Len(s), Ahead(j), s[j] \notin Pushed(t)
             PROVE  \E k \in 1..Len(t) : t[k] = s[j] /\ Ahead(k)
  OBVIOUS
<1> DEFINE k   == IF j < at THEN j ELSE j + 1
           off == Offset(walk.page)
           end == LastPage(walk.total) * PerPage
           final == walk.total # Null /\ ~HasNext(walk.page, walk.total)
<1>1. Len(s) \in Nat /\ Len(t) = Len(s) + 1 /\ t[k] = s[j]
  BY InsertMoves, LenProperties
<1>2. off \in Nat /\ (final => end \in Nat)
  BY PlaceOfReader
<1>3. j > off /\ (final => j <= end)
  BY DEF Ahead
<1>4. final /\ end < Len(t) => s[j] # t[end + 1]
  BY DEF Pushed
<1> SUFFICES k \in 1..Len(t) /\ k > off /\ (final => k <= end)
  BY <1>1 DEF Ahead
<1>5. (k = j \/ k = j + 1) /\ k \in Nat
  OBVIOUS
<1> HIDE DEF k, off, end, final
<1>6. k \in 1..Len(t) /\ k > off
  BY <1>1, <1>2, <1>3, <1>5
<1>7. ASSUME final PROVE k <= end
  <2>1. SUFFICES ASSUME k > end PROVE FALSE
    BY <1>2, <1>5, <1>7
  <2>2. k = end + 1 /\ end < Len(t)
    BY <1>2, <1>3, <1>5, <1>6, <1>7, <2>1
  <2> QED BY <1>1, <1>4, <1>7, <2>2
<1> QED BY <1>6, <1>7

\* A row that goes pulls the others back, one of them perhaps over the reader's
\* place.
LEMMA RemoveAhead ==
  ASSUME Paged, PagingTypes, NEW at \in 1..Len(visible),
         NEW t, t = RemoveAt(visible, at),
         NEW j \in 1..Len(visible), j # at, Ahead(j), visible[j] \notin Pulled(at)
  PROVE  \E k \in 1..Len(t) : t[k] = visible[j] /\ Ahead(k)
<1> DEFINE k   == IF j < at THEN j ELSE j - 1
           off == Offset(walk.page)
           end == LastPage(walk.total) * PerPage
           final == walk.total # Null /\ ~HasNext(walk.page, walk.total)
<1>1. Len(visible) \in Nat /\ Len(t) = Len(visible) - 1 /\ t[k] = visible[j]
  BY RemoveMoves, LenProperties DEF PagingTypes
<1>2. off \in Nat /\ (final => end \in Nat)
  BY PlaceOfReader
<1>3. j > off /\ (final => j <= end)
  BY DEF Ahead
<1>4. at <= off /\ off < Len(visible) => visible[j] # visible[off + 1]
  BY DEF Pulled
<1> SUFFICES k \in 1..Len(t) /\ k > off /\ (final => k <= end)
  BY <1>1 DEF Ahead
<1>5. k \in Int /\ ((j < at /\ k = j) \/ (j > at /\ k = j - 1))
  OBVIOUS
<1> HIDE DEF k, off, end, final
<1>6. k \in 1..Len(t) /\ (final => k <= end)
  BY <1>1, <1>2, <1>3, <1>5
<1>7. SUFFICES ASSUME ~(k > off) PROVE FALSE
  BY <1>6
<1>8. j = off + 1 /\ at <= off /\ off < Len(visible)
  BY <1>1, <1>2, <1>3, <1>5, <1>7
<1> QED BY <1>4, <1>8

LEMMA CommitStep ==
  ASSUME Paged, PagingInvariant, CommitRow
  PROVE  PagingInvariant'
<1>1. PICK id \in pending, at \in 1..(Len(visible) + 1) :
        /\ visible' = InsertAt(visible, at, id)
        /\ pending' = pending \ {id}
        /\ slipped' = slipped \cup Pushed(visible')
        /\ UNCHANGED <<listing, lastId, keys, walk, began>>
  BY DEF CommitRow
<1>2. PagingTypes /\ visible \in Seq(Nat) /\ id \in Nat
  BY <1>1 DEF PagingInvariant, PagingTypes
<1>3. PagingTypes'
  BY <1>1, <1>2, InsertMoves DEF PagingTypes
<1>4. ASSUME NEW j \in 1..Len(visible), Ahead(j), visible[j] \notin slipped'
      PROVE  \E k \in 1..Len(visible') : visible'[k] = visible[j] /\ Ahead(k)
  <2>1. visible[j] \notin Pushed(visible')
    BY <1>1, <1>4
  <2> QED BY <1>1, <1>2, <1>4, <2>1, InsertAhead
<1> QED BY <1>1, <1>3, <1>4, RowsStay

LEMMA DepartStep ==
  ASSUME Paged, PagingInvariant, Depart
  PROVE  PagingInvariant'
<1>1. PICK at \in DOMAIN visible :
        /\ visible' = RemoveAt(visible, at)
        /\ pending' = pending \cup {visible[at]}
        /\ slipped' = slipped \cup {visible[at]} \cup Pulled(at)
        /\ UNCHANGED <<listing, lastId, keys, walk, began>>
  BY DEF Depart
<1>2. PagingTypes /\ visible \in Seq(Nat)
  BY DEF PagingInvariant, PagingTypes
<1>3. at \in 1..Len(visible) /\ visible[at] \in Nat
  BY <1>1, <1>2, LenProperties, ElementOfSeq
<1>4. PagingTypes'
  BY <1>1, <1>2, <1>3, RemoveMoves DEF PagingTypes
<1>5. ASSUME NEW j \in 1..Len(visible), Ahead(j), visible[j] \notin slipped'
      PROVE  \E k \in 1..Len(visible') : visible'[k] = visible[j] /\ Ahead(k)
  <2>1. j # at /\ visible[j] \notin Pulled(at)
    BY <1>1, <1>5
  <2> QED BY <1>1, <1>2, <1>3, <1>5, <2>1, RemoveAhead, SMTT(30)
<1> QED BY <1>1, <1>4, <1>5, RowsStay

LEMMA MoveStep ==
  ASSUME Paged, PagingInvariant, Move
  PROVE  PagingInvariant'
<1>1. PICK at \in DOMAIN visible, to \in DOMAIN visible, id \in Range(visible) :
        /\ id = visible[at]
        /\ visible' = InsertAt(RemoveAt(visible, at), to, id)
        /\ slipped' = slipped \cup {visible[at]} \cup Pulled(at) \cup Pushed(visible')
        /\ UNCHANGED <<listing, pending, lastId, walk, began>>
  BY DEF Move, Range
<1>2. PagingTypes /\ visible \in Seq(Nat)
  BY DEF PagingInvariant, PagingTypes
<1>3. at \in 1..Len(visible) /\ to \in 1..Len(visible) /\ id \in Nat
  BY <1>1, <1>2, LenProperties, ElementOfSeq
<1>4. PICK s \in Seq(Nat) : s = RemoveAt(visible, at) /\ to \in 1..(Len(s) + 1)
  <2> DEFINE one == RemoveAt(visible, at)
  <2>1. Len(visible) \in Nat /\ one \in Seq(Nat) /\ Len(one) = Len(visible) - 1
    BY <1>2, <1>3, LenProperties, RemoveMoves
  <2> HIDE DEF one
  <2>2. to \in 1..(Len(one) + 1)
    BY <1>3, <2>1
  <2> QED BY <2>1, <2>2 DEF one
<1>5. visible' = InsertAt(s, to, id)
  BY <1>1, <1>4
<1>6. PagingTypes'
  BY <1>1, <1>2, <1>3, <1>4, <1>5, InsertMoves DEF PagingTypes
<1>7. ASSUME NEW j \in 1..Len(visible), Ahead(j), visible[j] \notin slipped'
      PROVE  \E k \in 1..Len(visible') : visible'[k] = visible[j] /\ Ahead(k)
  <2>1. j # at /\ visible[j] \notin Pulled(at) /\ visible[j] \notin Pushed(visible')
    BY <1>1, <1>7
  <2>2. PICK i \in 1..Len(s) : s[i] = visible[j] /\ Ahead(i)
    <3>1. /\ PagingTypes /\ at \in 1..Len(visible) /\ s = RemoveAt(visible, at)
          /\ j # at /\ Ahead(j) /\ visible[j] \notin Pulled(at)
      BY <1>2, <1>3, <1>4, <1>7, <2>1
    <3>2. \A i1 \in 1..Len(visible) :
            i1 # at /\ Ahead(i1) /\ visible[i1] \notin Pulled(at) =>
              \E k \in 1..Len(s) : s[k] = visible[i1] /\ Ahead(k)
      BY <3>1, RemoveAhead
    <3> QED BY <3>1, <3>2
  <2>3. PICK t : t = visible' /\ t = InsertAt(s, to, id)
    BY <1>5
  <2>4. s[i] \notin Pushed(t)
    BY <2>1, <2>2, <2>3
  <2>5. PagingTypes /\ s \in Seq(Nat) /\ id \in Nat /\ to \in 1..(Len(s) + 1)
    BY <1>2, <1>3, <1>4
  <2>6. \A j1 \in 1..Len(s) : Ahead(j1) /\ s[j1] \notin Pushed(t) =>
          \E k \in 1..Len(t) : t[k] = s[j1] /\ Ahead(k)
    BY <2>3, <2>5, InsertAhead, SMTT(30)
  <2>7. \E k \in 1..Len(t) : t[k] = s[i] /\ Ahead(k)
    BY <2>2, <2>4, <2>6
  <2> QED BY <2>2, <2>3, <2>7
<1> QED BY <1>1, <1>6, <1>7, RowsStay

LEMMA SwapStep ==
  ASSUME Paged, PagingInvariant, Swap
  PROVE  PagingInvariant'
<1>1. PICK at \in 1..(Len(visible) - 1) :
        /\ visible' = [visible EXCEPT ![at] = visible[at + 1], ![at + 1] = visible[at]]
        /\ slipped' = slipped \cup (IF at = Offset(walk.page) THEN Pulled(at) ELSE {})
                              \cup Pushed(visible')
        /\ UNCHANGED <<listing, pending, lastId, keys, walk, began>>
  BY DEF Swap
<1>2. PagingTypes /\ visible \in Seq(Nat) /\ Len(visible) \in Nat
  BY LenProperties DEF PagingInvariant, PagingTypes
<1>3. /\ visible \in [1..Len(visible) -> Nat]
      /\ at \in 1..Len(visible) /\ at + 1 \in 1..Len(visible) /\ at # at + 1
  <2>1. /\ at \in 1..Len(visible) /\ at + 1 \in 1..Len(visible) /\ at # at + 1
    BY <1>2
  <2>2. visible \in [1..Len(visible) -> Nat]
    BY <1>2, LenProperties, ElementOfSeq
  <2> QED BY <2>1, <2>2
<1>4. /\ visible' \in [1..Len(visible) -> Nat]
      /\ visible'[at] = visible[at + 1] /\ visible'[at + 1] = visible[at]
      /\ \A i \in 1..Len(visible) : i # at /\ i # at + 1 => visible'[i] = visible[i]
  BY <1>1, <1>3
<1>5. visible' \in Seq(Nat) /\ Len(visible') = Len(visible)
  <2>1. visible' \in Seq(Nat)
    BY <1>2, <1>4, SeqDef
  <2>2. /\ Len(visible') \in Nat /\ DOMAIN visible' = 1..Len(visible')
        /\ DOMAIN visible' = 1..Len(visible)
    BY <1>4, <2>1, LenProperties
  <2> QED BY <1>2, <2>1, <2>2
<1>6. PagingTypes'
  BY <1>1, <1>2, <1>5 DEF PagingTypes
<1>7. ASSUME NEW j \in 1..Len(visible), Ahead(j), visible[j] \notin slipped'
      PROVE  \E k \in 1..Len(visible') : visible'[k] = visible[j] /\ Ahead(k)
  <2> DEFINE off == Offset(walk.page)
             end == LastPage(walk.total) * PerPage
             final == walk.total # Null /\ ~HasNext(walk.page, walk.total)
  <2>1. off \in Nat /\ (final => end \in Nat)
    BY <1>2, PlaceOfReader
  <2>2. j > off /\ (final => j <= end)
    BY <1>7 DEF Ahead
  <2>3. /\ final /\ end < Len(visible') => visible[j] # visible'[end + 1]
        /\ at = off /\ off < Len(visible) => visible[j] # visible[off + 1]
    <3>1. at = off /\ off < Len(visible) => at <= Offset(walk.page)
      BY <2>1
    <3> QED BY <1>1, <1>7, <3>1 DEF Pushed, Pulled
  <2>4. \A k : k > off /\ (final => k <= end) => Ahead(k)
    BY DEF Ahead
  <2> HIDE DEF off, end, final
  <2>5. CASE j = at
    <3>1. at + 1 > off /\ at + 1 \in 1..Len(visible')
      BY <1>2, <1>3, <1>5, <2>1, <2>2, <2>5
    <3>2. ASSUME final PROVE at + 1 <= end
      <4>1. SUFFICES ASSUME ~(at + 1 <= end) PROVE FALSE
        OBVIOUS
      <4>2. at = end /\ end < Len(visible')
        BY <1>2, <1>3, <1>5, <2>1, <2>2, <2>5, <3>2, <4>1
      <4> QED BY <1>4, <2>3, <2>5, <3>2, <4>2
    <3> QED BY <1>4, <2>4, <2>5, <3>1, <3>2
  <2>6. CASE j = at + 1
    <3>1. (final => at <= end) /\ at \in 1..Len(visible')
      BY <1>2, <1>3, <1>5, <2>1, <2>2, <2>6
    <3>2. at > off
      <4>1. SUFFICES ASSUME ~(at > off) PROVE FALSE
        OBVIOUS
      <4>2. at = off /\ off < Len(visible)
        BY <1>2, <1>3, <2>1, <2>2, <2>6, <4>1
      <4> QED BY <2>3, <2>6, <4>2
    <3> QED BY <1>4, <2>4, <2>6, <3>1, <3>2
  <2>7. CASE j # at /\ j # at + 1
    BY <1>4, <1>5, <1>7, <2>7
  <2> QED BY <2>5, <2>6, <2>7
<1> QED BY <1>1, <1>6, <1>7, RowsStay

\* The count begins the walk, or goes on with it; no row is behind the last page.
LEMMA CountStep ==
  ASSUME Paged, PagingInvariant, Count
  PROVE  PagingInvariant'
<1> USE DEF PagingInvariant, PagingTypes
<1>1. /\ ~walk.done /\ walk.total = Null
      /\ walk' = [walk EXCEPT !.total = Len(visible)]
      /\ began' = IF walk.page = 1 THEN Range(visible) ELSE began
      /\ slipped' = IF walk.page = 1 THEN {} ELSE slipped
      /\ UNCHANGED <<listing, visible, pending, lastId, keys>>
  BY DEF Count
<1>2. Len(visible) \in Nat /\ DOMAIN visible = 1..Len(visible)
  BY LenProperties
<1>3. /\ walk'.page = walk.page /\ walk'.shown = walk.shown
      /\ walk'.done = FALSE /\ walk'.total = Len(visible)
      /\ walk' \in [page: Nat \ {0}, total: Nat \cup {Null}, shown: Seq(Nat), done: BOOLEAN]
  BY <1>1, <1>2
<1>4. ASSUME NEW j \in 1..Len(visible), j > Offset(walk.page)
      PROVE  Reached(visible[j])'
  <2> DEFINE end == LastPage(Len(visible)) * PerPage
  <2>1. end \in Nat /\ end >= Len(visible)
    <3>1. /\ LastPage(Len(visible)) \in Nat
          /\ LastPage(Len(visible)) * PerPage >= Len(visible)
      BY <1>2, LastPageIsLast
    <3> QED BY <3>1 DEF Paged
  <2> HIDE DEF end
  <2>2. j <= end
    BY <1>2, <2>1
  <2>3. Offset(walk'.page) = Offset(walk.page)
    BY <1>3
  <2>4. Ahead(j)'
    BY <1>3, <1>4, <2>2, <2>3 DEF Ahead, Offset, end
  <2> QED BY <1>1, <2>4 DEF Reached
<1>5. CASE walk.page = 1
  <2>1. \A r \in began' : Reached(r)'
    <3> SUFFICES ASSUME NEW j \in 1..Len(visible) PROVE Reached(visible[j])'
      BY <1>1, <1>2, <1>5 DEF Range
    <3>1. Offset(walk.page) = 0
      BY <1>5 DEF Paged, Offset
    <3> QED BY <1>4, <3>1
  <2> QED BY <1>1, <1>3, <2>1 DEF NothingIsMissed
<1>6. CASE walk.page # 1
  <2>1. began' = began /\ slipped' = slipped
    BY <1>1, <1>6
  <2>2. ASSUME NEW r, Reached(r) PROVE Reached(r)'
    <3>1. CASE r \in Range(walk.shown)
      BY <1>3, <3>1 DEF Reached
    <3>2. ASSUME NEW j \in 1..Len(visible), visible[j] = r, Ahead(j)
          PROVE  Reached(r)'
      <4>1. j > Offset(walk.page)
        BY <3>2 DEF Ahead
      <4>2. Reached(visible[j])'
        BY <1>4, <4>1
      <4> QED BY <3>2, <4>2, <1>1
    <3> QED BY <2>2, <3>1, <3>2 DEF Reached
  <2> QED BY <1>1, <1>3, <2>1, <2>2 DEF NothingIsMissed
<1> QED BY <1>5, <1>6

\* A page shows its rows; past the last page all rows have been shown.
LEMMA ShowStep ==
  ASSUME Paged, PagingInvariant, Show
  PROVE  PagingInvariant'
<1> USE DEF PagingInvariant, PagingTypes
<1> DEFINE page  == Asked(walk.total)
           more  == HasNext(page, walk.total)
           pages == LastPage(walk.total)
           whole == walk.shown \o PageOf(visible, page)
<1>1. /\ walk.total # Null /\ walk.total \in Nat /\ ~walk.done
      /\ walk' = [page |-> page + 1, total |-> Null, shown |-> whole, done |-> ~more]
      /\ UNCHANGED <<listing, visible, pending, lastId, keys, began, slipped>>
  BY DEF Show
<1>2. pages \in Nat
  BY <1>1, LastPageIsLast
<1>3. /\ page \in Nat \ {0} /\ more \in BOOLEAN
      /\ page # walk.page => page = pages /\ walk.page > pages
      /\ ~more => page >= pages
  BY <1>1, <1>2 DEF Asked, HasNext
<1>4. ~HasNext(walk.page, walk.total) => walk.page >= pages
  BY <1>1, <1>2 DEF HasNext
<1>5. page # walk.page => ~HasNext(walk.page, walk.total) /\ ~more
  BY <1>1, <1>2, <1>3 DEF HasNext, Asked
<1>6. page = walk.page => (more <=> HasNext(walk.page, walk.total))
  OBVIOUS
<1> HIDE DEF page, more
<1>7. /\ whole \in Seq(Nat)
      /\ Range(whole) = Range(walk.shown) \cup Range(PageOf(visible, page))
  <2>1. PageOf(visible, page) \in Seq(Nat)
    BY <1>3, PageType
  <2> QED BY <2>1, ShownStays
<1> HIDE DEF whole
<1>8. /\ walk'.page = page + 1 /\ walk'.total = Null
      /\ walk'.shown = whole /\ walk'.done = ~more
      /\ PagingTypes'
  BY <1>1, <1>3, <1>7
<1>9. Len(visible) \in Nat
  BY LenProperties
<1>10. ASSUME NEW j \in 1..Len(visible), Ahead(j)
       PROVE  visible[j] \in Range(whole) \/ (more /\ j > page * PerPage)
  <2>1. /\ j > (walk.page - 1) * PerPage
        /\ ~HasNext(walk.page, walk.total) => j <= pages * PerPage
    BY <1>1, <1>10 DEF Ahead, Offset
  <2> HIDE DEF pages
  <2>2. /\ (walk.page - 1) * PerPage \in Nat /\ pages * PerPage \in Nat
        /\ page * PerPage \in Nat
    <3>1. walk.page - 1 \in Nat
      OBVIOUS
    <3> QED BY <1>2, <1>3, <3>1 DEF Paged
  <2>3. page = walk.page
    <3>1. SUFFICES ASSUME page # walk.page PROVE FALSE
      OBVIOUS
    <3>2. j <= pages * PerPage
      BY <1>5, <2>1, <3>1
    <3> DEFINE before == walk.page - 1
    <3>3. before \in Nat /\ before >= pages
      BY <1>2, <1>3, <3>1
    <3>4. before * PerPage >= pages * PerPage
      <4> HIDE DEF before
      <4> QED BY <1>2, <3>3 DEF Paged
    <3> QED BY <2>1, <2>2, <3>2, <3>4
  <2>4. visible[j] \in Range(PageOf(visible, page)) \/ j > page * PerPage
    BY <1>3, <2>1, <2>3, PageShows
  <2>5. ~more => j <= page * PerPage
    <3>1. SUFFICES ASSUME ~more PROVE j <= page * PerPage
      OBVIOUS
    <3>2. j <= pages * PerPage
      BY <1>6, <2>1, <2>3, <3>1
    <3>3. page * PerPage >= pages * PerPage
      BY <1>2, <1>3, <3>1 DEF Paged
    <3> QED BY <2>2, <3>2, <3>3
  <2> QED BY <1>7, <2>2, <2>4, <2>5
<1>11. ASSUME NEW r \in began \ slipped
       PROVE  \/ r \in Range(whole)
              \/ more /\ \E j \in 1..Len(visible) : visible[j] = r /\ j > page * PerPage
  BY <1>1, <1>7, <1>10 DEF Reached
<1>12. ASSUME more PROVE \A r \in began' \ slipped' : Reached(r)'
  <2>1. Offset(walk'.page) = page * PerPage
    BY <1>3, <1>8 DEF Offset
  <2>2. \A j : j > page * PerPage => Ahead(j)'
    BY <1>8, <2>1 DEF Ahead, Offset
  <2> QED BY <1>1, <1>8, <1>11, <2>2 DEF Reached
<1> QED BY <1>1, <1>8, <1>11, <1>12 DEF NothingIsMissed

\* The lists begin with the rows 1, 2, and so on, in their order.
LEMMA PagingStarts ==
  ASSUME Paged, PagingInit, MaxRows \in Nat
  PROVE  PagingInvariant
<1>1. PICK n \in 0..MaxRows :
        /\ visible = [i \in 1..n |-> i] \/ visible = Reverse([i \in 1..n |-> i])
        /\ lastId = n
  <2>1. \E n \in 0..MaxRows :
          /\ visible \in {[i \in 1..n |-> i], Reverse([i \in 1..n |-> i])}
          /\ lastId = n
    BY DEF PagingInit
  <2> QED BY <2>1
<1> DEFINE s == [i \in 1..n |-> i]
<1>2. n \in Nat /\ s \in [1..n -> Nat]
  BY <1>1
<1>3. s \in Seq(Nat) /\ Len(s) = n /\ \A i \in 1..n : s[i] = i
  BY <1>2, SeqDef
<1>4. Reverse(s) \in Seq(Nat)
  <2> HIDE DEF s
  <2>1. [i \in 1..Len(s) |-> s[(Len(s) - i) + 1]] \in [1..n -> Nat]
    BY <1>2, <1>3
  <2> QED BY <1>2, <1>3, <2>1, SeqDef DEF Reverse
<1> HIDE DEF s
<1>5. visible \in Seq(Nat)
  BY <1>1, <1>3, <1>4 DEF s
<1>6. lastId \in Nat
  BY <1>1, <1>2
<1>7. <<>> \in Seq(Nat)
  OBVIOUS
<1>8. /\ pending = {} /\ began = {}
      /\ walk = [page |-> 1, total |-> Null, shown |-> <<>>, done |-> FALSE]
  BY DEF PagingInit
<1>9. /\ walk \in [page: Nat \ {0}, total: Nat \cup {Null}, shown: Seq(Nat), done: BOOLEAN]
      /\ walk.done = FALSE /\ walk.total = Null
  BY <1>7, <1>8
<1>10. PagingTypes
  BY <1>5, <1>6, <1>8, <1>9 DEF PagingTypes
<1> QED BY <1>8, <1>9, <1>10 DEF PagingInvariant, NothingIsMissed

LEMMA PagingSteps ==
  ASSUME Paged, PagingInvariant, [PagingNext]_pageVars
  PROVE  PagingInvariant'
<1>1. CASE Insert \/ RollbackRow \/ UNCHANGED pageVars
  <2>1. UNCHANGED <<visible, walk, began, slipped>>
    BY <1>1 DEF Insert, RollbackRow, pageVars
  <2>2. pending' \subseteq Nat /\ lastId' \in Nat
    <3>1. pending \subseteq Nat /\ lastId \in Nat
      BY DEF PagingInvariant, PagingTypes
    <3>2. CASE Insert
      BY <3>1, <3>2 DEF Insert
    <3>3. CASE RollbackRow
      BY <3>1, <3>3 DEF RollbackRow
    <3>4. CASE UNCHANGED pageVars
      BY <3>1, <3>4 DEF pageVars
    <3> QED BY <1>1, <3>2, <3>3, <3>4
  <2>3. PagingTypes'
    BY <2>1, <2>2 DEF PagingInvariant, PagingTypes
  <2> QED BY <2>1, <2>3, RowsStay
<1>2. CASE CommitRow
  BY <1>2, CommitStep
<1>3. CASE Depart
  BY <1>3, DepartStep
<1>4. CASE Move
  BY <1>4, MoveStep
<1>5. CASE Swap
  BY <1>5, SwapStep
<1>6. CASE Count
  BY <1>6, CountStep
<1>7. CASE Show
  BY <1>7, ShowStep
<1> QED BY <1>1, <1>2, <1>3, <1>4, <1>5, <1>6, <1>7 DEF PagingNext

\* A reader of the REST lists, or of the web patch list, who follows the links
\* to the end has been shown every row that was there when they began, but for
\* those that left or moved, and at most one more for each row that went from an
\* earlier page, changed places with an equal, or came in under the last page.
THEOREM NoRowIsMissed ==
  ASSUME Paged, MaxRows \in Nat
  PROVE  PagingSpec => []NothingIsMissed
<1>1. PagingInit => PagingInvariant
  BY PagingStarts
<1>2. PagingInvariant /\ [PagingNext]_pageVars => PagingInvariant'
  BY PagingSteps
<1>3. PagingInvariant => NothingIsMissed
  BY DEF PagingInvariant
<1> QED BY <1>1, <1>2, <1>3, PTL DEF PagingSpec

=============================================================================
