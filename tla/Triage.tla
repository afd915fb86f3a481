-------------------------------- MODULE Triage --------------------------------
(***************************************************************************)
(* What maintainers and submitters do to stored patches: the REST API      *)
(* (pkg/api/patches.go, comments.go) and the web forms (pkg/web/patches.go)*)
(* over the columns state_id, delegate_id, archived and related_id of the  *)
(* table patch and addressed of the comment tables.                        *)
(*                                                                         *)
(* A request is a transaction (pkg/db/middleware.go): a status of 400 or   *)
(* more rolls it back and drops the events it queued.  The API's update is *)
(* several statements, each an action, at read committed: it reads what is *)
(* committed and what it wrote itself, and keeps the rows it has written   *)
(* locked until it ends; a statement that needs a row locked by another    *)
(* waits.  Every other request is one statement after its checks, and one  *)
(* action.  A request that is refused before it writes anything is a       *)
(* stuttering step.                                                        *)
(***************************************************************************)
EXTENDS Patchwork, Integers, FiniteSets, Sequences, Functions

CONSTANTS
  Covers,             \* the stored cover letters
  Maintained,         \* the projects a user maintains, all of them for an admin
  SubmittedBy,        \* the account linked to a patch's submitter, or Null
  Notified,           \* the patches whose submitter wants mail about changes
  Comments,           \* the comments on submissions
  CommentOn,          \* the submission of a comment
  States,
  InitialState,
  Bodies,             \* the API's request bodies, Null for a field left out
  Forms,              \* the form of one patch; delegate is Null when cleared
  ListForms,          \* the form of a list; clear asks for no delegate
  MaxRelations        \* bound: rows ever inserted into patch_relation

VARIABLES
  patch,       \* table patch as committed, a row for every patch
  relations,   \* table patch_relation: the ids committed, and the last id given out
  addressed,   \* column addressed of the comment tables
  request,     \* the API update a session has begun, or Null
  last         \* the last request: who made it, what it published and mailed

triageVars == <<patch, relations, addressed, request, last>>

-----------------------------------------------------------------------------
(* Rights                                                                  *)

IsMaintainer(u, submission) == ProjectOf[submission] \in Maintained[u]

\* Maintainers, and the submitter if their address is linked to the account.
CanEditPatch(u, p) == IsMaintainer(u, p) \/ SubmittedBy[p] = u

-----------------------------------------------------------------------------
(* The API's update of a patch                                             *)

Given(new, old) == IF new = Null THEN old ELSE new

Updated(row, body) ==
  [row EXCEPT !.state    = Given(body.state, @),
              !.delegate = Given(body.delegate, @),
              !.archived = Given(body.archived, @)]

\* What changes is judged by the row that was loaded.
StateChanged(r) == r.body.state # Null /\ r.body.state # r.row.state

DelegateChanged(r) ==
  r.body.delegate # Null /\ r.body.delegate # r.row.delegate

EventOf(category, r, old, new) ==
  [category |-> category, patch |-> r.patch, previous |-> old, current |-> new]

\* The events queued on the transaction.
Queued(r) ==
  (IF StateChanged(r)
   THEN {EventOf("patch-state-changed", r, r.row.state, r.body.state)} ELSE {})
  \cup
  (IF DelegateChanged(r)
   THEN {EventOf("patch-delegated", r, r.row.delegate, r.body.delegate)} ELSE {})

\* Mutant: the queue survives the rollback.
MutantPublished(r, committed) == Queued(r)

\* The queue is published by the commit and dropped by the rollback.
Published(r, committed) == IF committed THEN Queued(r) ELSE {}

\* The mail to the submitter about a new state, unless they made the change.
Notification(p, actor, state) ==
  IF p \in Notified /\ SubmittedBy[p] \notin {Null, actor}
  THEN {[patch |-> p, state |-> state]} ELSE {}

(***************************************************************************)
(* The transaction of an update.  Of the columns of a patch, related_id    *)
(* sorts patches into the rows of patch_relation, 0 for NULL.  A request   *)
(* holds the row it loaded, the related_id it has in memory since, the     *)
(* rows it has written, the relations it has inserted and deleted, its     *)
(* next statement, and the patch of the list it is at; history: alone,     *)
(* while no other update of relations has overlapped with it.              *)
(***************************************************************************)
Begun == {s \in Sessions : request[s] # Null}

Rel == [q \in Patches |-> patch[q].related]

\* The row that a statement of the session reads.
RowOf(s, q) ==
  IF request[s].written[q] # Null THEN request[s].written[q] ELSE patch[q]

\* Who keeps the row locked.
LockedBy(q) == {t \in Begun : request[t].written[q] # Null}

\* The row after a statement that sets its related_id.
Written(s, q, id) ==
  [request[s].written EXCEPT ![q] = [RowOf(s, q) EXCEPT !.related = id]]

\* Mutant: no foreign key.
MutantReferable(s, id) == TRUE

\* The foreign key: the relation is there, or was inserted by the transaction
\* itself; a statement waits for another one's deletion.
Referable(s, id) ==
  /\ id \in relations.ids \cup request[s].born
  /\ \A t \in Begun \ {s} : id \notin request[t].dropped

\* The deletion waits for rows that refer to the relation, or did before.
Droppable(s, id) ==
  \A t \in Begun \ {s} :
    /\ id \notin request[t].dropped
    /\ \A q \in Patches : request[t].written[q] # Null
         => id \notin {request[t].written[q].related, patch[q].related}

Sets(body) == body.state # Null \/ body.delegate # Null \/ body.archived # Null

Relates(t) == request[t] # Null /\ request[t].body.related # Null

\* The handler loads the patch it is to update.
Load(s, u, p, body) ==
  /\ request[s] = Null
  /\ IsMaintainer(u, p)
  /\ request' = [t \in Sessions |->
       IF t = s
       THEN [user |-> u, patch |-> p, body |-> body, row |-> patch[p],
             related |-> patch[p].related, written |-> [q \in Patches |-> Null],
             born |-> {}, dropped |-> {}, at |-> "write", item |-> 1,
             alone |-> \A o \in Sessions : ~Relates(o)]
       ELSE IF request[t] = Null THEN Null
       ELSE [request[t] EXCEPT !.alone = @ /\ body.related = Null]]
  /\ UNCHANGED <<patch, relations, addressed, last>>

\* The first statement of updateRelated, if it is called.
FirstOfRelated(r) ==
  CASE r.body.related = Null -> "commit"
    [] r.body.related = <<>> -> IF r.related = 0 THEN "commit" ELSE "leave"
    [] OTHER                 -> "look"

\* The columns of the body are set, the events queued and mail is sent.
WritePatch(s) ==
  LET r    == request[s]
      mail == IF StateChanged(r)
              THEN Notification(r.patch, r.user, r.body.state) ELSE {}
      next == [r EXCEPT !.at = FirstOfRelated(r)]
  IN /\ s \in Begun /\ r.at = "write"
     /\ IF Sets(r.body)
        THEN /\ LockedBy(r.patch) \subseteq {s}
             /\ request' = [request EXCEPT ![s] =
                  [next EXCEPT !.written[r.patch] = Updated(RowOf(s, r.patch), r.body)]]
        ELSE request' = [request EXCEPT ![s] = next]
     /\ last' = [actor |-> r.user, events |-> {}, mails |-> mail]
     /\ UNCHANGED <<patch, relations, addressed>>

\* An empty list takes the patch out of the relation it was loaded in.
Leave(s) ==
  LET r == request[s]
  IN /\ s \in Begun /\ r.at = "leave"
     /\ LockedBy(r.patch) \subseteq {s}
     /\ request' = [request EXCEPT ![s] =
          [r EXCEPT !.written = Written(s, r.patch, 0), !.at = "count"]]
     /\ UNCHANGED <<patch, relations, addressed, last>>

\* Mutant: the patch itself is counted, which others still see in the relation.
MutantRemaining(s) == {q \in Patches : patch[q].related = request[s].related}

Remaining(s) == {q \in Patches : RowOf(s, q).related = request[s].related}

CountRemaining(s) ==
  /\ s \in Begun /\ request[s].at = "count"
  /\ request' = [request EXCEPT ![s].at =
       IF Cardinality(Remaining(s)) < 2 THEN "dissolve" ELSE "commit"]
  /\ UNCHANGED <<patch, relations, addressed, last>>

\* UPDATE and DELETE: the deletion also sets to NULL what was added in between,
\* so the two are one action.
Dissolve(s) ==
  LET r == request[s]
  IN /\ s \in Begun /\ r.at = "dissolve"
     /\ Droppable(s, r.related)
     /\ request' = [request EXCEPT ![s] =
          [r EXCEPT !.written = [q \in Patches |->
                       IF q \in Remaining(s) THEN [RowOf(s, q) EXCEPT !.related = 0]
                       ELSE r.written[q]],
                    !.dropped = {r.related}, !.at = "commit"]]
     /\ UNCHANGED <<patch, relations, addressed, last>>

\* The request after the item of the list has been looked at.
LookedAt(r) ==
  IF r.item < Len(r.body.related) THEN [r EXCEPT !.at = "look", !.item = @ + 1]
  ELSE [r EXCEPT !.at = IF r.related = 0 THEN "create" ELSE "put", !.item = 1]

\* A listed patch exists, in a project the user maintains, and is in no other
\* relation than the patch; otherwise the answer is 400, 403 or 409.
LookAt(s) ==
  LET r    == request[s]
      q    == r.body.related[r.item]
      seen == RowOf(s, q).related
  IN /\ s \in Begun /\ r.at = "look"
     /\ q \in Patches /\ IsMaintainer(r.user, q)
     /\ seen = 0 \/ r.related \in {0, seen}
     /\ request' = [request EXCEPT ![s] =
          IF seen # 0 /\ r.related = 0
          THEN [r EXCEPT !.related = seen, !.at = "adopt"] ELSE LookedAt(r)]
     /\ UNCHANGED <<patch, relations, addressed, last>>

\* The patch joins the relation of the listed one.
Adopt(s) ==
  LET r == request[s]
  IN /\ s \in Begun /\ r.at = "adopt"
     /\ LockedBy(r.patch) \subseteq {s} /\ Referable(s, r.related)
     /\ request' = [request EXCEPT ![s] =
          [LookedAt(r) EXCEPT !.written = Written(s, r.patch, r.related)]]
     /\ UNCHANGED <<patch, relations, addressed, last>>

\* The patch is the first of a new relation, whose id comes from a sequence.
Create(s) ==
  LET r  == request[s]
      id == relations.last + 1
  IN /\ s \in Begun /\ r.at = "create"
     /\ LockedBy(r.patch) \subseteq {s}
     /\ id <= MaxRelations
     /\ relations' = [relations EXCEPT !.last = id]
     /\ request' = [request EXCEPT ![s] =
          [r EXCEPT !.written = Written(s, r.patch, id), !.related = id,
                    !.born = {id}, !.at = "put"]]
     /\ UNCHANGED <<patch, addressed, last>>

\* The listed patches follow one by one.
Put(s) ==
  LET r == request[s]
      q == r.body.related[r.item]
  IN /\ s \in Begun /\ r.at = "put"
     /\ LockedBy(q) \subseteq {s} /\ Referable(s, r.related)
     /\ request' = [request EXCEPT ![s] =
          [r EXCEPT !.written = Written(s, q, r.related),
                    !.at = IF r.item < Len(r.body.related) THEN "put" ELSE "commit",
                    !.item = @ + 1]]
     /\ UNCHANGED <<patch, relations, addressed, last>>

CommitUpdate(s) ==
  LET r == request[s]
  IN /\ s \in Begun /\ r.at = "commit"
     /\ patch' = [q \in Patches |-> RowOf(s, q)]
     /\ relations' = [relations EXCEPT !.ids = (@ \cup r.born) \ r.dropped]
     /\ last' = [actor |-> r.user, events |-> Published(r, TRUE), mails |-> {}]
     /\ request' = [request EXCEPT ![s] = Null]
     /\ UNCHANGED addressed

\* A statement is refused or fails, as the victim of a deadlock or by a foreign
\* key, and the transaction with it.
AbortUpdate(s) ==
  /\ s \in Begun
  /\ last' = [actor |-> request[s].user, events |-> Published(request[s], FALSE),
              mails |-> {}]
  /\ request' = [request EXCEPT ![s] = Null]
  /\ UNCHANGED <<patch, relations, addressed>>

UpdatePatch(s) ==
  \/ WritePatch(s) \/ Leave(s) \/ CountRemaining(s) \/ Dissolve(s)
  \/ LookAt(s) \/ Adopt(s) \/ Create(s) \/ Put(s)
  \/ CommitUpdate(s) \/ AbortUpdate(s)

Silent(u) == [actor |-> u, events |-> {}, mails |-> {}]

\* For maintainers only.
UpdatePatchComment(u, c, value) ==
  /\ CommentOn[c] \in Patches
  /\ IsMaintainer(u, CommentOn[c])
  /\ addressed' = [addressed EXCEPT ![c] = value]
  /\ last' = Silent(u)
  /\ UNCHANGED <<patch, relations, request>>

UpdateCoverComment(u, c, value) ==
  /\ CommentOn[c] \in Covers
  /\ IsMaintainer(u, CommentOn[c])
  /\ addressed' = [addressed EXCEPT ![c] = value]
  /\ last' = Silent(u)
  /\ UNCHANGED <<patch, relations, request>>

-----------------------------------------------------------------------------
(* The web forms                                                           *)

\* The form of one patch always writes the delegate and the archived flag.
PatchUpdate(u, p, form) ==
  /\ CanEditPatch(u, p) /\ LockedBy(p) = {}
  /\ patch' = [patch EXCEPT ![p] =
                 [Updated(@, form) EXCEPT !.delegate = form.delegate]]
  /\ last' = [Silent(u) EXCEPT !.mails =
                IF form.state \notin {Null, patch[p].state}
                THEN Notification(p, u, form.state) ELSE {}]
  /\ UNCHANGED <<relations, addressed, request>>

\* Mutant: the restriction to the user's own patches is lost.
MutantTicked(u, ids, project) == {p \in ids : ProjectOf[p] = project}

\* The ticked patches that one UPDATE changes: those of the list's project, and
\* of these only the user's own unless the user is a maintainer.
Ticked(u, ids, project) ==
  {p \in ids : /\ ProjectOf[p] = project
               /\ project \in Maintained[u] \/ SubmittedBy[p] = u}

\* Action "update" of the list: fields that were not chosen keep their values.
PatchListUpdate(u, ids, project, form) ==
  /\ \A p \in Ticked(u, ids, project) : LockedBy(p) = {}
  /\ patch' = [p \in Patches |->
                 IF p \notin Ticked(u, ids, project) THEN patch[p]
                 ELSE IF form.clear
                 THEN [Updated(patch[p], form) EXCEPT !.delegate = Null]
                 ELSE Updated(patch[p], form)]
  /\ last' = Silent(u)
  /\ UNCHANGED <<relations, addressed, request>>

CommentAddressed(u, c, value) ==
  /\ CommentOn[c] \in Patches
  /\ CanEditPatch(u, CommentOn[c])
  /\ addressed' = [addressed EXCEPT ![c] = value]
  /\ last' = Silent(u)
  /\ UNCHANGED <<patch, relations, request>>

-----------------------------------------------------------------------------
TriageInit ==
  /\ patch = [p \in Patches |-> [state |-> InitialState, delegate |-> Null,
                                 archived |-> FALSE, related |-> 0]]
  /\ relations = [ids |-> {}, last |-> 0]
  /\ addressed = [c \in Comments |-> Null]
  /\ request = [s \in Sessions |-> Null]
  /\ last = [actor |-> Null, events |-> {}, mails |-> {}]

Api ==
  \/ \E s \in Sessions, u \in Users, p \in Patches, body \in Bodies :
       Load(s, u, p, body)
  \/ \E s \in Sessions : UpdatePatch(s)
  \/ \E u \in Users, c \in Comments, value \in BOOLEAN :
       UpdatePatchComment(u, c, value) \/ UpdateCoverComment(u, c, value)

Web ==
  \/ \E u \in Users, p \in Patches, form \in Forms : PatchUpdate(u, p, form)
  \/ \E u \in Users, ids \in SUBSET Patches, project \in Range(ProjectOf),
        form \in ListForms : PatchListUpdate(u, ids, project, form)
  \/ \E u \in Users, c \in Comments, value \in BOOLEAN : CommentAddressed(u, c, value)

TriageNext == Api \/ Web

TriageSpec == TriageInit /\ [][TriageNext]_triageVars

-----------------------------------------------------------------------------
(* Properties                                                              *)

Rows == [state: States, delegate: Users \cup {Null}, archived: BOOLEAN, related: Nat]

Statements == {"write", "leave", "count", "dissolve", "look", "adopt", "create",
               "put", "commit"}

Requests ==
  [user: Users, patch: Patches, body: Bodies, row: Rows, related: Nat,
   written: [Patches -> Rows \cup {Null}], born: SUBSET Nat, dropped: SUBSET Nat,
   at: Statements, item: Nat \ {0}, alone: BOOLEAN]

\* The rows have their types, and a patch is in a relation that exists.
TriageTypeOK ==
  /\ patch \in [Patches -> Rows]
  /\ \A p \in Patches : patch[p].related \in {0} \cup relations.ids
  /\ relations \in [ids: SUBSET (1..MaxRelations), last: 0..MaxRelations]
  /\ \A id \in relations.ids : id <= relations.last
  /\ addressed \in [Comments -> BOOLEAN \cup {Null}]
  /\ request \in [Sessions -> Requests \cup {Null}]

\* Whoever made the last request had the right to every change it made: state,
\* delegate and archived flag of a patch follow its project's maintainers or
\* its own submitter, one at a time, in bulk, or through overlapping updates,
\* and so does the flag of a comment.
HadTheRight ==
  /\ \A p \in Patches :
       [patch[p] EXCEPT !.related = 0] # [patch'[p] EXCEPT !.related = 0]
         => IsMaintainer(last'.actor, p) \/ SubmittedBy[p] = last'.actor
  /\ \A c \in Comments : addressed[c] # addressed'[c]
       => \/ IsMaintainer(last'.actor, CommentOn[c])
          \/ CommentOn[c] \in Patches /\ SubmittedBy[CommentOn[c]] = last'.actor

RightsRespected == [][HadTheRight]_triageVars

\* An event only tells of a change that was committed: nothing is published
\* for an update that was rolled back because its related patches were refused.
EventsTellTheTruth ==
  \A e \in last.events :
    LET row == patch[e.patch]
    IN e.current = IF e.category = "patch-delegated" THEN row.delegate
                   ELSE row.state

\* What a request has listed is in one relation when it commits, and the
\* relation exists, whatever other updates create, join and dissolve in the
\* meantime; so is its own patch, if it was in none when it was loaded.
RelatedTogether ==
  [][\A s \in Begun : LET r == request[s] IN
       CommitUpdate(s) /\ r.body.related \notin {Null, <<>>} =>
         \E id \in relations'.ids :
           /\ \A q \in Range(r.body.related) : patch'[q].related = id
           /\ r.row.related = 0 => patch'[r.patch].related = id]_triageVars

Members(rel, id) == {q \in Patches : rel[q] = id}

\* The update that this step ends, if any, was the only one of relations.
Lone == \A s \in Begun : request'[s] = Null => request[s].alone

\* An update that no other update of relations has overlapped with never takes
\* a patch from one relation to another, and a relation that it makes shrink
\* to a single patch is dissolved.
KeptRelations ==
  Lone =>
    /\ \A p \in Patches : Rel[p] # 0 => Rel[p]' \in {Rel[p], 0}
    /\ \A id \in relations.ids :
         Cardinality(Members(Rel, id)) > 1 /\ Cardinality(Members(Rel, id)') < 2
           => Members(Rel, id)' = {} /\ id \notin relations'.ids

LoneUpdatesKeepRelations == [][KeptRelations]_triageVars

-----------------------------------------------------------------------------
(* What the documentation says, and the code does not do                   *)

\* patch-state-changed is "Sent when a patch's state is changed".
ChangesAnnounced ==
  \A p \in Patches :
    patch[p].state # patch'[p].state
      => \E e \in last'.events : e.patch = p /\ e.current = patch'[p].state

StateChangesAreAnnounced == [][ChangesAnnounced]_triageVars
=============================================================================
