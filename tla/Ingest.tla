------------------------------- MODULE Ingest -------------------------------
(***************************************************************************)
(* What patchwork stores for the mails it receives (pkg/mail over the      *)
(* tables of pkg/db), when the mails are processed one at a time: every    *)
(* action is the whole database transaction of ParseMail for one mail.     *)
(* Mails reach the parser in any order, any number of times, or never.     *)
(*                                                                         *)
(* A transaction that ends in an error or finds nothing to do is rolled    *)
(* back and changes nothing: unreadable mail, a mail for no known project, *)
(* a mail without content, a duplicate, a reply to an unknown thread.      *)
(* Those are stuttering steps here.                                        *)
(***************************************************************************)
EXTENDS Integers, FiniteSets, Sequences, Functions

CONSTANTS
  Mails,          \* the mails that may be delivered, as records of type Mail
  MsgIds,         \* Message-Id values
  Projects,       \* the projects mails resolve to
  People,         \* authors, one per mail address
  Names,          \* cleaned subjects, prefixes included, as strings
  Title,          \* a name with its prefixes stripped
  Similarity,     \* the similarity of two titles, in percent
  Delay,          \* the 20 minutes of seriesDelayInterval, in date units
  AutoSupersede,  \* the projects that supersede the previous series
  Null            \* the NULL of a nullable column

(***************************************************************************)
(* A parsed mail.  code says whether it carries a diff or a pull request,  *)
(* reply whether its subject starts with "Re:"; number, total and version  *)
(* are read from the subject's prefixes (0/0 and 1 without any); refs is   *)
(* In-Reply-To followed by References; dependsOn holds its "Depends-on:"   *)
(* message ids.                                                            *)
(***************************************************************************)
Mail ==
  [msgid: MsgIds, project: Projects, author: People, date: Nat,
   reply: BOOLEAN, code: BOOLEAN, number: Nat, total: Nat, version: Nat,
   name: Names, refs: Seq(MsgIds), dependsOn: SUBSET MsgIds]

ASSUME MailsAssumption == Mails \subseteq Mail
ASSUME DelayAssumption == Delay \in Nat
ASSUME TitleAssumption == Title \in [Names -> Names]
ASSUME NullAssumption  == Null \notin Mails /\ Null \notin Names

VARIABLES
  series,         \* table series: the row of id s is series[s]
  patches,        \* table patch: the mails stored as patches
  inSeries,       \* column patch.series_id, 0 for NULL
  superseded,     \* the patches whose state is "superseded"
  covers,         \* table cover: the mails stored as cover letters
  reference,      \* table series_reference: the series of a message id, or 0
  patchComments,  \* table patch_comment
  coverComments,  \* table cover_comment
  tagged,         \* table patch_tag: the comments a patch's tags are counted in
  events          \* events of the committed transactions

vars == <<series, patches, inSeries, superseded, covers, reference,
          patchComments, coverComments, tagged, events>>

-----------------------------------------------------------------------------
(* Rows                                                                    *)

SeriesIds == DOMAIN series

Series ==
  [project: Projects, submitter: People, version: Nat, total: Nat, date: Nat,
   name: Names \cup {Null}, cover: Mails \cup {Null}, previous: Nat,
   dependsOn: SUBSET Nat]

Categories ==
  {"patch-created", "patch-completed", "series-created", "series-completed",
   "cover-created", "patch-comment-created", "cover-comment-created"}

\* trigger is the mail whose transaction emitted the event: two emissions of
\* the same event are two elements of the set events.
Event ==
  [category: Categories, project: Projects, row: Mails \cup {Null},
   series: Nat, trigger: Mails]

-----------------------------------------------------------------------------
(* Dispatch                                                                *)

\* A mail that is no reply and has no series marker is a series of its own.
Unmarked(m) == ~m.reply /\ m.number = 0 /\ m.total = 0
Number(m)   == IF Unmarked(m) THEN 1 ELSE m.number
Total(m)    == IF Unmarked(m) THEN 1 ELSE m.total

IsPatch(m)   == ~m.reply /\ m.code
IsCover(m)   == ~m.reply /\ ~m.code /\ Number(m) = 0 /\ Total(m) > 0
IsComment(m) == ~IsPatch(m) /\ ~IsCover(m)

\* The unique key (msgid, project_id) of the tables patch and cover.
Stored(rows, m) == \E q \in rows : q.msgid = m.msgid /\ q.project = m.project

-----------------------------------------------------------------------------
(* Finding the series of a mail                                            *)

PatchesIn(s) == {q \in patches : inSeries[q] = s}
SlotFree(s, n) == \A q \in PatchesIn(s) : Number(q) # n

SameMarkers(s, m) ==
  /\ series[s].project = m.project
  /\ series[s].version = m.version
  /\ series[s].total = Total(m)

\* Mutant: the window ends at the mail's own date.
MutantInWindow(s, m) ==
  series[s].date >= m.date - Delay /\ series[s].date <= m.date

InWindow(s, m) ==
  /\ series[s].date >= m.date - Delay
  /\ series[s].date <= m.date + Delay

\* Mutant: the slot check is lost.
MutantHasRoom(s, n) == TRUE

\* slotCheck: number 0 asks for no slot.
HasRoom(s, n) == n = 0 \/ SlotFree(s, n)

Referenced(refs) == {reference[k] : k \in Projects \X refs}

\* The first of a set of positions, as a singleton.
Earliest(S) == {i \in S : \A j \in S : i <= j}

Newest(S) == {s \in S : \A t \in S : series[t].date <= series[s].date}

\* Mutant: a reference leads to its series whatever the markers.
MutantFindSeries(m, refs, n) ==
  LET byRefs    == SeriesIds \cap Referenced(refs)
      byMarkers == {s \in SeriesIds : /\ SameMarkers(s, m)
                                      /\ InWindow(s, m) /\ HasRoom(s, n)
                                      /\ series[s].submitter = m.author}
  IN IF byRefs # {} THEN Newest(byRefs) ELSE Newest(byMarkers)

\* The rows the query may return: series that m's references lead to, before
\* series with m's markers; the most recent ones, in no order among equals.
FindSeries(m, refs, n) ==
  LET fitting   == {s \in SeriesIds :
                      SameMarkers(s, m) /\ InWindow(s, m) /\ HasRoom(s, n)}
      byRefs    == fitting \cap Referenced(refs)
      byOwnId   == byRefs \cap Referenced(refs \cap {m.msgid})
      byMarkers == {s \in fitting : series[s].submitter = m.author}
  IN IF byOwnId # {} THEN Newest(byOwnId)
     ELSE IF byRefs # {} THEN Newest(byRefs)
     ELSE Newest(byMarkers)

NewSeries(m) ==
  [project |-> m.project, submitter |-> m.author, version |-> m.version,
   total |-> Total(m), date |-> m.date, name |-> Null, cover |-> Null,
   previous |-> 0, dependsOn |-> {}]

\* Mutant: an id is skipped.
MutantSeriesFor(m, refs, n) ==
  LET found == FindSeries(m, refs, n)
  IN IF found = {} THEN {Len(series) + 2} ELSE found

\* The series a mail goes to: one that was found, else the next new id.
SeriesFor(m, refs, n) ==
  LET found == FindSeries(m, refs, n)
  IN IF found = {} THEN {Len(series) + 1} ELSE found

RowOf(s, m) == IF s \in SeriesIds THEN series[s] ELSE NewSeries(m)

WriteRow(s, row) ==
  series' = IF s \in SeriesIds THEN [series EXCEPT ![s] = row]
                               ELSE Append(series, row)

\* Mutant: the references are saved for every project.
MutantSaveReferences(p, s, ids) ==
  reference' = [k \in DOMAIN reference |->
                  IF k[2] \in ids /\ reference[k] = 0 THEN s ELSE reference[k]]

\* INSERT ... ON CONFLICT (project_id, msgid) DO NOTHING, for each id.
SaveReferences(p, s, ids) ==
  reference' = [k \in DOMAIN reference |->
                  IF k[1] = p /\ k[2] \in ids /\ reference[k] = 0
                  THEN s ELSE reference[k]]

-----------------------------------------------------------------------------
(* Dependencies and previous versions                                      *)

\* The series a "Depends-on: <d>" names: that of a patch with the id d, in any
\* project, else the one that has the cover letter with that id, if one still
\* has it; 0 for none.
SeriesOfMsgId(d) ==
  LET byPatch == {inSeries[q] : q \in {p \in patches : p.msgid = d}} \ {0}
      has(s, c) == IF s = 0 THEN \A t \in SeriesIds : series[t].cover # c
                            ELSE series[s].cover = c
      byCover == {s \in 0..Len(series) :
                    \E c \in covers : c.msgid = d /\ has(s, c)}
  IN IF byPatch # {} THEN byPatch
     ELSE IF byCover # {} THEN byCover
     ELSE {0}

\* What m's dependencies may add to series s: each names at most one series,
\* which counts if it is another series of the same project.
Dependencies(m, s) ==
  {{pick[d] : d \in m.dependsOn} \cap
      {t \in SeriesIds \ {s} : series[t].project = m.project} :
    pick \in {f \in [m.dependsOn -> 0..Len(series)] :
               \A d \in m.dependsOn : f[d] \in SeriesOfMsgId(d)}}

\* Mutant: any other version will do.
MutantIsPrevious(t, row) == series[t].submitter = row.submitter

\* The version before row's, by the same submitter.
IsPrevious(t, row) ==
  /\ series[t].submitter = row.submitter
  /\ series[t].version = row.version - 1

Score(t, row) == Similarity[<<Title[row.name], Title[series[t].name]>>]

Similar(t, row) ==
  /\ series[t].project = row.project
  /\ series[t].name # Null
  /\ Title[series[t].name] # ""
  /\ Score(t, row) >= 80

\* linkPreviousSeries: the first reference that leads to the previous version,
\* else the series of that version with the most similar name; 0 if none.
PreviousOf(m, s, row) ==
  LET byRef  == {i \in 1..Len(m.refs) :
                   LET t == reference[<<m.project, m.refs[i]>>]
                   IN t \in SeriesIds \ {s} /\ IsPrevious(t, row)}
      byName == IF row.name = Null \/ Title[row.name] = "" THEN {}
                ELSE {t \in SeriesIds : IsPrevious(t, row) /\ Similar(t, row)}
      best   == {t \in byName : \A u \in byName :
                   \/ Score(u, row) < Score(t, row)
                   \/ /\ Score(u, row) = Score(t, row)
                      /\ series[u].date <= series[t].date}
  IN IF row.version <= 1 THEN {0}
     ELSE IF byRef # {}
          THEN {reference[<<m.project, m.refs[i]>>] : i \in Earliest(byRef)}
     ELSE IF best # {} THEN best
     ELSE {0}

Linked(row, deps, prev) ==
  [row EXCEPT !.dependsOn = @ \cup deps,
              !.previous = IF prev = 0 THEN @ ELSE prev]

\* Mutant: the new series is superseded instead of the previous one.
MutantSupersede(m, prev, placed) ==
  superseded' =
    IF prev # 0 /\ m.project \in AutoSupersede
    THEN superseded \cup {q \in Mails : placed[q] = placed[m]}
    ELSE superseded

\* markAsSuperseded, in the projects that ask for it.
Supersede(m, prev, placed) ==
  superseded' =
    IF prev # 0 /\ m.project \in AutoSupersede
    THEN superseded \cup {q \in Mails : placed[q] = prev}
    ELSE superseded

-----------------------------------------------------------------------------
(* Events                                                                  *)

EventOf(category, row, s, m) ==
  [category |-> category, project |-> m.project, row |-> row, series |-> s,
   trigger |-> m]

\* Mutant: the successors that waited are forgotten.
MutantCompletes(m, n, members) ==
  IF Cardinality({q \in members : Number(q) < n}) # n - 1 THEN {} ELSE {m}

\* The patches of members that m, numbered n, completes: itself and the run of
\* successors that waited for it, if every predecessor has arrived.
Completes(m, n, members) ==
  IF Cardinality({q \in members : Number(q) < n}) # n - 1 THEN {}
  ELSE {m} \cup {q \in members :
                   /\ Number(q) > n
                   /\ \A k \in (n + 1)..Number(q) :
                        \E r \in members : Number(r) = k}

PatchCompletedEvents(m, s, members) ==
  IF Number(m) = 0 THEN {}
  ELSE {EventOf("patch-completed", q, s, m) : q \in Completes(m, Number(m), members)}

\* Mutant: one patch too many is waited for.
MutantSeriesCompletedEvents(m, s, row, members) ==
  IF row.total > 0 /\ Cardinality(members) > row.total
  THEN {EventOf("series-completed", Null, s, m)} ELSE {}

SeriesCompletedEvents(m, s, row, members) ==
  IF row.total > 0 /\ Cardinality(members) >= row.total
  THEN {EventOf("series-completed", Null, s, m)} ELSE {}

SeriesCreatedEvents(m, s) ==
  IF s \in SeriesIds THEN {} ELSE {EventOf("series-created", Null, s, m)}

-----------------------------------------------------------------------------
(* One action per kind of mail                                             *)

\* assignSeries after a patch found or created series s, and what follows it.
\* If another patch has the number already the patch stays without a series,
\* and without what follows the assignment.
AssignSeries(m, s) ==
  LET n       == Number(m)
      taken   == n > 0 /\ ~SlotFree(s, n)
      placed  == [inSeries EXCEPT ![m] = IF n > 0 /\ ~taken THEN s ELSE 0]
      members == {q \in patches \cup {m} : placed[q] = s}
      old     == RowOf(s, m)
      row     == IF old.name = Null /\ n = 1 /\ ~taken
                 THEN [old EXCEPT !.name = m.name] ELSE old
  IN /\ inSeries' = placed
     /\ SaveReferences(m.project, s, {m.msgid} \cup Range(m.refs))
     /\ \E deps \in IF taken THEN {{}} ELSE Dependencies(m, s),
           prev \in IF taken THEN {0} ELSE PreviousOf(m, s, row) :
          /\ WriteRow(s, Linked(row, deps, prev))
          /\ Supersede(m, prev, placed)
     /\ events' = events \cup SeriesCreatedEvents(m, s)
                    \cup {EventOf("patch-created", m, 0, m)}
                    \cup IF taken THEN {}
                         ELSE PatchCompletedEvents(m, s, members)
                                \cup SeriesCompletedEvents(m, s, row, members)

HandlePatch(m) ==
  /\ IsPatch(m)
  /\ ~Stored(patches, m)
  /\ patches' = patches \cup {m}
  /\ \E s \in SeriesFor(m, Range(m.refs), Number(m)) : AssignSeries(m, s)
  /\ UNCHANGED <<covers, patchComments, coverComments, tagged>>

\* The cover's title names the series that has no name, or the first patch's.
CoverNames(s, row) ==
  \/ row.name = Null
  \/ \E q \in PatchesIn(s) : Number(q) = 1 /\ q.name = row.name

\* The previous version is looked for under the name the row had when it was
\* read; only a series created here records the cover's message id.
HandleCoverLetter(m) ==
  /\ IsCover(m)
  /\ ~Stored(covers, m)
  /\ covers' = covers \cup {m}
  /\ \E s \in SeriesFor(m, {m.msgid}, 0) :
       LET row == RowOf(s, m)
       IN /\ IF s \in SeriesIds THEN UNCHANGED reference
             ELSE SaveReferences(m.project, s, {m.msgid})
          /\ \E deps \in Dependencies(m, s), prev \in PreviousOf(m, s, row) :
               /\ WriteRow(s, [Linked(row, deps, prev) EXCEPT
                    !.cover = m,
                    !.name = IF CoverNames(s, row) THEN Title[m.name] ELSE @])
               /\ Supersede(m, prev, inSeries)
          /\ events' = events \cup SeriesCreatedEvents(m, s)
                         \cup {EventOf("cover-created", m, 0, m)}
  /\ UNCHANGED <<patches, inSeries, patchComments, coverComments, tagged>>

\* What a reference leads to among the stored rows: the row of m's project with
\* that message id, else a row one of whose comments has it, in any project.
Target(rows, comments, m, ref) ==
  LET direct == {q \in rows : q.project = m.project /\ q.msgid = ref}
  IN IF direct # {} THEN direct
     ELSE {c.on : c \in {d \in comments : d.comment.msgid = ref}}

\* The target of the first of m's references that leads to one.
CommentTarget(rows, comments, m) ==
  LET hits == {i \in 1..Len(m.refs) : Target(rows, comments, m, m.refs[i]) # {}}
  IN UNION {Target(rows, comments, m, m.refs[i]) : i \in Earliest(hits)}

Commented(comments, m, row) ==
  \E c \in comments : c.on = row /\ c.comment.msgid = m.msgid

CommentsOn(p) == {c.comment : c \in {d \in patchComments : d.on = p}}

\* Mutant: the tags are counted before the comment is stored.
MutantCommentOnPatch(m) ==
  /\ IsComment(m)
  /\ \E p \in CommentTarget(patches, patchComments, m) :
       /\ ~Commented(patchComments, m, p)
       /\ patchComments' = patchComments \cup {[comment |-> m, on |-> p]}
       /\ tagged' = [tagged EXCEPT ![p] = CommentsOn(p)]
       /\ events' = events \cup {EventOf("patch-comment-created", p, 0, m)}
  /\ UNCHANGED <<series, patches, inSeries, superseded, covers, reference,
                 coverComments>>

CommentOnPatch(m) ==
  /\ IsComment(m)
  /\ \E p \in CommentTarget(patches, patchComments, m) :
       /\ ~Commented(patchComments, m, p)
       /\ patchComments' = patchComments \cup {[comment |-> m, on |-> p]}
       /\ tagged' = [tagged EXCEPT ![p] = CommentsOn(p)']
       /\ events' = events \cup {EventOf("patch-comment-created", p, 0, m)}
  /\ UNCHANGED <<series, patches, inSeries, superseded, covers, reference,
                 coverComments>>

CommentOnCover(m) ==
  /\ IsComment(m)
  /\ CommentTarget(patches, patchComments, m) = {}
  /\ \E c \in CommentTarget(covers, coverComments, m) :
       /\ ~Commented(coverComments, m, c)
       /\ coverComments' = coverComments \cup {[comment |-> m, on |-> c]}
       /\ events' = events \cup {EventOf("cover-comment-created", c, 0, m)}
  /\ UNCHANGED <<series, patches, inSeries, superseded, covers, reference,
                 patchComments, tagged>>

-----------------------------------------------------------------------------
Init ==
  /\ series = <<>>
  /\ patches = {}
  /\ inSeries = [m \in Mails |-> 0]
  /\ superseded = {}
  /\ covers = {}
  /\ reference = [k \in Projects \X MsgIds |-> 0]
  /\ patchComments = {}
  /\ coverComments = {}
  /\ tagged = [m \in Mails |-> {}]
  /\ events = {}

ParseMail(m) ==
  \/ HandlePatch(m)
  \/ HandleCoverLetter(m)
  \/ CommentOnPatch(m)
  \/ CommentOnCover(m)

Next == \E m \in Mails : ParseMail(m)

Spec == Init /\ [][Next]_vars

-----------------------------------------------------------------------------
(* Properties                                                              *)

\* Every table and every event log entry has the rows the schema allows.
TypeOK ==
  /\ series \in Seq(Series)
  /\ patches \subseteq Mails
  /\ inSeries \in [Mails -> 0..Len(series)]
  /\ superseded \subseteq Mails
  /\ covers \subseteq Mails
  /\ reference \in [Projects \X MsgIds -> 0..Len(series)]
  /\ patchComments \subseteq [comment: Mails, on: Mails]
  /\ coverComments \subseteq [comment: Mails, on: Mails]
  /\ tagged \in [Mails -> SUBSET Mails]
  /\ events \subseteq Event

\* Every patch numbered in a series gets a place in one, and no two patches
\* share a place: the search for a series never returns one whose slot is taken
\* (assignSeries would log the failed update and keep the patch without series).
EveryNumberedPatchHasItsSlot ==
  /\ \A p \in patches : Number(p) > 0 => inSeries[p] # 0
  /\ \A p, q \in patches :
       inSeries[p] # 0 /\ inSeries[p] = inSeries[q] /\ Number(p) = Number(q)
         => p = q

\* A series groups one mailing: its patches and its cover letter carry its
\* project, version and total, whichever way the series was found.
SeriesIsHomogeneous ==
  /\ \A p \in patches : inSeries[p] # 0 => SameMarkers(inSeries[p], p)
  /\ \A s \in SeriesIds :
       series[s].cover # Null => SameMarkers(s, series[s].cover)

\* A series reference leads to a series of the project it is filed under.
ReferencesStayInProject ==
  \A k \in Projects \X MsgIds :
    reference[k] # 0 => series[reference[k]].project = k[1]

PredecessorsArrived(p) ==
  \A k \in 1..(Number(p) - 1) :
    \E q \in PatchesIn(inSeries[p]) : Number(q) = k

Emitted(category, row) ==
  {e \in events : e.category = category /\ e.row = row}

\* patch-completed is emitted exactly once for a patch of a series, by the mail
\* that closes the last gap before it, in whatever order the mails arrive.
PatchCompletedExactlyOnce ==
  \A p \in patches : inSeries[p] # 0 =>
    LET E == Emitted("patch-completed", p)
    IN /\ E # {} <=> PredecessorsArrived(p)
       /\ \A e, f \in E : e = f
       /\ \A e \in E : e.series = inSeries[p]

SeriesCompletions(s) ==
  {e \in events : e.category = "series-completed" /\ e.series = s}

\* series-completed has been emitted for the series with all their patches, and
\* for no other: the last patch never misses it, no earlier one anticipates it.
SeriesCompletedWhenAllArrived ==
  \A s \in SeriesIds : series[s].total > 0 =>
    (SeriesCompletions(s) # {}
       <=> Cardinality(PatchesIn(s)) >= series[s].total)

\* The previous series is of the same project and submitter and one version
\* older, so that following previous_series ends at a first version.
PreviousIsPriorVersion ==
  \A s \in SeriesIds : series[s].previous # 0 =>
    LET t == series[s].previous
    IN /\ t \in SeriesIds
       /\ series[t].project = series[s].project
       /\ series[t].submitter = series[s].submitter
       /\ series[t].version = series[s].version - 1

\* Ingestion supersedes a patch only because its submitter has sent the next
\* version of its series to the same project.
SupersededByNextVersion ==
  \A p \in superseded :
    /\ inSeries[p] # 0
    /\ \E s \in SeriesIds :
         /\ series[s].project = series[inSeries[p]].project
         /\ series[s].submitter = series[inSeries[p]].submitter
         /\ series[s].version = series[inSeries[p]].version + 1

\* The mails stored with m's project, version and total.
Mailing(m) ==
  {o \in patches \cup covers :
     o.project = m.project /\ o.version = m.version /\ Total(o) = Total(m)}

Mentions(m) == {m.msgid} \cup Range(m.refs)

\* All mails of M reply to root, or are it, and no mail from outside does.
Thread(root, M) ==
  /\ \A p \in M \cap patches : root \in Range(p.refs)
  /\ \A c \in M \cap covers : c.msgid = root
  /\ \A o \in (patches \cup covers) \ M, m \in M :
       o.project = m.project => root \notin Mentions(o)

\* M may be one mailing: sent within the delay, its patches numbered, with one
\* cover letter at most, by one sender or as a thread of its own.
OneMailing(M) ==
  /\ \A p, q \in M : p.date <= q.date + Delay
  /\ \A p \in M \cap patches : Number(p) > 0
  /\ \A p, q \in M \cap patches : Number(p) = Number(q) => p = q
  /\ \A c, d \in M \cap covers : c = d
  /\ \/ \A p, q \in M : p.author = q.author
     \/ \E root \in MsgIds : Thread(root, M)

\* The patches of a mailing are in one series, and its cover letter is that
\* series' cover letter, in whatever order its mails arrive, between those of
\* other mailings and other versions.
ThreadsStayTogether ==
  \A m \in patches \cup covers : OneMailing(Mailing(m)) =>
    \E s \in SeriesIds :
      /\ \A p \in Mailing(m) \cap patches : inSeries[p] = s
      /\ \A c \in Mailing(m) \cap covers : series[s].cover = c

\* Two mails of one mailing, as their headers tell.
SameThread(p, q) ==
  /\ p.project = q.project
  /\ p.version = q.version
  /\ Total(p) = Total(q)
  /\ ({p.msgid} \cup Range(p.refs)) \cap ({q.msgid} \cup Range(q.refs)) # {}

\* Two patches of a thread are in the same series, and so is its cover letter,
\* in whatever order they arrive (for threads whose markers are their own).
OneSeriesPerThread ==
  /\ \A p, q \in patches : SameThread(p, q) => inSeries[p] = inSeries[q]
  /\ \A p \in patches, c \in covers :
       SameThread(p, c) => series[inSeries[p]].cover = c

\* The tag counts of a patch are those of all its comments.
TagsCountEveryComment ==
  \A p \in patches : tagged[p] = CommentsOn(p)

-----------------------------------------------------------------------------
(* What the documentation says, and the code does not do                   *)

\* An event's project is "the project this event belongs to": that of the row
\* it is about.
EventsBelongToTheirProject ==
  \A e \in events : e.row # Null => e.row.project = e.project
=============================================================================
