---------------------------- MODULE IngestProofs ----------------------------
(***************************************************************************)
(* Proofs about Ingest, for any mails, projects and people: types, series, *)
(* mailings, the events of completed patches and series, tags.             *)
(***************************************************************************)
EXTENDS Ingest, FiniteSetTheorems, SequenceTheorems, TLAPS

(***************************************************************************)
(* The series a mail goes to.                                              *)
(***************************************************************************)

\* A series that is found fits the mail; a new one gets the next id.
LEMMA SeriesForFits ==
  ASSUME NEW m, NEW refs, NEW n, NEW s \in SeriesFor(m, refs, n)
  PROVE  \/ /\ s \in SeriesIds
            /\ SameMarkers(s, m)
            /\ HasRoom(s, n)
         \/ s = Len(series) + 1
<1> DEFINE found == FindSeries(m, refs, n)
<1>1. \A t \in found : t \in SeriesIds /\ SameMarkers(t, m) /\ HasRoom(t, n)
  BY DEF FindSeries, Newest
<1>2. CASE found = {}
  BY <1>2 DEF SeriesFor
<1>3. CASE found # {}
  BY <1>1, <1>3 DEF SeriesFor
<1> QED BY <1>2, <1>3

\* The row a mail's series starts from is a series row with the mail's markers.
LEMMA RowOfType ==
  ASSUME TypeOK, NEW m \in Mails, NEW s
  PROVE  RowOf(s, m) \in Series
<1>1. m \in Mail
  BY MailsAssumption
<1>2. Total(m) \in Nat
  BY <1>1 DEF Mail, Total, Unmarked
<1>3. NewSeries(m) \in Series
  BY <1>1, <1>2 DEF Mail, NewSeries, Series
<1> QED BY <1>3, ElementOfSeq DEF RowOf, SeriesIds, TypeOK

\* Dependencies are ids of series.
LEMMA DependenciesType ==
  ASSUME TypeOK, NEW m, NEW s, NEW deps \in Dependencies(m, s)
  PROVE  deps \subseteq SeriesIds
  BY DEF Dependencies

\* The previous series is a series, or none.
LEMMA PreviousOfType ==
  ASSUME TypeOK, NEW m \in Mails, NEW s, NEW row, NEW prev \in PreviousOf(m, s, row)
  PROVE  prev \in SeriesIds \cup {0}
  BY DEF PreviousOf, Earliest

\* Linking keeps the type of a row, and its markers.
LEMMA LinkedType ==
  ASSUME NEW row \in Series, NEW deps \in SUBSET Nat, NEW prev \in Nat
  PROVE  /\ Linked(row, deps, prev) \in Series
         /\ Linked(row, deps, prev).project = row.project
         /\ Linked(row, deps, prev).submitter = row.submitter
         /\ Linked(row, deps, prev).version = row.version
         /\ Linked(row, deps, prev).total = row.total
         /\ Linked(row, deps, prev).date = row.date
         /\ Linked(row, deps, prev).cover = row.cover
         /\ Linked(row, deps, prev).previous = IF prev = 0 THEN row.previous ELSE prev
  BY DEF Linked, Series

\* Writing a row at an existing or the next id gives a table with that row.
LEMMA WriteRowType ==
  ASSUME TypeOK, NEW s \in 1..(Len(series) + 1), NEW row \in Series,
         WriteRow(s, row)
  PROVE  /\ series' \in Seq(Series)
         /\ s \in SeriesIds'
         /\ Len(series') >= Len(series)
         /\ SeriesIds' = SeriesIds \cup {s}
         /\ series'[s] = row
         /\ \A t \in SeriesIds : t # s => series'[t] = series[t]
<1>1. series \in Seq(Series) /\ Len(series) \in Nat /\ SeriesIds = 1..Len(series)
  BY LenProperties DEF TypeOK, SeriesIds
<1>2. CASE s \in SeriesIds
  <2>1. series' = [series EXCEPT ![s] = row]
    BY <1>2 DEF WriteRow
  <2>2. series' \in Seq(Series) /\ Len(series') = Len(series) /\ DOMAIN series' = 1..Len(series)
    BY <1>1, <1>2, <2>1, ExceptSeq, LenProperties DEF SeriesIds
  <2> QED BY <1>1, <1>2, <2>1, <2>2 DEF SeriesIds
<1>3. CASE s \notin SeriesIds
  <2>1. s = Len(series) + 1
    BY <1>1, <1>3
  <2>2. series' = Append(series, row)
    BY <1>3 DEF WriteRow
  <2>3. /\ series' \in Seq(Series)
        /\ Len(series') = Len(series) + 1
        /\ \A i \in 1..Len(series) : series'[i] = series[i]
        /\ series'[Len(series) + 1] = row
    BY <1>1, <2>2, AppendProperties
  <2>4. DOMAIN series' = 1..(Len(series) + 1)
    BY <2>3, LenProperties
  <2> QED BY <1>1, <2>1, <2>3, <2>4 DEF SeriesIds
<1> QED BY <1>2, <1>3

(***************************************************************************)
(* What a step does to the tables.  The slot of a patch is always free, so *)
(* that the branch of AssignSeries for a taken number is never entered.    *)
(***************************************************************************)

\* The row old becomes in a patch's transaction, before it is linked.
SameButName(row, old) ==
  /\ row.project = old.project
  /\ row.submitter = old.submitter
  /\ row.version = old.version
  /\ row.total = old.total
  /\ row.date = old.date
  /\ row.cover = old.cover
  /\ row.previous = old.previous

\* The mail m joins series s, new or of the same markers, and links it.
Joins(m, s, row, prev) ==
  /\ s \in SeriesIds => SameMarkers(s, m)
  /\ SameButName(row, RowOf(s, m))
  /\ prev \in PreviousOf(m, s, row) \cap (SeriesIds \cup {0})

\* A new patch takes its place in series s, which gets the linked row.
PatchStep(m, s, row, deps, prev) ==
  /\ s \in SeriesFor(m, Range(m.refs), Number(m))
  /\ Joins(m, s, row, prev)
  /\ m \notin patches
  /\ Number(m) > 0 => SlotFree(s, Number(m))
  /\ WriteRow(s, Linked(row, deps, prev))
  /\ patches' = patches \cup {m}
  /\ inSeries' = [inSeries EXCEPT ![m] = IF Number(m) > 0 THEN s ELSE 0]
  /\ SaveReferences(m.project, s, {m.msgid} \cup Range(m.refs))
  /\ Supersede(m, prev, inSeries')
  /\ events' = events \cup SeriesCreatedEvents(m, s)
                 \cup {EventOf("patch-created", m, 0, m)}
                 \cup PatchCompletedEvents(m, s, PatchesIn(s)')
                 \cup SeriesCompletedEvents(m, s, row, PatchesIn(s)')
  /\ UNCHANGED <<covers, patchComments, coverComments, tagged>>

\* The number and total of a mail are natural numbers, defaults included.
LEMMA NumberType ==
  ASSUME NEW m \in Mails
  PROVE  Number(m) \in Nat /\ Total(m) \in Nat
  BY MailsAssumption DEF Mail, Number, Total, Unmarked

\* HandlePatch is a PatchStep: the found series fits and its slot is free.
LEMMA HandlePatchStep ==
  ASSUME TypeOK, NEW m \in Mails, HandlePatch(m)
  PROVE  \E s \in 1..(Len(series) + 1), row \in Series, deps \in SUBSET Nat,
            prev \in Nat : PatchStep(m, s, row, deps, prev)
<1>1. series \in Seq(Series) /\ Len(series) \in Nat /\ SeriesIds = 1..Len(series)
  BY LenProperties DEF TypeOK, SeriesIds
<1>2. PICK s \in SeriesFor(m, Range(m.refs), Number(m)) : AssignSeries(m, s)
  BY DEF HandlePatch
<1>3. \/ s \in SeriesIds /\ SameMarkers(s, m) /\ HasRoom(s, Number(m))
      \/ s = Len(series) + 1
  BY <1>2, SeriesForFits
<1>4. s \in 1..(Len(series) + 1)
  BY <1>1, <1>3
<1>5. Number(m) > 0 => SlotFree(s, Number(m))
  <2>1. CASE s \in SeriesIds
    BY <1>1, <1>3, <2>1, NumberType DEF HasRoom
  <2>2. CASE s = Len(series) + 1
    <3>1. \A q \in patches : inSeries[q] # s
      BY <1>1, <2>2 DEF TypeOK
    <3> QED BY <3>1 DEF SlotFree, PatchesIn
  <2> QED BY <1>3, <2>1, <2>2
<1> DEFINE row == IF RowOf(s, m).name = Null /\ Number(m) = 1
                  THEN [RowOf(s, m) EXCEPT !.name = m.name] ELSE RowOf(s, m)
           placed == [inSeries EXCEPT ![m] = IF Number(m) > 0 THEN s ELSE 0]
<1>6. row \in Series /\ SameButName(row, RowOf(s, m))
  <2>1. RowOf(s, m) \in Series
    BY RowOfType
  <2>2. m.name \in Names
    BY MailsAssumption DEF Mail
  <2> QED BY <2>1, <2>2 DEF Series, SameButName
<1>7. PICK deps \in Dependencies(m, s), prev \in PreviousOf(m, s, row) :
        /\ inSeries' = placed
        /\ SaveReferences(m.project, s, {m.msgid} \cup Range(m.refs))
        /\ WriteRow(s, Linked(row, deps, prev))
        /\ Supersede(m, prev, placed)
        /\ events' = events \cup SeriesCreatedEvents(m, s)
                       \cup {EventOf("patch-created", m, 0, m)}
                       \cup PatchCompletedEvents(m, s, {q \in patches \cup {m} : placed[q] = s})
                       \cup SeriesCompletedEvents(m, s, row, {q \in patches \cup {m} : placed[q] = s})
  BY <1>2, <1>5 DEF AssignSeries
<1>8. deps \in SUBSET Nat /\ prev \in Nat /\ prev \in SeriesIds \cup {0}
  BY <1>1, DependenciesType, PreviousOfType
<1>9. m \notin patches /\ patches' = patches \cup {m}
  BY DEF HandlePatch, Stored
<1>10. PatchesIn(s)' = {q \in patches \cup {m} : placed[q] = s}
  BY <1>7, <1>9 DEF PatchesIn
<1>11. s \in SeriesIds => SameMarkers(s, m)
  BY <1>1, <1>3
<1>12. PatchStep(m, s, row, deps, prev)
  <2>1. UNCHANGED <<covers, patchComments, coverComments, tagged>>
    BY DEF HandlePatch
  <2> QED BY <1>2, <1>5, <1>6, <1>7, <1>8, <1>9, <1>10, <1>11, <2>1 DEF PatchStep, Joins
<1> QED BY <1>4, <1>6, <1>8, <1>12

\* A new cover letter goes to series s, which gets the linked row and the cover.
CoverStep(m, s, row, deps, prev) ==
  /\ s \in SeriesFor(m, {m.msgid}, 0)
  /\ m \notin covers
  /\ Joins(m, s, RowOf(s, m), prev)
  /\ SameButName(row, [Linked(RowOf(s, m), deps, prev) EXCEPT !.cover = m])
  /\ WriteRow(s, row)
  /\ covers' = covers \cup {m}
  /\ \/ s \in SeriesIds /\ reference' = reference
     \/ SaveReferences(m.project, s, {m.msgid})
  /\ Supersede(m, prev, inSeries)
  /\ events' = events \cup SeriesCreatedEvents(m, s)
                 \cup {EventOf("cover-created", m, 0, m)}
  /\ UNCHANGED <<patches, inSeries, patchComments, coverComments, tagged>>

\* HandleCoverLetter is a CoverStep.
LEMMA HandleCoverLetterStep ==
  ASSUME TypeOK, NEW m \in Mails, HandleCoverLetter(m)
  PROVE  \E s \in 1..(Len(series) + 1), row \in Series, deps \in SUBSET Nat,
            prev \in Nat : CoverStep(m, s, row, deps, prev)
<1>1. series \in Seq(Series) /\ Len(series) \in Nat /\ SeriesIds = 1..Len(series)
  BY LenProperties DEF TypeOK, SeriesIds
<1>2. PICK s \in SeriesFor(m, {m.msgid}, 0) :
        /\ IF s \in SeriesIds THEN UNCHANGED reference
             ELSE SaveReferences(m.project, s, {m.msgid})
        /\ \E deps \in Dependencies(m, s), prev \in PreviousOf(m, s, RowOf(s, m)) :
             /\ WriteRow(s, [Linked(RowOf(s, m), deps, prev) EXCEPT
                  !.cover = m,
                  !.name = IF CoverNames(s, RowOf(s, m)) THEN Title[m.name] ELSE @])
             /\ Supersede(m, prev, inSeries)
        /\ events' = events \cup SeriesCreatedEvents(m, s)
                       \cup {EventOf("cover-created", m, 0, m)}
  BY DEF HandleCoverLetter
<1>3. \/ s \in SeriesIds /\ SameMarkers(s, m)
      \/ s = Len(series) + 1
  BY <1>2, SeriesForFits
<1>4. s \in 1..(Len(series) + 1)
  BY <1>1, <1>3
<1>5. PICK deps \in Dependencies(m, s), prev \in PreviousOf(m, s, RowOf(s, m)) :
        /\ WriteRow(s, [Linked(RowOf(s, m), deps, prev) EXCEPT
             !.cover = m,
             !.name = IF CoverNames(s, RowOf(s, m)) THEN Title[m.name] ELSE @])
        /\ Supersede(m, prev, inSeries)
  BY <1>2
<1>6. deps \in SUBSET Nat /\ prev \in Nat /\ prev \in SeriesIds \cup {0}
  BY <1>1, DependenciesType, PreviousOfType
<1> DEFINE linked == Linked(RowOf(s, m), deps, prev)
           row == [linked EXCEPT
                     !.cover = m,
                     !.name = IF CoverNames(s, RowOf(s, m)) THEN Title[m.name] ELSE @]
<1>7. row \in Series /\ SameButName(row, [linked EXCEPT !.cover = m])
  <2>1. linked \in Series
    BY <1>6, RowOfType, LinkedType
  <2>2. Title[m.name] \in Names
    BY MailsAssumption, TitleAssumption DEF Mail
  <2> HIDE DEF linked
  <2>3. row \in Series
    BY <2>1, <2>2 DEF Series
  <2>4. SameButName(row, [linked EXCEPT !.cover = m])
    BY <2>1 DEF SameButName, Series
  <2> QED BY <2>3, <2>4
<1>8. Joins(m, s, RowOf(s, m), prev)
  BY <1>1, <1>3, <1>5, <1>6 DEF Joins, SameButName
<1>9. CoverStep(m, s, row, deps, prev)
  <2>1. WriteRow(s, row) /\ Supersede(m, prev, inSeries)
    BY <1>5
  <2>2. /\ m \notin covers
        /\ covers' = covers \cup {m}
        /\ UNCHANGED <<patches, inSeries, patchComments, coverComments, tagged>>
    BY DEF HandleCoverLetter, Stored
  <2>3. \/ s \in SeriesIds /\ reference' = reference
        \/ SaveReferences(m.project, s, {m.msgid})
    BY <1>2
  <2> QED BY <1>2, <1>7, <1>8, <2>1, <2>2, <2>3 DEF CoverStep
<1> QED BY <1>4, <1>6, <1>7, <1>9

(***************************************************************************)
(* Type correctness.                                                       *)
(***************************************************************************)

\* What a transaction emits has the type of an event.
LEMMA EventType ==
  ASSUME NEW m \in Mails, NEW category \in Categories,
         NEW row \in Mails \cup {Null}, NEW s \in Nat
  PROVE  EventOf(category, row, s, m) \in Event
<1>1. m.project \in Projects
  BY MailsAssumption DEF Mail
<1> QED BY <1>1 DEF EventOf, Event

\* The events of a patch are events.
LEMMA PatchEventsType ==
  ASSUME NEW m \in Mails, NEW s \in Nat, NEW row, NEW members \in SUBSET Mails
  PROVE  /\ SeriesCreatedEvents(m, s) \subseteq Event
         /\ PatchCompletedEvents(m, s, members) \subseteq Event
         /\ SeriesCompletedEvents(m, s, row, members) \subseteq Event
<1>1. Null \in Mails \cup {Null}
  OBVIOUS
<1>2. SeriesCreatedEvents(m, s) \subseteq Event
  BY <1>1, EventType DEF SeriesCreatedEvents, Categories
<1>3. SeriesCompletedEvents(m, s, row, members) \subseteq Event
  BY <1>1, EventType DEF SeriesCompletedEvents, Categories
<1>4. Completes(m, Number(m), members) \subseteq Mails
  BY DEF Completes
<1>5. PatchCompletedEvents(m, s, members) \subseteq Event
  BY <1>4, EventType DEF PatchCompletedEvents, Categories
<1> QED BY <1>2, <1>3, <1>5

\* Saving references keeps them ids of series, or 0.
LEMMA SaveReferencesType ==
  ASSUME NEW p, NEW ids, NEW k \in Nat, NEW l \in Nat, k <= l, NEW s \in 1..l,
         reference \in [Projects \X MsgIds -> 0..k], SaveReferences(p, s, ids)
  PROVE  reference' \in [Projects \X MsgIds -> 0..l]
  BY DEF SaveReferences

\* The superseded patches are mails.
LEMMA SupersedeType ==
  ASSUME superseded \subseteq Mails, NEW m, NEW prev, NEW placed,
         Supersede(m, prev, placed)
  PROVE  superseded' \subseteq Mails
  BY DEF Supersede

\* A patch transaction keeps the types.
LEMMA PatchStepType ==
  ASSUME TypeOK, NEW m \in Mails, NEW s \in 1..(Len(series) + 1),
         NEW row \in Series, NEW deps \in SUBSET Nat, NEW prev \in Nat,
         PatchStep(m, s, row, deps, prev)
  PROVE  TypeOK'
<1>1. Linked(row, deps, prev) \in Series
  BY LinkedType
<1>2. /\ series' \in Seq(Series)
      /\ Len(series') \in Nat
      /\ Len(series) \in Nat
      /\ Len(series') >= Len(series)
      /\ s \in 1..Len(series')
  BY <1>1, WriteRowType, LenProperties DEF PatchStep, SeriesIds, TypeOK
<1>3. patches' \subseteq Mails
  BY DEF PatchStep, TypeOK
<1>4. inSeries' \in [Mails -> 0..Len(series')]
  BY <1>2 DEF PatchStep, TypeOK
<1>5. superseded' \subseteq Mails
  BY SupersedeType DEF PatchStep, TypeOK
<1>6. reference' \in [Projects \X MsgIds -> 0..Len(series')]
  BY <1>2, SaveReferencesType DEF PatchStep, TypeOK
<1>7. events' \subseteq Event
  <2>1. PatchesIn(s)' \subseteq Mails
    BY <1>3 DEF PatchesIn
  <2>2. EventOf("patch-created", m, 0, m) \in Event
    BY EventType DEF Categories
  <2>3. s \in Nat
    BY <1>2
  <2>4. /\ SeriesCreatedEvents(m, s) \subseteq Event
        /\ PatchCompletedEvents(m, s, PatchesIn(s)') \subseteq Event
        /\ SeriesCompletedEvents(m, s, row, PatchesIn(s)') \subseteq Event
    BY <2>1, <2>3, PatchEventsType
  <2> QED BY <2>2, <2>4 DEF PatchStep, TypeOK
<1>8. UNCHANGED <<covers, patchComments, coverComments, tagged>>
  BY DEF PatchStep
<1> QED BY <1>2, <1>3, <1>4, <1>5, <1>6, <1>7, <1>8 DEF TypeOK

\* A cover letter transaction keeps the types.
LEMMA CoverStepType ==
  ASSUME TypeOK, NEW m \in Mails, NEW s \in 1..(Len(series) + 1),
         NEW row \in Series, NEW deps \in SUBSET Nat, NEW prev \in Nat,
         CoverStep(m, s, row, deps, prev)
  PROVE  TypeOK'
<1>1. /\ series' \in Seq(Series)
      /\ Len(series') \in Nat
      /\ Len(series) \in Nat
      /\ Len(series') >= Len(series)
      /\ s \in 1..Len(series')
  BY WriteRowType, LenProperties DEF CoverStep, SeriesIds, TypeOK
<1>2. inSeries' \in [Mails -> 0..Len(series')]
  BY <1>1 DEF CoverStep, TypeOK
<1>3. superseded' \subseteq Mails
  BY SupersedeType DEF CoverStep, TypeOK
<1>4. reference' \in [Projects \X MsgIds -> 0..Len(series')]
  <2>1. CASE reference' = reference
    BY <1>1, <2>1 DEF TypeOK
  <2>2. CASE SaveReferences(m.project, s, {m.msgid})
    BY <1>1, <2>2, SaveReferencesType DEF TypeOK
  <2> QED BY <2>1, <2>2 DEF CoverStep
<1>5. events' \subseteq Event
  <2>1. EventOf("cover-created", m, 0, m) \in Event
    BY EventType DEF Categories
  <2>2. SeriesCreatedEvents(m, s) \subseteq Event
    <3>1. s \in Nat /\ {} \in SUBSET Mails
      BY <1>1
    <3> QED BY <3>1, PatchEventsType
  <2> QED BY <2>1, <2>2 DEF CoverStep, TypeOK
<1>6. covers' \subseteq Mails
  BY DEF CoverStep, TypeOK
<1>7. UNCHANGED <<patches, patchComments, coverComments, tagged>>
  BY DEF CoverStep
<1> QED BY <1>1, <1>2, <1>3, <1>4, <1>5, <1>6, <1>7 DEF TypeOK

\* A comment is made on a stored row.
LEMMA CommentTargetType ==
  ASSUME NEW rows \in SUBSET Mails,
         NEW comments \in SUBSET [comment: Mails, on: Mails],
         NEW m, NEW row \in CommentTarget(rows, comments, m)
  PROVE  row \in Mails
<1>1. \A ref : Target(rows, comments, m, ref) \subseteq Mails
  BY DEF Target
<1> QED BY <1>1 DEF CommentTarget

\* The transactions of comments keep the types.
LEMMA CommentType ==
  ASSUME TypeOK, NEW m \in Mails, CommentOnPatch(m) \/ CommentOnCover(m)
  PROVE  TypeOK'
<1>1. CASE CommentOnPatch(m)
  <2>1. PICK p \in CommentTarget(patches, patchComments, m) :
          /\ patchComments' = patchComments \cup {[comment |-> m, on |-> p]}
          /\ tagged' = [tagged EXCEPT ![p] = CommentsOn(p)']
          /\ events' = events \cup {EventOf("patch-comment-created", p, 0, m)}
    BY <1>1 DEF CommentOnPatch
  <2>2. p \in Mails
    BY <2>1, CommentTargetType DEF TypeOK
  <2>3. patchComments' \subseteq [comment: Mails, on: Mails]
    BY <2>1, <2>2 DEF TypeOK
  <2>4. CommentsOn(p)' \subseteq Mails
    BY <2>3 DEF CommentsOn
  <2>5. tagged' \in [Mails -> SUBSET Mails]
    BY <2>1, <2>4 DEF TypeOK
  <2>6. events' \subseteq Event
    BY <2>1, <2>2, EventType DEF TypeOK, Categories
  <2> QED BY <1>1, <2>3, <2>5, <2>6 DEF CommentOnPatch, TypeOK
<1>2. CASE CommentOnCover(m)
  <2>1. PICK c \in CommentTarget(covers, coverComments, m) :
          /\ coverComments' = coverComments \cup {[comment |-> m, on |-> c]}
          /\ events' = events \cup {EventOf("cover-comment-created", c, 0, m)}
    BY <1>2 DEF CommentOnCover
  <2>2. c \in Mails
    BY <2>1, CommentTargetType DEF TypeOK
  <2>3. coverComments' \subseteq [comment: Mails, on: Mails]
    BY <2>1, <2>2 DEF TypeOK
  <2>4. events' \subseteq Event
    BY <2>1, <2>2, EventType DEF TypeOK, Categories
  <2> QED BY <1>2, <2>3, <2>4 DEF CommentOnCover, TypeOK
<1> QED BY <1>1, <1>2

\* The tables keep their types in every step.
LEMMA TypeStep ==
  ASSUME TypeOK, [Next]_vars
  PROVE  TypeOK'
<1>1. ASSUME NEW m \in Mails, HandlePatch(m) PROVE TypeOK'
  BY <1>1, HandlePatchStep, PatchStepType
<1>2. ASSUME NEW m \in Mails, HandleCoverLetter(m) PROVE TypeOK'
  BY <1>2, HandleCoverLetterStep, CoverStepType
<1>3. ASSUME NEW m \in Mails, CommentOnPatch(m) PROVE TypeOK'
  BY <1>3, CommentType
<1>4. ASSUME NEW m \in Mails, CommentOnCover(m) PROVE TypeOK'
  BY <1>4, CommentType
<1>5. CASE UNCHANGED vars
  BY <1>5 DEF vars, TypeOK
<1> QED BY <1>1, <1>2, <1>3, <1>4, <1>5 DEF Next, ParseMail

\* The tables start with their types.
LEMMA TypeInit ==
  ASSUME Init
  PROVE  TypeOK
<1>1. series \in Seq(Series) /\ Len(series) = 0
  BY EmptySeq DEF Init
<1> QED BY <1>1 DEF Init, TypeOK

\* Whatever mails arrive, in whatever order, every table keeps its type: series
\* ids are dense, references and places lead to existing series.
THEOREM TypeCorrect == Spec => []TypeOK
<1>1. Init => TypeOK
  BY TypeInit
<1>2. TypeOK /\ [Next]_vars => TypeOK'
  BY TypeStep
<1> QED BY <1>1, <1>2, PTL DEF Spec

(***************************************************************************)
(* Series: markers, references, previous versions, slots.                  *)
(***************************************************************************)

\* Nothing but its patches is ever placed in a series.
OnlyPatchesArePlaced == \A m \in Mails \ patches : inSeries[m] = 0

\* The inductive invariant: each property below needs others of before the step.
SeriesInvariant ==
  /\ TypeOK
  /\ OnlyPatchesArePlaced
  /\ EveryNumberedPatchHasItsSlot
  /\ SeriesIsHomogeneous
  /\ ReferencesStayInProject
  /\ PreviousIsPriorVersion
  /\ SupersededByNextVersion

SameIdentity(row, old) ==
  /\ row.project = old.project
  /\ row.submitter = old.submitter
  /\ row.version = old.version
  /\ row.total = old.total

\* Row old is one version before row.
PriorVersion(old, row) ==
  /\ old.project = row.project
  /\ old.submitter = row.submitter
  /\ old.version = row.version - 1

\* What the transactions of patches and of cover letters do to the series: m
\* goes to series s, whose previous series becomes prev.
Filed(m, s, prev) ==
  /\ SeriesIds' = SeriesIds \cup {s}
  /\ \A t \in SeriesIds : SameIdentity(series'[t], series[t])
  /\ \A t \in SeriesIds \ {s} : series'[t] = series[t]
  /\ SameMarkers(s, m)'
  /\ series'[s].previous = IF prev = 0 THEN RowOf(s, m).previous ELSE prev
  /\ prev # 0 => /\ prev \in SeriesIds
                 /\ PriorVersion(series'[prev], series'[s])

\* A linked series is one version older, by the same submitter, in the project
\* of m: by reference since references stay in their project, by name since the
\* search is limited to the project.
LEMMA PreviousOfIsPrior ==
  ASSUME TypeOK, ReferencesStayInProject, NEW m \in Mails, NEW s,
         NEW row \in Series, row.project = m.project,
         NEW prev \in PreviousOf(m, s, row), prev # 0
  PROVE  prev \in SeriesIds /\ PriorVersion(series[prev], row)
<1> DEFINE byRef == {i \in 1..Len(m.refs) :
                       LET t == reference[<<m.project, m.refs[i]>>]
                       IN t \in SeriesIds \ {s} /\ IsPrevious(t, row)}
           byName == IF row.name = Null \/ Title[row.name] = "" THEN {}
                     ELSE {t \in SeriesIds : IsPrevious(t, row) /\ Similar(t, row)}
<1>1. m.project \in Projects /\ m.refs \in Seq(MsgIds)
  BY MailsAssumption DEF Mail
<1>2. \/ \E i \in byRef : prev = reference[<<m.project, m.refs[i]>>]
      \/ prev \in byName
  BY DEF PreviousOf, Earliest
<1>3. CASE \E i \in byRef : prev = reference[<<m.project, m.refs[i]>>]
  <2>1. PICK i \in byRef : prev = reference[<<m.project, m.refs[i]>>]
    BY <1>3
  <2>2. i \in 1..Len(m.refs) /\ prev \in SeriesIds /\ IsPrevious(prev, row)
    BY <2>1
  <2>3. m.refs[i] \in MsgIds
    BY <1>1, <2>2, ElementOfSeq
  <2>4. <<m.project, m.refs[i]>> \in Projects \X MsgIds
    BY <1>1, <2>3
  <2>5. series[prev].project = m.project
    BY <2>1, <2>4 DEF ReferencesStayInProject
  <2> QED BY <2>2, <2>5 DEF PriorVersion, IsPrevious
<1>4. CASE prev \in byName
  BY <1>4 DEF PriorVersion, IsPrevious, Similar
<1> QED BY <1>2, <1>3, <1>4

\* Joining a series and linking it files the mail there.
LEMMA JoinsFiles ==
  ASSUME TypeOK, ReferencesStayInProject, NEW m \in Mails,
         NEW s \in 1..(Len(series) + 1), NEW row \in Series, NEW new \in Series,
         NEW prev \in Nat, Joins(m, s, row, prev), WriteRow(s, new),
         SameIdentity(new, row),
         new.previous = IF prev = 0 THEN row.previous ELSE prev
  PROVE  Filed(m, s, prev)
<1>1. /\ s \in SeriesIds'
      /\ SeriesIds' = SeriesIds \cup {s}
      /\ series'[s] = new
      /\ \A t \in SeriesIds : t # s => series'[t] = series[t]
  BY WriteRowType
<1>2. /\ RowOf(s, m).project = m.project
      /\ RowOf(s, m).version = m.version
      /\ RowOf(s, m).total = Total(m)
  BY DEF Joins, RowOf, SameMarkers, NewSeries
<1>3. /\ new.project = m.project
      /\ new.version = m.version
      /\ new.total = Total(m)
      /\ new.submitter = RowOf(s, m).submitter
      /\ new.previous = IF prev = 0 THEN RowOf(s, m).previous ELSE prev
  BY <1>2 DEF Joins, SameButName, SameIdentity
<1>4. SameMarkers(s, m)'
  BY <1>1, <1>3 DEF SameMarkers
<1>5. \A t \in SeriesIds : SameIdentity(series'[t], series[t])
  <2>1. s \in SeriesIds => SameIdentity(series'[s], series[s])
    BY <1>1, <1>2, <1>3 DEF SameIdentity, RowOf
  <2>2. \A t \in SeriesIds : SameIdentity(series[t], series[t])
    BY DEF SameIdentity
  <2> QED BY <1>1, <2>1, <2>2
<1>6. ASSUME prev # 0 PROVE prev \in SeriesIds /\ PriorVersion(series'[prev], series'[s])
  <2>1. row.project = m.project
    BY <1>2 DEF Joins, SameButName
  <2>2. prev \in SeriesIds /\ PriorVersion(series[prev], row)
    BY <1>6, <2>1, PreviousOfIsPrior DEF Joins
  <2>3. SameIdentity(series'[prev], series[prev])
    BY <1>5, <2>2
  <2> QED BY <1>1, <2>2, <2>3 DEF PriorVersion, SameIdentity
<1> QED BY <1>1, <1>3, <1>4, <1>5, <1>6 DEF Filed

\* Filing keeps the previous series one version older.
LEMMA FiledPrevious ==
  ASSUME TypeOK, PreviousIsPriorVersion, NEW m \in Mails, NEW s, NEW prev \in Nat,
         Filed(m, s, prev)
  PROVE  PreviousIsPriorVersion'
<1> DEFINE Good(t) == series'[t].previous # 0 =>
             /\ series'[t].previous \in SeriesIds'
             /\ PriorVersion(series'[series'[t].previous], series'[t])
<1>1. ASSUME NEW t \in SeriesIds, series'[t].previous = series[t].previous PROVE Good(t)
  <2>1. CASE series[t].previous = 0
    BY <1>1, <2>1
  <2>2. CASE series[t].previous # 0
    <3>1. /\ series[t].previous \in SeriesIds
          /\ PriorVersion(series[series[t].previous], series[t])
      BY <2>2 DEF PreviousIsPriorVersion, PriorVersion
    <3>2. /\ SameIdentity(series'[t], series[t])
          /\ SameIdentity(series'[series[t].previous], series[series[t].previous])
          /\ series[t].previous \in SeriesIds'
      BY <3>1 DEF Filed
    <3> QED BY <1>1, <3>1, <3>2 DEF PriorVersion, SameIdentity
  <2> QED BY <2>1, <2>2
<1>2. \A t \in SeriesIds \ {s} : Good(t)
  BY <1>1 DEF Filed
<1>3. Good(s)
  <2>1. CASE prev # 0
    BY <2>1 DEF Filed
  <2>2. CASE prev = 0 /\ s \in SeriesIds
    BY <1>1, <2>2 DEF Filed, RowOf
  <2>3. CASE prev = 0 /\ s \notin SeriesIds
    BY <2>3 DEF Filed, RowOf, NewSeries
  <2> QED BY <2>1, <2>2, <2>3
<1>4. \A t \in SeriesIds' : Good(t)
  BY <1>2, <1>3 DEF Filed
<1> QED BY <1>4 DEF PreviousIsPriorVersion, PriorVersion

\* Filing keeps references in their project when they lead to s or where they
\* led before.
LEMMA FiledReferences ==
  ASSUME TypeOK, ReferencesStayInProject, NEW m \in Mails, NEW s, NEW prev,
         Filed(m, s, prev), NEW ids,
         reference' = reference \/ SaveReferences(m.project, s, ids)
  PROVE  ReferencesStayInProject'
<1> SUFFICES ASSUME NEW k \in Projects \X MsgIds, reference'[k] # 0
             PROVE  series'[reference'[k]].project = k[1]
  BY DEF ReferencesStayInProject
<1>1. reference'[k] = reference[k] \/ (k[1] = m.project /\ reference'[k] = s)
  BY DEF SaveReferences, TypeOK
<1>2. CASE reference'[k] = reference[k]
  <2>1. reference[k] \in SeriesIds
    BY <1>2, LenProperties DEF TypeOK, SeriesIds
  <2> QED BY <1>2, <2>1 DEF Filed, SameIdentity, ReferencesStayInProject
<1>3. CASE k[1] = m.project /\ reference'[k] = s
  BY <1>3 DEF Filed, SameMarkers
<1> QED BY <1>1, <1>2, <1>3

\* Filing supersedes only patches of the series that s is the next version of.
LEMMA FiledSupersede ==
  ASSUME TypeOK, SupersededByNextVersion, OnlyPatchesArePlaced,
         NEW m \in Mails, NEW s, NEW prev \in Nat, Filed(m, s, prev),
         Supersede(m, prev, inSeries'),
         \A q \in Mails : inSeries[q] # 0 => inSeries'[q] = inSeries[q]
  PROVE  SupersededByNextVersion'
<1>1. series \in Seq(Series) /\ SeriesIds = 1..Len(series)
  BY LenProperties DEF TypeOK, SeriesIds
<1>2. \A t \in SeriesIds' : series'[t].version \in Int
  <2>1. m.version \in Nat
    BY MailsAssumption DEF Mail
  <2>2. series'[s].version \in Int
    BY <2>1 DEF Filed, SameMarkers
  <2>3. \A t \in SeriesIds : series[t] \in Series
    BY <1>1, ElementOfSeq
  <2>4. \A t \in SeriesIds : series[t].version \in Nat
    BY <2>3 DEF Series
  <2> QED BY <2>2, <2>4 DEF Filed, SameIdentity
<1> SUFFICES ASSUME NEW p \in superseded'
             PROVE  /\ inSeries'[p] \in SeriesIds' \ {0}
                    /\ \E t \in SeriesIds' :
                         PriorVersion(series'[inSeries'[p]], series'[t])
  BY <1>2 DEF SupersededByNextVersion, PriorVersion
<1>3. CASE p \in superseded
  <2>1. inSeries'[p] = inSeries[p] /\ inSeries[p] \in SeriesIds \ {0}
    BY <1>1, <1>3 DEF TypeOK, SupersededByNextVersion
  <2>2. PICK t \in SeriesIds :
          /\ series[t].project = series[inSeries[p]].project
          /\ series[t].submitter = series[inSeries[p]].submitter
          /\ series[t].version = series[inSeries[p]].version + 1
    BY <1>3 DEF SupersededByNextVersion
  <2>3. PriorVersion(series[inSeries[p]], series[t])
    <3>1. series[t] \in Series /\ series[inSeries[p]] \in Series
      BY <1>1, <2>1, ElementOfSeq
    <3> QED BY <2>2, <3>1 DEF PriorVersion, Series
  <2>4. PriorVersion(series'[inSeries'[p]], series'[t])
    BY <2>1, <2>3 DEF Filed, SameIdentity, PriorVersion
  <2> QED BY <2>1, <2>4 DEF Filed
<1>4. CASE p \notin superseded
  <2>1. prev # 0 /\ inSeries'[p] = prev
    BY <1>4 DEF Supersede
  <2> QED BY <2>1 DEF Filed
<1> QED BY <1>3, <1>4

\* Filing and placing keeps the series homogeneous: whoever is new in a series
\* has its markers.
LEMMA FiledHomogeneous ==
  ASSUME TypeOK, SeriesIsHomogeneous, NEW m \in Mails, NEW s, NEW prev,
         Filed(m, s, prev),
         \A q \in patches' : inSeries'[q] # 0 =>
           \/ q \in patches /\ inSeries'[q] = inSeries[q]
           \/ q = m /\ inSeries'[q] = s,
         series'[s].cover \in {RowOf(s, m).cover, m}
  PROVE  SeriesIsHomogeneous'
<1>1. \A t \in SeriesIds : \A c : SameMarkers(t, c) => SameMarkers(t, c)'
  BY DEF Filed, SameIdentity, SameMarkers
<1>2. ASSUME NEW q \in patches', inSeries'[q] # 0 PROVE SameMarkers(inSeries[q], q)'
  <2>1. CASE q \in patches /\ inSeries'[q] = inSeries[q]
    <3>1. inSeries[q] \in SeriesIds /\ SameMarkers(inSeries[q], q)
      BY <1>2, <2>1, LenProperties DEF SeriesIsHomogeneous, TypeOK, SeriesIds
    <3> QED BY <1>1, <2>1, <3>1 DEF SameMarkers
  <2>2. CASE q = m /\ inSeries'[q] = s
    BY <2>2 DEF Filed, SameMarkers
  <2> QED BY <1>2, <2>1, <2>2
<1>3. ASSUME NEW t \in SeriesIds', series'[t].cover # Null
      PROVE  SameMarkers(t, series[t].cover)'
  <2>1. CASE t \in SeriesIds /\ series'[t].cover = series[t].cover
    <3>1. SameMarkers(t, series[t].cover)
      BY <1>3, <2>1 DEF SeriesIsHomogeneous
    <3> QED BY <1>1, <2>1, <3>1 DEF SameMarkers
  <2>2. CASE t = s /\ series'[t].cover = m
    BY <2>2 DEF Filed, SameMarkers
  <2>3. CASE t = s /\ series'[s].cover = RowOf(s, m).cover
    BY <1>3, <2>1, <2>3 DEF RowOf, NewSeries
  <2> QED BY <2>1, <2>2, <2>3 DEF Filed
<1> QED BY <1>2, <1>3 DEF SeriesIsHomogeneous

\* The transaction of a patch files it in s, which keeps its cover letter.
LEMMA PatchStepFiles ==
  ASSUME TypeOK, ReferencesStayInProject, NEW m \in Mails,
         NEW s \in 1..(Len(series) + 1), NEW row \in Series,
         NEW deps \in SUBSET Nat, NEW prev \in Nat,
         PatchStep(m, s, row, deps, prev)
  PROVE  /\ Filed(m, s, prev)
         /\ series'[s].cover = RowOf(s, m).cover
         /\ series'[s].total = row.total
<1> DEFINE new == Linked(row, deps, prev)
<1>1. /\ new \in Series
      /\ SameIdentity(new, row)
      /\ new.cover = row.cover
      /\ new.previous = IF prev = 0 THEN row.previous ELSE prev
  BY LinkedType DEF SameIdentity
<1> HIDE DEF new
<1>2. WriteRow(s, new) /\ Joins(m, s, row, prev)
  BY DEF PatchStep, new
<1>3. Filed(m, s, prev)
  BY <1>1, <1>2, JoinsFiles
<1>4. series'[s] = new
  BY <1>1, <1>2, WriteRowType
<1> QED BY <1>1, <1>2, <1>3, <1>4 DEF Joins, SameButName, SameIdentity

\* The transaction of a cover letter files it in s, as its cover letter.
LEMMA CoverStepFiles ==
  ASSUME TypeOK, ReferencesStayInProject, NEW m \in Mails,
         NEW s \in 1..(Len(series) + 1), NEW row \in Series,
         NEW deps \in SUBSET Nat, NEW prev \in Nat,
         CoverStep(m, s, row, deps, prev)
  PROVE  Filed(m, s, prev) /\ series'[s].cover = m
<1> DEFINE old == RowOf(s, m)
           linked == Linked(old, deps, prev)
<1>1. old \in Series
  BY RowOfType
<1>2. /\ linked \in Series
      /\ SameIdentity(linked, old)
      /\ linked.previous = IF prev = 0 THEN old.previous ELSE prev
  BY <1>1, LinkedType DEF SameIdentity
<1>3. /\ WriteRow(s, row)
      /\ Joins(m, s, old, prev)
      /\ SameButName(row, [linked EXCEPT !.cover = m])
  BY DEF CoverStep
<1> HIDE DEF old, linked
<1>4. /\ SameIdentity(row, old)
      /\ row.cover = m
      /\ row.previous = IF prev = 0 THEN old.previous ELSE prev
  BY <1>2, <1>3 DEF SameButName, SameIdentity, Series
<1>5. Filed(m, s, prev)
  BY <1>1, <1>3, <1>4, JoinsFiles
<1> QED BY <1>3, <1>4, <1>5, WriteRowType

\* The transaction of a patch keeps the invariant.
LEMMA PatchStepInvariant ==
  ASSUME SeriesInvariant, TypeOK', NEW m \in Mails,
         NEW s \in 1..(Len(series) + 1), NEW row \in Series,
         NEW deps \in SUBSET Nat, NEW prev \in Nat,
         PatchStep(m, s, row, deps, prev)
  PROVE  SeriesInvariant'
<1> USE DEF SeriesInvariant
<1>1. Filed(m, s, prev) /\ series'[s].cover = RowOf(s, m).cover
  BY PatchStepFiles
<1>2. /\ patches' = patches \cup {m}
      /\ m \notin patches
      /\ inSeries[m] = 0
      /\ inSeries'[m] = IF Number(m) > 0 THEN s ELSE 0
      /\ \A q \in Mails \ {m} : inSeries'[q] = inSeries[q]
  BY DEF PatchStep, TypeOK, OnlyPatchesArePlaced
<1>3. OnlyPatchesArePlaced'
  BY <1>2 DEF OnlyPatchesArePlaced
<1>4. EveryNumberedPatchHasItsSlot'
  <2>1. \A p \in patches' : Number(p) > 0 => inSeries'[p] # 0
    BY <1>2, patches \subseteq Mails DEF EveryNumberedPatchHasItsSlot, TypeOK
  <2>2. ASSUME NEW p \in patches, inSeries'[m] # 0, inSeries'[m] = inSeries[p],
               Number(m) = Number(p)
        PROVE  FALSE
    <3>1. Number(m) > 0 /\ inSeries[p] = s
      BY <1>2, <2>2
    <3>2. SlotFree(s, Number(m))
      BY <3>1 DEF PatchStep
    <3> QED BY <2>2, <3>1, <3>2 DEF SlotFree, PatchesIn
  <2>3. ASSUME NEW p \in patches', NEW q \in patches', inSeries'[p] # 0,
               inSeries'[p] = inSeries'[q], Number(p) = Number(q)
        PROVE  p = q
    <3>1. CASE p # m /\ q # m
      BY <1>2, <2>3, <3>1 DEF EveryNumberedPatchHasItsSlot, TypeOK
    <3>2. CASE p = m /\ q # m
      BY <1>2, <2>2, <2>3, <3>2 DEF TypeOK
    <3>3. CASE p # m /\ q = m
      BY <1>2, <2>2, <2>3, <3>3 DEF TypeOK
    <3> QED BY <3>1, <3>2, <3>3
  <2> QED BY <2>1, <2>3 DEF EveryNumberedPatchHasItsSlot
<1>5. SeriesIsHomogeneous'
  <2>1. \A q \in patches' : inSeries'[q] # 0 =>
          \/ q \in patches /\ inSeries'[q] = inSeries[q]
          \/ q = m /\ inSeries'[q] = s
    BY <1>2 DEF TypeOK
  <2> QED BY <1>1, <2>1, FiledHomogeneous
<1>6. ReferencesStayInProject'
  BY <1>1, FiledReferences DEF PatchStep
<1>7. PreviousIsPriorVersion'
  BY <1>1, FiledPrevious
<1>8. SupersededByNextVersion'
  <2>1. Supersede(m, prev, inSeries')
    BY DEF PatchStep
  <2>2. \A q \in Mails : inSeries[q] # 0 => inSeries'[q] = inSeries[q]
    BY <1>2
  <2> QED BY <1>1, <2>1, <2>2, FiledSupersede
<1> QED BY <1>3, <1>4, <1>5, <1>6, <1>7, <1>8

\* The transaction of a cover letter keeps the invariant.
LEMMA CoverStepInvariant ==
  ASSUME SeriesInvariant, TypeOK', NEW m \in Mails,
         NEW s \in 1..(Len(series) + 1), NEW row \in Series,
         NEW deps \in SUBSET Nat, NEW prev \in Nat,
         CoverStep(m, s, row, deps, prev)
  PROVE  SeriesInvariant'
<1> USE DEF SeriesInvariant
<1>1. Filed(m, s, prev) /\ series'[s].cover = m
  BY CoverStepFiles
<1>2. UNCHANGED <<patches, inSeries>>
  BY DEF CoverStep
<1>3. OnlyPatchesArePlaced' /\ EveryNumberedPatchHasItsSlot'
  BY <1>2 DEF OnlyPatchesArePlaced, EveryNumberedPatchHasItsSlot
<1>4. SeriesIsHomogeneous'
  BY <1>1, <1>2, FiledHomogeneous
<1>5. ReferencesStayInProject'
  BY <1>1, FiledReferences DEF CoverStep
<1>6. PreviousIsPriorVersion'
  BY <1>1, FiledPrevious
<1>7. SupersededByNextVersion'
  BY <1>1, <1>2, FiledSupersede DEF CoverStep
<1> QED BY <1>3, <1>4, <1>5, <1>6, <1>7

\* Comments leave the series alone.
LEMMA UnchangedInvariant ==
  ASSUME SeriesInvariant, TypeOK',
         UNCHANGED <<series, patches, inSeries, superseded, reference>>
  PROVE  SeriesInvariant'
  BY DEF SeriesInvariant, OnlyPatchesArePlaced, EveryNumberedPatchHasItsSlot,
         SeriesIsHomogeneous, ReferencesStayInProject, PreviousIsPriorVersion,
         SupersededByNextVersion, SameMarkers, SeriesIds

\* The empty database has the invariant.
LEMMA SeriesInvariantInit ==
  ASSUME Init
  PROVE  SeriesInvariant
<1>1. TypeOK /\ SeriesIds = {}
  BY TypeInit, Len(<<>>) = 0, EmptySeq DEF Init, SeriesIds
<1> QED BY <1>1 DEF Init, SeriesInvariant, OnlyPatchesArePlaced,
          EveryNumberedPatchHasItsSlot, SeriesIsHomogeneous,
          ReferencesStayInProject, PreviousIsPriorVersion,
          SupersededByNextVersion

\* The invariant holds initially and is kept by every step.
LEMMA SeriesInvariantHolds == Spec => []SeriesInvariant
<1>1. Init => SeriesInvariant
  BY SeriesInvariantInit
<1>2. SeriesInvariant /\ [Next]_vars => SeriesInvariant'
  <2> SUFFICES ASSUME SeriesInvariant, [Next]_vars PROVE SeriesInvariant'
    OBVIOUS
  <2>1. TypeOK /\ TypeOK'
    BY TypeStep DEF SeriesInvariant
  <2>2. ASSUME NEW m \in Mails, HandlePatch(m) PROVE SeriesInvariant'
    BY <2>1, <2>2, HandlePatchStep, PatchStepInvariant
  <2>3. ASSUME NEW m \in Mails, HandleCoverLetter(m) PROVE SeriesInvariant'
    BY <2>1, <2>3, HandleCoverLetterStep, CoverStepInvariant
  <2>4. ASSUME NEW m \in Mails, CommentOnPatch(m) PROVE SeriesInvariant'
    BY <2>1, <2>4, UnchangedInvariant DEF CommentOnPatch
  <2>5. ASSUME NEW m \in Mails, CommentOnCover(m) PROVE SeriesInvariant'
    BY <2>1, <2>5, UnchangedInvariant DEF CommentOnCover
  <2>6. CASE UNCHANGED vars
    BY <2>1, <2>6, UnchangedInvariant DEF vars
  <2> QED BY <2>2, <2>3, <2>4, <2>5, <2>6 DEF Next, ParseMail
<1> QED BY <1>1, <1>2, PTL DEF Spec

\* The slot of a numbered patch is free when it arrives: in no order of arrival
\* do two patches share a place, or is a numbered patch left without a series.
THEOREM SlotsAreKept == Spec => []EveryNumberedPatchHasItsSlot
<1>1. SeriesInvariant => EveryNumberedPatchHasItsSlot
  BY DEF SeriesInvariant
<1> QED BY <1>1, SeriesInvariantHolds, PTL

\* A series has patches and a cover letter of one project, version and total.
THEOREM SeriesStayHomogeneous == Spec => []SeriesIsHomogeneous
<1>1. SeriesInvariant => SeriesIsHomogeneous
  BY DEF SeriesInvariant
<1> QED BY <1>1, SeriesInvariantHolds, PTL

\* No mail makes a message id of one project lead to a series of another.
THEOREM ReferencesKeepProjects == Spec => []ReferencesStayInProject
<1>1. SeriesInvariant => ReferencesStayInProject
  BY DEF SeriesInvariant
<1> QED BY <1>1, SeriesInvariantHolds, PTL

\* Following previous_series, versions only go down by one, within one project
\* and one submitter: the chain ends.
THEOREM PreviousSeriesIsPrior == Spec => []PreviousIsPriorVersion
<1>1. SeriesInvariant => PreviousIsPriorVersion
  BY DEF SeriesInvariant
<1> QED BY <1>1, SeriesInvariantHolds, PTL

\* A patch is superseded only when the next version of its series exists.
THEOREM SupersededHasSuccessor == Spec => []SupersededByNextVersion
<1>1. SeriesInvariant => SupersededByNextVersion
  BY DEF SeriesInvariant
<1> QED BY <1>1, SeriesInvariantHolds, PTL

-----------------------------------------------------------------------------

(***************************************************************************)
(* Mailings.  The first mail of a mailing founds its series, and leads the *)
(* others there by its references or by its sender.                        *)
(***************************************************************************)

Mailed == patches \cup covers

\* A series has the markers, the date and the sender of a stored mail.
EverySeriesHasAFounder ==
  \A s \in SeriesIds : \E o \in Mailed :
    SameMarkers(s, o) /\ series[s].date = o.date /\ series[s].submitter = o.author

\* A message id leads to a series only if a stored mail mentions it.
ReferencesAreMentioned ==
  \A k \in Projects \X MsgIds : reference[k] # 0 =>
    \E o \in Mailed : o.project = k[1] /\ k[2] \in Mentions(o)

\* The series s, the only one with m's markers, has what arrived of m's mailing,
\* and the id its mails refer to leads there.
Gathered(s, m) ==
  /\ SameMarkers(s, m)
  /\ \A t \in SeriesIds : SameMarkers(t, m) => t = s
  /\ \A p \in Mailing(m) \cap patches : inSeries[p] = s
  /\ \A c \in Mailing(m) \cap covers : series[s].cover = c
  /\ \A root \in MsgIds :
       Thread(root, Mailing(m)) => reference[<<m.project, root>>] = s

MailingsAreGathered ==
  \A m \in Mails : Mailing(m) # {} /\ OneMailing(Mailing(m)) =>
    \E s \in SeriesIds : Gathered(s, m)

ThreadInvariant ==
  /\ SeriesInvariant
  /\ EverySeriesHasAFounder
  /\ ReferencesAreMentioned
  /\ MailingsAreGathered

\* References are kept, and those added are m's and lead to s.
KeepsReferences(m, s) ==
  \A k \in Projects \X MsgIds :
    \/ reference'[k] = reference[k]
    \/ /\ reference[k] = 0 /\ reference'[k] = s
       /\ k[1] = m.project /\ k[2] \in Mentions(m)

\* An id of refs that led nowhere leads to s.
LeadsTo(m, s, refs) ==
  \A r \in refs :
    reference[<<m.project, r>>] = 0 => reference'[<<m.project, r>>] = s

\* Series keep what they were founded with, and all but s their cover letter.
KeepsSeries(s) ==
  \A t \in SeriesIds :
    /\ SameIdentity(series'[t], series[t])
    /\ series'[t].date = series[t].date
    /\ t # s => series'[t].cover = series[t].cover

\* What the transactions of patches and cover letters have in common: m goes to
\* series s, looked for with refs and a slot n, and is stored there.
Arrives(m, s, refs, n) ==
  /\ s \in SeriesFor(m, refs, n)
  /\ s # 0
  /\ SeriesIds' = SeriesIds \cup {s}
  /\ SameMarkers(s, m)'
  /\ KeepsSeries(s)
  /\ s \notin SeriesIds => series'[s].date = m.date /\ series'[s].submitter = m.author
  /\ \/ /\ m \notin patches /\ patches' = patches \cup {m} /\ covers' = covers
        /\ refs = Range(m.refs) /\ n = Number(m)
        /\ Number(m) > 0 => inSeries'[m] = s
        /\ s \in SeriesIds => series'[s].cover = series[s].cover
     \/ /\ m \notin covers /\ covers' = covers \cup {m} /\ patches' = patches
        /\ refs = {m.msgid} /\ n = 0
        /\ series'[s].cover = m
  /\ \A p \in patches : inSeries'[p] = inSeries[p]
  /\ KeepsReferences(m, s)
  /\ s \notin SeriesIds => LeadsTo(m, s, refs)

\* The date of a row survives the transaction, that of a new one is the mail's.
LEMMA StepDates ==
  ASSUME TypeOK, NEW m \in Mails, NEW s \in 1..(Len(series) + 1),
         NEW new \in Series, WriteRow(s, new), new.date = RowOf(s, m).date,
         new.submitter = RowOf(s, m).submitter
  PROVE  /\ \A t \in SeriesIds : series'[t].date = series[t].date
         /\ s \notin SeriesIds => series'[s].date = m.date /\ series'[s].submitter = m.author
<1>1. /\ series'[s] = new
      /\ \A t \in SeriesIds : t # s => series'[t] = series[t]
  BY WriteRowType
<1> QED BY <1>1 DEF RowOf, NewSeries

\* What is saved as a reference of m is mentioned by it.
LEMMA SavedReferences ==
  ASSUME TypeOK, NEW m \in Mails, NEW s, NEW ids \in SUBSET Mentions(m),
         SaveReferences(m.project, s, ids)
  PROVE  KeepsReferences(m, s) /\ LeadsTo(m, s, ids \cap MsgIds)
<1>1. m.project \in Projects
  BY MailsAssumption DEF Mail
<1>2. DOMAIN reference = Projects \X MsgIds
  BY DEF TypeOK
<1>3. \A k \in Projects \X MsgIds :
        reference'[k] = IF k[1] = m.project /\ k[2] \in ids /\ reference[k] = 0
                        THEN s ELSE reference[k]
  BY <1>2 DEF SaveReferences
<1>4. ASSUME NEW r \in ids \cap MsgIds, reference[<<m.project, r>>] = 0
      PROVE  reference'[<<m.project, r>>] = s
  <2>1. <<m.project, r>> \in Projects \X MsgIds
    BY <1>1
  <2> QED BY <1>3, <1>4, <2>1
<1> QED BY <1>3, <1>4 DEF KeepsReferences, LeadsTo

\* Ids a mail refers to are message ids.
LEMMA RefsType ==
  ASSUME NEW m \in Mails
  PROVE  m.msgid \in MsgIds /\ Range(m.refs) \subseteq MsgIds
<1>1. m.refs \in Seq(MsgIds) /\ m.msgid \in MsgIds
  BY MailsAssumption DEF Mail
<1> QED BY <1>1, ElementOfSeq, LenProperties DEF Range

\* A patch arrives with its number, looked for by all its references.
LEMMA PatchStepArrives ==
  ASSUME SeriesInvariant, NEW m \in Mails,
         NEW s \in 1..(Len(series) + 1), NEW row \in Series,
         NEW deps \in SUBSET Nat, NEW prev \in Nat,
         PatchStep(m, s, row, deps, prev)
  PROVE  Arrives(m, s, Range(m.refs), Number(m))
<1> USE DEF SeriesInvariant
<1> DEFINE new == Linked(row, deps, prev)
<1>1. Len(series) \in Nat
  BY LenProperties DEF TypeOK
<1>2. Filed(m, s, prev) /\ series'[s].cover = RowOf(s, m).cover
  BY PatchStepFiles
<1>3. /\ new \in Series
      /\ new.date = RowOf(s, m).date
      /\ new.submitter = RowOf(s, m).submitter
      /\ WriteRow(s, new)
  BY LinkedType DEF PatchStep, Joins, SameButName
<1> HIDE DEF new
<1>4. /\ \A t \in SeriesIds : series'[t].date = series[t].date
      /\ s \notin SeriesIds => series'[s].date = m.date /\ series'[s].submitter = m.author
  BY <1>3, StepDates
<1>5. /\ s \in SeriesFor(m, Range(m.refs), Number(m))
      /\ m \notin patches /\ patches' = patches \cup {m} /\ covers' = covers
      /\ inSeries' = [inSeries EXCEPT ![m] = IF Number(m) > 0 THEN s ELSE 0]
      /\ SaveReferences(m.project, s, {m.msgid} \cup Range(m.refs))
  BY DEF PatchStep
<1>6. /\ \A p \in patches : inSeries'[p] = inSeries[p]
      /\ Number(m) > 0 => inSeries'[m] = s
  BY <1>5 DEF TypeOK
<1>7. KeepsReferences(m, s) /\ LeadsTo(m, s, Range(m.refs))
  <2> DEFINE ids == {m.msgid} \cup Range(m.refs)
  <2>1. SaveReferences(m.project, s, ids) /\ ids \in SUBSET Mentions(m)
    BY <1>5 DEF Mentions
  <2>2. Range(m.refs) \subseteq ids \cap MsgIds
    BY RefsType
  <2> HIDE DEF ids
  <2>3. KeepsReferences(m, s) /\ LeadsTo(m, s, ids \cap MsgIds)
    BY <2>1, SavedReferences
  <2> QED BY <2>2, <2>3 DEF LeadsTo
<1>8. s \in SeriesIds => series'[s].cover = series[s].cover
  BY <1>2 DEF RowOf
<1>9. KeepsSeries(s)
  BY <1>2, <1>4 DEF Filed, KeepsSeries
<1>10. SeriesIds' = SeriesIds \cup {s} /\ SameMarkers(s, m)' /\ s # 0
  BY <1>1, <1>2 DEF Filed
<1>11. \/ /\ m \notin patches /\ patches' = patches \cup {m} /\ covers' = covers
          /\ Range(m.refs) = Range(m.refs) /\ Number(m) = Number(m)
          /\ Number(m) > 0 => inSeries'[m] = s
          /\ s \in SeriesIds => series'[s].cover = series[s].cover
       \/ /\ m \notin covers /\ covers' = covers \cup {m} /\ patches' = patches
          /\ Range(m.refs) = {m.msgid} /\ Number(m) = 0
          /\ series'[s].cover = m
  BY <1>5, <1>6, <1>8
<1> QED BY <1>4, <1>5, <1>6, <1>7, <1>9, <1>10, <1>11 DEF Arrives

\* A cover letter arrives without a number, looked for by its own id.
LEMMA CoverStepArrives ==
  ASSUME SeriesInvariant, NEW m \in Mails,
         NEW s \in 1..(Len(series) + 1), NEW row \in Series,
         NEW deps \in SUBSET Nat, NEW prev \in Nat,
         CoverStep(m, s, row, deps, prev)
  PROVE  Arrives(m, s, {m.msgid}, 0)
<1> USE DEF SeriesInvariant
<1> DEFINE old == RowOf(s, m)
           linked == Linked(old, deps, prev)
<1>1. Len(series) \in Nat
  BY LenProperties DEF TypeOK
<1>2. Filed(m, s, prev) /\ series'[s].cover = m
  BY CoverStepFiles
<1>3. old \in Series
  BY RowOfType
<1>4. /\ linked \in Series
      /\ linked.date = old.date
      /\ linked.submitter = old.submitter
  BY <1>3, LinkedType
<1>5. /\ WriteRow(s, row)
      /\ SameButName(row, [linked EXCEPT !.cover = m])
      /\ s \in SeriesFor(m, {m.msgid}, 0)
      /\ m \notin covers /\ covers' = covers \cup {m} /\ patches' = patches
      /\ inSeries' = inSeries
      /\ \/ s \in SeriesIds /\ reference' = reference
         \/ SaveReferences(m.project, s, {m.msgid})
  BY DEF CoverStep
<1> HIDE DEF linked
<1>6. row.date = old.date /\ row.submitter = old.submitter
  BY <1>4, <1>5 DEF SameButName, Series
<1> HIDE DEF old
<1>7. /\ \A t \in SeriesIds : series'[t].date = series[t].date
      /\ s \notin SeriesIds => series'[s].date = m.date /\ series'[s].submitter = m.author
  BY <1>5, <1>6, StepDates DEF old
<1>8. KeepsReferences(m, s) /\ (s \notin SeriesIds => LeadsTo(m, s, {m.msgid}))
  <2>1. CASE s \in SeriesIds /\ reference' = reference
    BY <2>1 DEF KeepsReferences
  <2>2. CASE SaveReferences(m.project, s, {m.msgid})
    <3> DEFINE ids == {m.msgid}
    <3>1. SaveReferences(m.project, s, ids) /\ ids \in SUBSET Mentions(m)
      BY <2>2 DEF Mentions
    <3>2. m.msgid \in ids \cap MsgIds
      BY RefsType
    <3> HIDE DEF ids
    <3>3. KeepsReferences(m, s) /\ LeadsTo(m, s, ids \cap MsgIds)
      BY <3>1, SavedReferences
    <3> QED BY <3>2, <3>3 DEF LeadsTo, ids
  <2> QED BY <1>5, <2>1, <2>2
<1>9. KeepsSeries(s)
  BY <1>2, <1>7 DEF Filed, KeepsSeries
<1>10. SeriesIds' = SeriesIds \cup {s} /\ SameMarkers(s, m)' /\ s # 0
  BY <1>1, <1>2 DEF Filed
<1> QED BY <1>2, <1>5, <1>7, <1>8, <1>9, <1>10 DEF Arrives

\* Without a series of m's markers nothing is found.
LEMMA NothingFits ==
  ASSUME NEW m, NEW refs, NEW n, NEW s \in SeriesFor(m, refs, n),
         \A t \in SeriesIds : ~SameMarkers(t, m)
  PROVE  s = Len(series) + 1
  BY DEF SeriesFor, FindSeries, Newest

\* The only series with m's markers is the one m goes to, if it has room in
\* date and slots and m is by its sender or refers to it.
LEMMA OnlyOneFits ==
  ASSUME TypeOK, NEW m \in Mails, NEW refs, NEW n, NEW t \in SeriesIds,
         SameMarkers(t, m), \A u \in SeriesIds : SameMarkers(u, m) => u = t,
         InWindow(t, m), HasRoom(t, n),
         series[t].submitter = m.author \/ t \in Referenced(refs),
         NEW s \in SeriesFor(m, refs, n)
  PROVE  s = t
<1> DEFINE fitting   == {u \in SeriesIds :
                           SameMarkers(u, m) /\ InWindow(u, m) /\ HasRoom(u, n)}
           byRefs    == fitting \cap Referenced(refs)
           byOwnId   == byRefs \cap Referenced(refs \cap {m.msgid})
           byMarkers == {u \in fitting : series[u].submitter = m.author}
           found     == FindSeries(m, refs, n)
<1>1. fitting = {t}
  OBVIOUS
<1>2. found = IF byOwnId # {} THEN Newest(byOwnId)
              ELSE IF byRefs # {} THEN Newest(byRefs)
              ELSE Newest(byMarkers)
  BY DEF FindSeries
<1>3. byOwnId \subseteq {t} /\ byRefs \subseteq {t} /\ byMarkers \subseteq {t}
  BY <1>1
<1>4. byRefs # {} \/ byMarkers # {}
  BY <1>1
<1>5. \A S \in SUBSET {t} : Newest(S) = S
  <2>1. series[t].date \in Nat
    <3>1. series \in Seq(Series) /\ SeriesIds = 1..Len(series)
      BY LenProperties DEF TypeOK, SeriesIds
    <3>2. series[t] \in Series
      BY <3>1, ElementOfSeq
    <3> QED BY <3>2 DEF Series
  <2> QED BY <2>1 DEF Newest
<1> HIDE DEF fitting, byRefs, byOwnId, byMarkers
<1>6. found # {} /\ found \subseteq {t}
  BY <1>2, <1>3, <1>4, <1>5
<1> QED BY <1>6 DEF SeriesFor

\* The mails of a mailing share its project, version and total.
LEMMA MailingOf ==
  ASSUME NEW m, NEW o \in Mailing(m)
  PROVE  /\ o \in Mailed
         /\ o.project = m.project /\ o.version = m.version /\ Total(o) = Total(m)
  BY DEF Mailing, Mailed

\* What becomes one mailing was one, and a thread was one.
LEMMA WasOneMailing ==
  ASSUME NEW m, NEW x,
         \/ patches' = patches \cup {m} /\ covers' = covers
         \/ covers' = covers \cup {m} /\ patches' = patches
  PROVE  /\ Mailing(x) \subseteq Mailing(x)'
         /\ \A root : Thread(root, Mailing(x))' => Thread(root, Mailing(x))
         /\ OneMailing(Mailing(x))' => OneMailing(Mailing(x))
<1>1. /\ patches \subseteq patches' /\ covers \subseteq covers'
      /\ Mailing(x) \subseteq Mailing(x)'
      /\ Mailing(x)' \cap (patches \cup covers) = Mailing(x)
  BY DEF Mailing
<1>2. ASSUME NEW root, Thread(root, Mailing(x))' PROVE Thread(root, Mailing(x))
  BY <1>1, <1>2 DEF Thread
<1>3. ASSUME OneMailing(Mailing(x))' PROVE OneMailing(Mailing(x))
  BY <1>1, <1>2, <1>3 DEF OneMailing
<1> QED BY <1>1, <1>2, <1>3

\* A mail before whose arrival there was nothing of its mailing goes to a new
\* series; any other mail of one mailing goes where the mailing is.
LEMMA ArrivesWithItsMailing ==
  ASSUME ThreadInvariant, NEW m \in Mails, NEW s, NEW refs, NEW n,
         Arrives(m, s, refs, n), OneMailing(Mailing(m))'
  PROVE  IF Mailing(m) = {} THEN s = Len(series) + 1
         ELSE s \in SeriesIds /\ Gathered(s, m)
<1> USE DEF ThreadInvariant, SeriesInvariant
<1>1. /\ s \in SeriesFor(m, refs, n)
      /\ \/ /\ m \notin patches /\ patches' = patches \cup {m} /\ covers' = covers
            /\ refs = Range(m.refs) /\ n = Number(m)
         \/ /\ m \notin covers /\ covers' = covers \cup {m} /\ patches' = patches
            /\ refs = {m.msgid} /\ n = 0
  BY DEF Arrives
<1>2. m \in Mailing(m)'
  BY <1>1 DEF Mailing
<1>3. ASSUME NEW t \in SeriesIds, SameMarkers(t, m)
      PROVE  \E o \in Mailing(m) : series[t].date = o.date /\ series[t].submitter = o.author
  BY <1>3 DEF EverySeriesHasAFounder, SameMarkers, Mailing, Mailed
<1>4. CASE Mailing(m) = {}
  BY <1>1, <1>3, <1>4, NothingFits
<1>5. CASE Mailing(m) # {}
  <2>1. /\ Mailing(m) \subseteq Mailing(m)'
        /\ \A root : Thread(root, Mailing(m))' => Thread(root, Mailing(m))
        /\ OneMailing(Mailing(m))
    BY <1>1, WasOneMailing
  <2>2. PICK t \in SeriesIds : Gathered(t, m)
    BY <1>5, <2>1 DEF MailingsAreGathered
  <2>3. PICK o \in Mailing(m) : series[t].date = o.date /\ series[t].submitter = o.author
    BY <1>3, <2>2 DEF Gathered
  <2>4. InWindow(t, m)
    <3>1. o.date <= m.date + Delay /\ m.date <= o.date + Delay
      BY <1>2, <2>1 DEF OneMailing
    <3>2. o.date \in Nat /\ m.date \in Nat
      <4>1. o \in Mails
        BY DEF Mailing, TypeOK
      <4> QED BY <4>1, MailsAssumption DEF Mail
    <3> QED BY <2>3, <3>1, <3>2, DelayAssumption DEF InWindow
  <2>5. HasRoom(t, n)
    <3> SUFFICES ASSUME n # 0, NEW q \in PatchesIn(t), Number(q) = n PROVE FALSE
      BY DEF HasRoom, SlotFree
    <3>1. m \in Mailing(m)' \cap patches' /\ Number(m) = Number(q) /\ m \notin patches
      BY <1>1, <1>2
    <3>2. q \in Mailing(m) \cap patches
      <4>1. t # 0
        BY LenProperties DEF TypeOK, SeriesIds
      <4>2. q \in patches /\ inSeries[q] = t
        BY DEF PatchesIn
      <4>3. SameMarkers(t, q) /\ SameMarkers(t, m)
        BY <2>2, <4>1, <4>2 DEF SeriesIsHomogeneous, Gathered
      <4> QED BY <4>2, <4>3 DEF SameMarkers, Mailing
    <3>3. q \in Mailing(m)' \cap patches'
      BY <1>1, <2>1, <3>2
    <3> QED BY <3>1, <3>2, <3>3 DEF OneMailing
  <2>6. series[t].submitter = m.author \/ t \in Referenced(refs)
    <3>1. CASE \A p, q \in Mailing(m)' : p.author = q.author
      BY <1>2, <2>1, <2>3, <3>1
    <3>2. CASE \E root \in MsgIds : Thread(root, Mailing(m))'
      <4>1. PICK root \in MsgIds : Thread(root, Mailing(m))'
        BY <3>2
      <4>2. root \in refs
        BY <1>1, <1>2, <4>1 DEF Thread
      <4>3. reference[<<m.project, root>>] = t
        BY <2>1, <2>2, <4>1 DEF Gathered
      <4>4. m.project \in Projects
        BY MailsAssumption DEF Mail
      <4> QED BY <4>2, <4>3, <4>4 DEF Referenced
    <3> QED BY <3>1, <3>2 DEF OneMailing
  <2>7. s = t
    BY <1>1, <2>2, <2>4, <2>5, <2>6, OnlyOneFits DEF Gathered
  <2> QED BY <1>5, <2>2, <2>7
<1> QED BY <1>4, <1>5

\* Every series still has a founder: a new one has the mail that arrived.
LEMMA ArrivesFounds ==
  ASSUME EverySeriesHasAFounder, NEW m \in Mails, NEW s, NEW refs, NEW n,
         Arrives(m, s, refs, n)
  PROVE  EverySeriesHasAFounder'
<1>1. Mailed' = Mailed \cup {m}
  BY DEF Arrives, Mailed
<1>2. ASSUME NEW t \in SeriesIds
      PROVE  \E o \in Mailed' : /\ SameMarkers(t, o)'
                                /\ series'[t].date = o.date
                                /\ series'[t].submitter = o.author
  <2>1. PICK o \in Mailed : /\ SameMarkers(t, o)
                            /\ series[t].date = o.date
                            /\ series[t].submitter = o.author
    BY DEF EverySeriesHasAFounder
  <2>2. SameIdentity(series'[t], series[t]) /\ series'[t].date = series[t].date
    BY DEF Arrives, KeepsSeries
  <2> QED BY <1>1, <2>1, <2>2 DEF SameMarkers, SameIdentity
<1>3. s \notin SeriesIds => /\ SameMarkers(s, m)'
                            /\ series'[s].date = m.date
                            /\ series'[s].submitter = m.author
  BY DEF Arrives
<1>4. SeriesIds' = SeriesIds \cup {s}
  BY DEF Arrives
<1> QED BY <1>1, <1>2, <1>3, <1>4 DEF EverySeriesHasAFounder

\* Every reference is still mentioned: a new one by the mail that arrived.
LEMMA ArrivesMentions ==
  ASSUME ReferencesAreMentioned, NEW m \in Mails, NEW s, NEW refs, NEW n,
         Arrives(m, s, refs, n)
  PROVE  ReferencesAreMentioned'
<1>1. Mailed' = Mailed \cup {m} /\ KeepsReferences(m, s)
  BY DEF Arrives, Mailed
<1> QED BY <1>1 DEF ReferencesAreMentioned, KeepsReferences, Mentions

\* The mailing of the mail that arrived is gathered.
LEMMA ArrivesGathersItsOwn ==
  ASSUME ThreadInvariant, NEW m \in Mails, NEW s, NEW refs, NEW n,
         Arrives(m, s, refs, n), OneMailing(Mailing(m))'
  PROVE  Gathered(s, m)'
<1> USE DEF ThreadInvariant, SeriesInvariant
<1>1. /\ SeriesIds' = SeriesIds \cup {s} /\ s # 0
      /\ SameMarkers(s, m)' /\ KeepsSeries(s) /\ KeepsReferences(m, s)
      /\ s \notin SeriesIds => LeadsTo(m, s, refs)
      /\ \A p \in patches : inSeries'[p] = inSeries[p]
  BY DEF Arrives
<1>2. \/ /\ m \notin patches /\ patches' = patches \cup {m} /\ covers' = covers
         /\ refs = Range(m.refs) /\ n = Number(m)
         /\ Number(m) > 0 => inSeries'[m] = s
         /\ s \in SeriesIds => series'[s].cover = series[s].cover
      \/ /\ m \notin covers /\ covers' = covers \cup {m} /\ patches' = patches
         /\ refs = {m.msgid} /\ n = 0
         /\ series'[s].cover = m
  BY DEF Arrives
<1>3. /\ Mailing(m)' = Mailing(m) \cup {m}
      /\ Mailed' = Mailed \cup {m}
  BY <1>2 DEF Mailing, Mailed
<1>4. IF Mailing(m) = {} THEN s = Len(series) + 1
      ELSE s \in SeriesIds /\ Gathered(s, m)
  BY ArrivesWithItsMailing
<1>5. \A t \in SeriesIds : SameMarkers(t, m)' => SameMarkers(t, m)
  BY <1>1 DEF KeepsSeries, SameIdentity, SameMarkers
<1>6. Mailing(m) = {} => s \notin SeriesIds
  BY <1>4, LenProperties DEF TypeOK, SeriesIds
<1>7. \A t \in SeriesIds' : SameMarkers(t, m)' => t = s
  <2>1. ASSUME NEW t \in SeriesIds, SameMarkers(t, m), Mailing(m) = {} PROVE FALSE
    BY <2>1 DEF EverySeriesHasAFounder, SameMarkers, Mailing, Mailed
  <2> QED BY <1>1, <1>4, <1>5, <2>1 DEF Gathered
<1>8. \A p \in Mailing(m)' \cap patches' : inSeries'[p] = s
  <2>1. \A p \in Mailing(m) \cap patches : inSeries'[p] = s
    BY <1>1, <1>4 DEF Gathered
  <2>2. m \in patches' => m \in patches \/ inSeries'[m] = s
    BY <1>2, <1>3 DEF OneMailing
  <2>3. m \in patches => m \in Mailing(m)
    BY DEF Mailing
  <2> QED BY <1>2, <1>3, <2>1, <2>2, <2>3
<1>9. \A c \in Mailing(m)' \cap covers' : series'[s].cover = c
  <2>1. CASE covers' = covers
    <3>1. m \in covers => m \in Mailing(m)
      BY DEF Mailing
    <3>2. \A c \in Mailing(m) \cap covers : s \in SeriesIds /\ series[s].cover = c
      BY <1>4 DEF Gathered
    <3>3. CASE s \in SeriesIds => series'[s].cover = series[s].cover
      BY <1>3, <2>1, <3>1, <3>2, <3>3
    <3> QED BY <1>2, <2>1, <3>3
  <2>2. CASE m \in covers' /\ series'[s].cover = m
    <3>1. \A c \in Mailing(m)' \cap covers' : c = m
      BY <1>3, <2>2 DEF OneMailing
    <3> QED BY <2>2, <3>1
  <2> QED BY <1>2, <2>1, <2>2
<1>10. ASSUME NEW root \in MsgIds, Thread(root, Mailing(m))'
       PROVE  reference'[<<m.project, root>>] = s
  <2>1. <<m.project, root>> \in Projects \X MsgIds
    BY MailsAssumption DEF Mail
  <2>2. root \in refs
    BY <1>2, <1>3, <1>10 DEF Thread
  <2>3. CASE Mailing(m) = {}
    <3>1. reference[<<m.project, root>>] = 0
      <4> SUFFICES ASSUME NEW o \in Mailed, o.project = m.project, root \in Mentions(o)
                   PROVE  FALSE
        BY <2>1 DEF ReferencesAreMentioned
      <4>1. o \in Mailed' \ Mailing(m)'
        BY <1>3, <2>3 DEF Mailing, Mailed
      <4> QED BY <1>3, <1>10, <4>1 DEF Thread, Mailed
    <3> QED BY <1>1, <1>6, <2>2, <2>3, <3>1 DEF LeadsTo
  <2>4. CASE Mailing(m) # {}
    <3>1. Thread(root, Mailing(m))
      BY <1>2, <1>10, WasOneMailing
    <3>2. reference[<<m.project, root>>] = s
      BY <1>4, <2>4, <3>1 DEF Gathered
    <3> QED BY <1>1, <2>1, <3>2 DEF KeepsReferences
  <2> QED BY <2>3, <2>4
<1> QED BY <1>1, <1>7, <1>8, <1>9, <1>10 DEF Gathered

\* Every mailing stays gathered: that of the mail that arrived, and the others,
\* whose series has other markers.
LEMMA ArrivesGathers ==
  ASSUME ThreadInvariant, NEW m \in Mails, NEW s, NEW refs, NEW n,
         Arrives(m, s, refs, n)
  PROVE  MailingsAreGathered'
<1> USE DEF ThreadInvariant
<1> SUFFICES ASSUME NEW x \in Mails, Mailing(x)' # {}, OneMailing(Mailing(x))'
             PROVE  \E t \in SeriesIds' : Gathered(t, x)'
  BY DEF MailingsAreGathered
<1>1. /\ SeriesIds' = SeriesIds \cup {s} /\ SameMarkers(s, m)'
      /\ KeepsSeries(s) /\ KeepsReferences(m, s)
      /\ \A p \in patches : inSeries'[p] = inSeries[p]
  BY DEF Arrives
<1>2. \/ patches' = patches \cup {m} /\ covers' = covers
      \/ covers' = covers \cup {m} /\ patches' = patches
  BY DEF Arrives
<1>3. CASE m \in Mailing(x)'
  <2>1. /\ Mailing(m)' = Mailing(x)'
        /\ m.project = x.project /\ m.version = x.version /\ Total(m) = Total(x)
    BY <1>3 DEF Mailing
  <2>2. Gathered(s, m)'
    BY <2>1, ArrivesGathersItsOwn
  <2>3. Gathered(s, x)'
    BY <2>1, <2>2 DEF Gathered, SameMarkers
  <2> QED BY <1>1, <2>3
<1>4. CASE m \notin Mailing(x)'
  <2>1. /\ Mailing(x)' = Mailing(x)
        /\ Mailing(x)' \cap patches' = Mailing(x) \cap patches
        /\ Mailing(x)' \cap covers' = Mailing(x) \cap covers
    BY <1>2, <1>4 DEF Mailing
  <2>2. /\ OneMailing(Mailing(x))
        /\ \A root : Thread(root, Mailing(x))' => Thread(root, Mailing(x))
    BY <1>2, WasOneMailing
  <2>3. PICK t \in SeriesIds : Gathered(t, x)
    BY <2>1, <2>2 DEF MailingsAreGathered
  <2>4. \A u \in SeriesIds : SameMarkers(u, x)' <=> SameMarkers(u, x)
    BY <1>1 DEF KeepsSeries, SameIdentity, SameMarkers
  <2>5. ~SameMarkers(s, x)'
    BY <1>1, <1>2, <1>4 DEF SameMarkers, Mailing
  <2>6. /\ SameMarkers(t, x)'
        /\ \A u \in SeriesIds' : SameMarkers(u, x)' => u = t
    BY <1>1, <2>3, <2>4, <2>5 DEF Gathered
  <2>7. /\ \A p \in Mailing(x)' \cap patches' : inSeries'[p] = t
        /\ \A c \in Mailing(x)' \cap covers' : series'[t].cover = c
    <3>1. series'[t].cover = series[t].cover
      BY <1>1, <2>5, <2>6 DEF KeepsSeries
    <3> QED BY <1>1, <2>1, <2>3, <3>1 DEF Gathered
  <2>8. ASSUME NEW root \in MsgIds, Thread(root, Mailing(x))'
        PROVE  reference'[<<x.project, root>>] = t
    <3>1. <<x.project, root>> \in Projects \X MsgIds
      BY MailsAssumption DEF Mail
    <3>2. reference[<<x.project, root>>] = t
      BY <2>2, <2>3, <2>8 DEF Gathered
    <3>3. t # 0
      BY LenProperties DEF SeriesInvariant, TypeOK, SeriesIds
    <3> QED BY <1>1, <3>1, <3>2, <3>3 DEF KeepsReferences
  <2>9. Gathered(t, x)'
    BY <2>6, <2>7, <2>8 DEF Gathered
  <2> QED BY <1>1, <2>9
<1> QED BY <1>3, <1>4

\* The arrival of a patch or of a cover letter keeps the invariant.
LEMMA ArrivesInvariant ==
  ASSUME ThreadInvariant, NEW m \in Mails, NEW s, NEW refs, NEW n,
         Arrives(m, s, refs, n), SeriesInvariant'
  PROVE  ThreadInvariant'
<1>1. EverySeriesHasAFounder' /\ ReferencesAreMentioned'
  BY ArrivesFounds, ArrivesMentions DEF ThreadInvariant
<1>2. MailingsAreGathered'
  BY ArrivesGathers
<1> QED BY <1>1, <1>2 DEF ThreadInvariant

\* The invariant holds initially and is kept by every step.
LEMMA ThreadInvariantHolds == Spec => []ThreadInvariant
<1>1. Init => ThreadInvariant
  <2> SUFFICES ASSUME Init PROVE ThreadInvariant
    OBVIOUS
  <2>1. SeriesInvariant /\ SeriesIds = {}
    BY SeriesInvariantInit, Len(<<>>) = 0, EmptySeq DEF Init, SeriesIds
  <2> QED BY <2>1 DEF Init, ThreadInvariant, EverySeriesHasAFounder,
            ReferencesAreMentioned, MailingsAreGathered, Mailing
<1>2. ThreadInvariant /\ SeriesInvariant' /\ [Next]_vars => ThreadInvariant'
  <2> SUFFICES ASSUME ThreadInvariant, SeriesInvariant', [Next]_vars
               PROVE  ThreadInvariant'
    OBVIOUS
  <2> SeriesInvariant /\ TypeOK
    BY DEF ThreadInvariant, SeriesInvariant
  <2>1. ASSUME NEW m \in Mails, HandlePatch(m) PROVE ThreadInvariant'
    BY <2>1, HandlePatchStep, PatchStepArrives, ArrivesInvariant
  <2>2. ASSUME NEW m \in Mails, HandleCoverLetter(m) PROVE ThreadInvariant'
    BY <2>2, HandleCoverLetterStep, CoverStepArrives, ArrivesInvariant
  <2>3. ASSUME UNCHANGED <<series, patches, inSeries, covers, reference>>
        PROVE  ThreadInvariant'
    BY <2>3 DEF ThreadInvariant, EverySeriesHasAFounder, ReferencesAreMentioned,
         MailingsAreGathered, Gathered, Mailing, Mailed, OneMailing, Thread,
         SameMarkers, SeriesIds
  <2>4. ASSUME NEW m \in Mails, CommentOnPatch(m) PROVE ThreadInvariant'
    BY <2>3, <2>4 DEF CommentOnPatch
  <2>5. ASSUME NEW m \in Mails, CommentOnCover(m) PROVE ThreadInvariant'
    BY <2>3, <2>5 DEF CommentOnCover
  <2>6. CASE UNCHANGED vars
    BY <2>3, <2>6 DEF vars
  <2> QED BY <2>1, <2>2, <2>4, <2>5, <2>6 DEF Next, ParseMail
<1> QED BY <1>1, <1>2, SeriesInvariantHolds, PTL DEF Spec

\* In whatever order the mails of a mailing arrive, between those of others and
\* of other versions, its patches are in one series, whose cover letter its is.
THEOREM MailingsStayTogether == Spec => []ThreadsStayTogether
<1>1. ThreadInvariant => ThreadsStayTogether
  <2> SUFFICES ASSUME ThreadInvariant, NEW m \in patches \cup covers,
                      OneMailing(Mailing(m))
               PROVE  \E s \in SeriesIds :
                        /\ \A p \in Mailing(m) \cap patches : inSeries[p] = s
                        /\ \A c \in Mailing(m) \cap covers : series[s].cover = c
    BY DEF ThreadsStayTogether
  <2>1. m \in Mails /\ Mailing(m) # {}
    BY DEF ThreadInvariant, SeriesInvariant, TypeOK, Mailing
  <2>2. PICK s \in SeriesIds : Gathered(s, m)
    BY <2>1 DEF ThreadInvariant, MailingsAreGathered
  <2> QED BY <2>2 DEF Gathered
<1> QED BY <1>1, ThreadInvariantHolds, PTL

-----------------------------------------------------------------------------

(***************************************************************************)
(* Counting.  The query of createPatchCompletedEvent counts the patches    *)
(* with a smaller number; that tells whether all have arrived because no   *)
(* two patches of a series have the same number.                           *)
(***************************************************************************)

Numbered(S) ==
  /\ \A q \in S : Number(q) \in Nat \ {0}
  /\ \A q, r \in S : Number(q) = Number(r) => q = r

\* All numbers below n are there.
FullBelow(S, n) == \A k \in 1..(n - 1) : \E q \in S : Number(q) = k

\* As many patches as there are smaller numbers are all of them.
LEMMA CountTellsFull ==
  ASSUME NEW S, Numbered(S), NEW n \in Nat \ {0}
  PROVE  Cardinality({q \in S : Number(q) < n}) = n - 1 <=> FullBelow(S, n)
<1> DEFINE T == {q \in S : Number(q) < n}
           f == [q \in T |-> Number(q)]
<1>1. f \in Injection(T, 1..(n - 1))
  <2>1. f \in [T -> 1..(n - 1)]
    BY DEF Numbered
  <2>2. \A a, b \in T : f[a] = f[b] => a = b
    BY DEF Numbered
  <2> QED BY <2>1, <2>2 DEF Injection, IsInjective
<1>2. IsFiniteSet(1..(n - 1)) /\ Cardinality(1..(n - 1)) = n - 1
  BY FS_Interval
<1>3. Cardinality(T) = n - 1 <=> f \in Surjection(T, 1..(n - 1))
  BY <1>1, <1>2, FS_Injection
<1>4. f \in Surjection(T, 1..(n - 1)) <=> \A k \in 1..(n - 1) : \E q \in T : f[q] = k
  BY <1>1 DEF Surjection, Injection
<1>5. (\A k \in 1..(n - 1) : \E q \in T : f[q] = k) <=> FullBelow(S, n)
  <2>1. \A k \in 1..(n - 1), q \in S : Number(q) = k => q \in T /\ f[q] = k
    BY DEF Numbered
  <2>2. \A q \in T : f[q] = Number(q) /\ q \in S
    OBVIOUS
  <2> QED BY <2>1, <2>2 DEF FullBelow
<1> QED BY <1>3, <1>4, <1>5

\* A patch completes itself and the successors that waited for it: among the
\* patches of its series, those that have all predecessors now and not before.
LEMMA CompletesTheWaiting ==
  ASSUME NEW S, NEW m, m \notin S, Numbered(S \cup {m}), NEW p \in S \cup {m}
  PROVE  p \in Completes(m, Number(m), S \cup {m})
           <=> /\ FullBelow(S \cup {m}, Number(p))
               /\ p = m \/ ~FullBelow(S, Number(p))
<1> DEFINE R == S \cup {m}
           n == Number(m)
           Waits(q) == /\ Number(q) > n
                       /\ \A k \in (n + 1)..Number(q) : \E r \in R : Number(r) = k
<1>1. \A q \in R : Number(q) \in Nat \ {0}
  BY DEF Numbered
<1>2. \A q \in S : Number(q) # n
  BY DEF Numbered
<1>3. Cardinality({q \in R : Number(q) < n}) = n - 1 <=> FullBelow(R, n)
  BY <1>1, CountTellsFull
<1>4. p \in Completes(m, n, R) <=> FullBelow(R, n) /\ (p = m \/ Waits(p))
  BY <1>3 DEF Completes
<1>5. CASE p = m
  BY <1>4, <1>5 DEF Completes
<1>6. CASE p # m
  <2>1. ASSUME FullBelow(R, n), Waits(p)
        PROVE  FullBelow(R, Number(p)) /\ ~FullBelow(S, Number(p))
    <3>1. FullBelow(R, Number(p))
      <4> SUFFICES ASSUME NEW k \in 1..(Number(p) - 1)
                   PROVE  \E r \in R : Number(r) = k
        BY DEF FullBelow
      <4>1. CASE k < n
        BY <1>1, <2>1, <4>1 DEF FullBelow
      <4>2. CASE k = n
        BY <4>2
      <4>3. CASE k > n
        BY <1>1, <2>1, <4>3
      <4> QED BY <1>1, <4>1, <4>2, <4>3
    <3>2. ~FullBelow(S, Number(p))
      BY <1>1, <1>2, <2>1 DEF FullBelow
    <3> QED BY <3>1, <3>2
  <2>2. ASSUME FullBelow(R, Number(p)), ~FullBelow(S, Number(p))
        PROVE  FullBelow(R, n) /\ Waits(p)
    <3>1. PICK k \in 1..(Number(p) - 1) : \A q \in S : Number(q) # k
      BY <2>2 DEF FullBelow
    <3>2. k = n
      BY <2>2, <3>1 DEF FullBelow
    <3>3. n < Number(p)
      BY <1>1, <3>2
    <3>4. FullBelow(R, n)
      BY <1>1, <2>2, <3>3 DEF FullBelow
    <3>5. ASSUME NEW j \in (n + 1)..Number(p) PROVE \E r \in R : Number(r) = j
      <4>1. CASE j = Number(p)
        BY <4>1
      <4>2. CASE j < Number(p)
        BY <1>1, <2>2, <4>2 DEF FullBelow
      <4> QED BY <1>1, <4>1, <4>2
    <3> QED BY <3>3, <3>4, <3>5
  <2> QED BY <1>4, <1>6, <2>1, <2>2
<1> QED BY <1>5, <1>6

(***************************************************************************)
(* The inductive invariant.                                                *)
(***************************************************************************)

\* The events of completion are about patches with a place and about series
\* there are, so that nothing is announced in advance.
CompletionsAreOfRows ==
  \A e \in events :
    /\ e.category = "patch-completed" => e.row \in patches /\ inSeries[e.row] # 0
    /\ e.category = "series-completed" => e.series \in SeriesIds

PlacedAreNumbered == \A m \in Mails : inSeries[m] # 0 => Number(m) > 0

EventInvariant ==
  /\ SeriesInvariant
  /\ IsFiniteSet(patches)
  /\ PlacedAreNumbered
  /\ CompletionsAreOfRows
  /\ PatchCompletedExactlyOnce
  /\ SeriesCompletedWhenAllArrived

\* The events of these names are those of before the step.
SameEvents(category) ==
  {e \in events' : e.category = category} = {e \in events : e.category = category}

\* Steps that place no patch and complete nothing keep the invariant.
LEMMA OtherStepsKeepEvents ==
  ASSUME EventInvariant, SeriesInvariant', UNCHANGED <<patches, inSeries>>,
         SeriesIds \subseteq SeriesIds',
         \A t \in SeriesIds : series'[t].total = series[t].total,
         \A t \in SeriesIds' \ SeriesIds : t \notin 0..Len(series),
         SameEvents("patch-completed"), SameEvents("series-completed")
  PROVE  EventInvariant'
<1> USE DEF EventInvariant
<1>1. \A t : PatchesIn(t)' = PatchesIn(t)
  BY DEF PatchesIn
<1>2. IsFiniteSet(patches)' /\ PlacedAreNumbered'
  BY DEF PlacedAreNumbered
<1>3. CompletionsAreOfRows'
  <2>1. \A e \in events' : e.category \in {"patch-completed", "series-completed"}
                             => e \in events
    BY DEF SameEvents
  <2> QED BY <2>1 DEF CompletionsAreOfRows
<1>4. PatchCompletedExactlyOnce'
  <2>1. \A p : Emitted("patch-completed", p)' = Emitted("patch-completed", p)
    BY DEF SameEvents, Emitted
  <2>2. \A p \in patches : PredecessorsArrived(p)' <=> PredecessorsArrived(p)
    BY <1>1 DEF PredecessorsArrived
  <2> QED BY <2>1, <2>2 DEF PatchCompletedExactlyOnce
<1>5. SeriesCompletedWhenAllArrived'
  <2> SUFFICES ASSUME NEW t \in SeriesIds', series'[t].total > 0
               PROVE  SeriesCompletions(t)' # {}
                        <=> Cardinality(PatchesIn(t)') >= series'[t].total
    BY DEF SeriesCompletedWhenAllArrived
  <2>1. SeriesCompletions(t)' = SeriesCompletions(t)
    BY DEF SameEvents, SeriesCompletions
  <2>2. CASE t \in SeriesIds
    BY <1>1, <2>1, <2>2 DEF SeriesCompletedWhenAllArrived
  <2>3. CASE t \notin SeriesIds
    <3>1. SeriesCompletions(t) = {}
      BY <2>3 DEF CompletionsAreOfRows, SeriesCompletions
    <3>2. PatchesIn(t) = {}
      BY <2>3 DEF PatchesIn, SeriesInvariant, TypeOK
    <3>3. Cardinality(PatchesIn(t)') = 0
      BY <1>1, <3>2, FS_EmptySet
    <3>4. series'[t].total \in Nat
      <4>1. series' \in Seq(Series) /\ t \in 1..Len(series')
        BY LenProperties DEF SeriesInvariant, TypeOK, SeriesIds
      <4>2. series'[t] \in Series
        BY <4>1, ElementOfSeq
      <4> QED BY <4>2 DEF Series
    <3> QED BY <2>1, <3>1, <3>3, <3>4
  <2> QED BY <2>2, <2>3
<1> QED BY <1>2, <1>3, <1>4, <1>5

(***************************************************************************)
(* The step of a patch.                                                    *)
(***************************************************************************)

\* What a patch's transaction adds to the events of each category.
LEMMA PatchStepEvents ==
  ASSUME NEW m, NEW s, NEW row, NEW deps, NEW prev,
         PatchStep(m, s, row, deps, prev)
  PROVE  /\ \A p : Emitted("patch-completed", p)' =
                     Emitted("patch-completed", p)
                       \cup {e \in PatchCompletedEvents(m, s, PatchesIn(s)') : e.row = p}
         /\ \A t : SeriesCompletions(t)' =
                     SeriesCompletions(t)
                       \cup {e \in SeriesCompletedEvents(m, s, row, PatchesIn(s)') : e.series = t}
<1>1. \A e \in SeriesCreatedEvents(m, s) : e.category = "series-created"
  BY DEF SeriesCreatedEvents, EventOf
<1>2. EventOf("patch-created", m, 0, m).category = "patch-created"
  BY DEF EventOf
<1>3. \A e \in PatchCompletedEvents(m, s, PatchesIn(s)') : e.category = "patch-completed"
  BY DEF PatchCompletedEvents, EventOf
<1>4. \A e \in SeriesCompletedEvents(m, s, row, PatchesIn(s)') : e.category = "series-completed"
  BY DEF SeriesCompletedEvents, EventOf
<1>5. events' = events \cup SeriesCreatedEvents(m, s)
                  \cup {EventOf("patch-created", m, 0, m)}
                  \cup PatchCompletedEvents(m, s, PatchesIn(s)')
                  \cup SeriesCompletedEvents(m, s, row, PatchesIn(s)')
  BY DEF PatchStep
<1>6. /\ {e \in events' : e.category = "patch-completed"} =
           {e \in events : e.category = "patch-completed"}
             \cup PatchCompletedEvents(m, s, PatchesIn(s)')
      /\ {e \in events' : e.category = "series-completed"} =
           {e \in events : e.category = "series-completed"}
             \cup SeriesCompletedEvents(m, s, row, PatchesIn(s)')
  BY <1>1, <1>2, <1>3, <1>4, <1>5
<1>7. \A p : Emitted("patch-completed", p) =
               {e \in {x \in events : x.category = "patch-completed"} : e.row = p}
  BY DEF Emitted
<1>8. \A p : Emitted("patch-completed", p)' =
               {e \in {x \in events' : x.category = "patch-completed"} : e.row = p}
  BY DEF Emitted
<1>9. \A t : SeriesCompletions(t) =
               {e \in {x \in events : x.category = "series-completed"} : e.series = t}
  BY DEF SeriesCompletions
<1>10. \A t : SeriesCompletions(t)' =
               {e \in {x \in events' : x.category = "series-completed"} : e.series = t}
  BY DEF SeriesCompletions
<1> QED BY <1>6, <1>7, <1>8, <1>9, <1>10

\* Where a patch's transaction places what.
LEMMA PatchStepPlaces ==
  ASSUME EventInvariant, NEW m \in Mails, NEW s \in 1..(Len(series) + 1),
         NEW row, NEW deps, NEW prev, PatchStep(m, s, row, deps, prev)
  PROVE  /\ patches' = patches \cup {m}
         /\ m \notin patches
         /\ inSeries[m] = 0
         /\ inSeries'[m] = IF Number(m) > 0 THEN s ELSE 0
         /\ \A q \in patches : inSeries'[q] = inSeries[q]
         /\ \A q \in Mails \ {m} : inSeries'[q] = inSeries[q]
         /\ \A t \in Nat \ {0, s} : PatchesIn(t)' = PatchesIn(t)
         /\ PatchesIn(s)' = PatchesIn(s) \cup {q \in {m} : Number(q) > 0}
<1>1. /\ patches' = patches \cup {m}
      /\ patches \subseteq Mails
      /\ m \notin patches
      /\ inSeries' = [inSeries EXCEPT ![m] = IF Number(m) > 0 THEN s ELSE 0]
      /\ inSeries \in [Mails -> 0..Len(series)]
  BY DEF EventInvariant, SeriesInvariant, TypeOK, PatchStep
<1>2. inSeries[m] = 0
  BY <1>1 DEF EventInvariant, SeriesInvariant, OnlyPatchesArePlaced
<1>3. /\ inSeries'[m] = IF Number(m) > 0 THEN s ELSE 0
      /\ \A q \in Mails \ {m} : inSeries'[q] = inSeries[q]
      /\ \A q \in patches : inSeries'[q] = inSeries[q]
  BY <1>1
<1>4. \A t : PatchesIn(t)' = {q \in patches : inSeries[q] = t}
                               \cup {q \in {m} : inSeries'[m] = t}
  BY <1>1, <1>3 DEF PatchesIn
<1>5. s # 0
  BY LenProperties DEF EventInvariant, SeriesInvariant, TypeOK
<1>6. \A t \in Nat \ {0, s} : PatchesIn(t)' = PatchesIn(t)
  BY <1>3, <1>4 DEF PatchesIn
<1>7. PatchesIn(s)' = PatchesIn(s) \cup {q \in {m} : Number(q) > 0}
  <2>1. inSeries'[m] = s <=> Number(m) > 0
    BY ONLY <1>3, <1>5
  <2>2. {q \in {m} : inSeries'[m] = s} = {q \in {m} : Number(q) > 0}
    BY ONLY <2>1
  <2> QED BY ONLY <1>4, <2>2 DEF PatchesIn
<1> QED BY <1>1, <1>2, <1>3, <1>6, <1>7

\* After a step too, the patches of a series have different numbers, from 1.
LEMMA MembersAreNumbered ==
  ASSUME SeriesInvariant', PlacedAreNumbered', NEW s \in Nat \ {0}
  PROVE  Numbered(PatchesIn(s)')
<1>1. \A q \in PatchesIn(s)' : q \in patches' /\ q \in Mails /\ inSeries'[q] = s
  BY DEF PatchesIn, TypeOK, SeriesInvariant
<1>2. \A q \in PatchesIn(s)' : Number(q) \in Nat \ {0}
  BY <1>1, NumberType DEF PlacedAreNumbered
<1>3. \A q, r \in PatchesIn(s)' : Number(q) = Number(r) => q = r
  BY <1>1 DEF EveryNumberedPatchHasItsSlot, SeriesInvariant
<1> QED BY <1>2, <1>3 DEF Numbered

\* A patch announces the completion of exactly the patches it completes.
LEMMA PatchStepCompletesPatches ==
  ASSUME EventInvariant, SeriesInvariant', PlacedAreNumbered', NEW m \in Mails,
         NEW s \in 1..(Len(series) + 1), NEW row, NEW deps, NEW prev,
         PatchStep(m, s, row, deps, prev)
  PROVE  PatchCompletedExactlyOnce'
<1>1. /\ patches' = patches \cup {m}
      /\ m \notin patches
      /\ inSeries[m] = 0
      /\ inSeries'[m] = IF Number(m) > 0 THEN s ELSE 0
      /\ \A q \in patches : inSeries'[q] = inSeries[q]
      /\ \A t \in Nat \ {0, s} : PatchesIn(t)' = PatchesIn(t)
      /\ PatchesIn(s)' = PatchesIn(s) \cup {q \in {m} : Number(q) > 0}
  BY PatchStepPlaces
<1> SUFFICES ASSUME NEW p \in patches', inSeries'[p] # 0
             PROVE  LET E == Emitted("patch-completed", p)'
                    IN /\ E # {} <=> PredecessorsArrived(p)'
                       /\ \A e, f \in E : e = f
                       /\ \A e \in E : e.series = inSeries'[p]
  BY DEF PatchCompletedExactlyOnce
<1> DEFINE New == {e \in PatchCompletedEvents(m, s, PatchesIn(s)') : e.row = p}
           Old == Emitted("patch-completed", p)
<1>2. Emitted("patch-completed", p)' = Old \cup New
  BY PatchStepEvents
<1>3. p \in patches /\ inSeries[p] = inSeries'[p] =>
         /\ Old # {} <=> PredecessorsArrived(p)
         /\ \A e, f \in Old : e = f
         /\ \A e \in Old : e.series = inSeries[p]
  BY DEF EventInvariant, PatchCompletedExactlyOnce
<1>4. /\ PredecessorsArrived(p) <=> FullBelow(PatchesIn(inSeries[p]), Number(p))
      /\ PredecessorsArrived(p)' <=> FullBelow(PatchesIn(inSeries[p])', Number(p))
  BY DEF PredecessorsArrived, FullBelow, PatchesIn
<1>5. inSeries'[p] \in Nat /\ s \in Nat \ {0} /\ Number(m) \in Nat
  BY LenProperties, NumberType DEF EventInvariant, SeriesInvariant, TypeOK
<1>6. CASE inSeries'[p] # s
  <2>1. p \in patches /\ inSeries[p] = inSeries'[p] /\ p \notin PatchesIn(s)'
    BY <1>1, <1>6 DEF PatchesIn
  <2>2. New = {}
    <3>1. Number(m) # 0 => m \in PatchesIn(s)'
      BY <1>1, <1>5
    <3>2. Number(m) # 0 => Completes(m, Number(m), PatchesIn(s)') \subseteq PatchesIn(s)'
      BY <3>1 DEF Completes
    <3>3. \A e \in PatchCompletedEvents(m, s, PatchesIn(s)') : e.row \in PatchesIn(s)'
      BY <3>2 DEF PatchCompletedEvents, EventOf
    <3> QED BY <2>1, <3>3
  <2>3. PICK t \in Nat \ {0, s} : t = inSeries'[p]
    BY <1>5, <1>6
  <2>4. PatchesIn(t)' = PatchesIn(t)
    BY <1>1
  <2>5. PredecessorsArrived(p)' <=> PredecessorsArrived(p)
    BY <2>1, <2>3, <2>4 DEF PredecessorsArrived
  <2> QED BY <1>2, <1>3, <2>1, <2>2, <2>5
<1>7. CASE inSeries'[p] = s /\ Number(m) = 0
  <2>1. p \in patches /\ inSeries[p] = inSeries'[p]
    BY <1>1, <1>5, <1>7
  <2>2. New = {}
    BY <1>7 DEF PatchCompletedEvents
  <2>3. PatchesIn(s)' = PatchesIn(s)
    BY <1>1, <1>7
  <2> QED BY <1>2, <1>3, <1>4, <1>7, <2>1, <2>2, <2>3 DEF PatchesIn
<1>8. CASE inSeries'[p] = s /\ Number(m) > 0
  <2> DEFINE S == PatchesIn(s)
  <2>1. PatchesIn(s)' = S \cup {m} /\ m \notin S /\ p \in S \cup {m}
    BY <1>1, <1>8 DEF PatchesIn
  <2>2. Numbered(S \cup {m})
    <3>1. Numbered(PatchesIn(s)')
      BY <1>5, MembersAreNumbered
    <3> QED BY <2>1, <3>1
  <2>3. p \in Completes(m, Number(m), S \cup {m})
          <=> /\ FullBelow(S \cup {m}, Number(p))
              /\ p = m \/ ~FullBelow(S, Number(p))
    BY <2>1, <2>2, CompletesTheWaiting
  <2>4. \A e : e \in New <=> \E q \in Completes(m, Number(m), S \cup {m}) :
                              e = EventOf("patch-completed", q, s, m) /\ e.row = p
    <3>1. Number(m) # 0
      BY <1>8
    <3> QED BY <2>1, <3>1 DEF PatchCompletedEvents
  <2>5. \A q : /\ EventOf("patch-completed", q, s, m).row = q
               /\ EventOf("patch-completed", q, s, m).series = s
    BY DEF EventOf
  <2>6. \A e \in New : e = EventOf("patch-completed", p, s, m) /\ e.series = s
    BY <2>4, <2>5
  <2>7. New # {} <=> p \in Completes(m, Number(m), S \cup {m})
    BY <2>4, <2>5
  <2>8. PredecessorsArrived(p)' <=> FullBelow(S \cup {m}, Number(p))
    BY <1>8, <2>1 DEF PredecessorsArrived, FullBelow
  <2>9. CASE p = m
    <3>1. Old = {}
      BY <1>1, <2>9 DEF EventInvariant, CompletionsAreOfRows, Emitted
    <3> QED BY <1>2, <1>8, <2>3, <2>6, <2>7, <2>8, <2>9, <3>1
  <2>10. CASE p # m
    <3>1. p \in patches /\ inSeries[p] = inSeries'[p]
      BY <1>1, <2>10
    <3>2. Old # {} <=> FullBelow(S, Number(p))
      BY <1>3, <1>4, <1>8, <3>1
    <3>3. FullBelow(S, Number(p)) => FullBelow(S \cup {m}, Number(p))
      BY DEF FullBelow
    <3>4. New # {} => Old = {}
      BY <2>3, <2>7, <2>10, <3>2
    <3>5. Old \cup New # {} <=> PredecessorsArrived(p)'
      BY <2>3, <2>7, <2>8, <2>10, <3>2, <3>3
    <3>6. \A e, f \in Old \cup New : e = f
      BY <1>3, <2>6, <3>1, <3>4
    <3>7. \A e \in Old \cup New : e.series = inSeries'[p]
      BY <1>3, <1>8, <2>6, <3>1
    <3> QED BY <1>2, <3>5, <3>6, <3>7
  <2> QED BY <2>9, <2>10
<1> QED BY <1>5, <1>6, <1>7, <1>8

\* A patch announces its series as completed if all its patches are there now.
LEMMA PatchStepCompletesSeries ==
  ASSUME EventInvariant, TypeOK', IsFiniteSet(patches'), NEW m \in Mails,
         NEW s \in 1..(Len(series) + 1), NEW row \in Series,
         NEW deps \in SUBSET Nat, NEW prev \in Nat,
         PatchStep(m, s, row, deps, prev)
  PROVE  SeriesCompletedWhenAllArrived'
<1>1. /\ \A t \in Nat \ {0, s} : PatchesIn(t)' = PatchesIn(t)
      /\ PatchesIn(s) \subseteq PatchesIn(s)'
  BY PatchStepPlaces
<1>2. Filed(m, s, prev) /\ series'[s].total = row.total
  BY PatchStepFiles DEF EventInvariant, SeriesInvariant
<1>3. series \in Seq(Series) /\ SeriesIds = 1..Len(series) /\ Len(series) \in Nat
  BY LenProperties DEF EventInvariant, SeriesInvariant, TypeOK, SeriesIds
<1> SUFFICES ASSUME NEW t \in SeriesIds', series'[t].total > 0
             PROVE  SeriesCompletions(t)' # {}
                      <=> Cardinality(PatchesIn(t)') >= series'[t].total
  BY DEF SeriesCompletedWhenAllArrived
<1> DEFINE New == {e \in SeriesCompletedEvents(m, s, row, PatchesIn(s)') : e.series = t}
<1>4. SeriesCompletions(t)' = SeriesCompletions(t) \cup New
  BY PatchStepEvents
<1>5. EventOf("series-completed", Null, s, m).series = s
  BY DEF EventOf
<1>6. t \in SeriesIds =>
        /\ series'[t].total = series[t].total
        /\ SeriesCompletions(t) # {} <=> Cardinality(PatchesIn(t)) >= series[t].total
  BY <1>2 DEF Filed, SameIdentity, EventInvariant, SeriesCompletedWhenAllArrived
<1>7. CASE t # s
  <2>1. t \in SeriesIds /\ t \in Nat \ {0, s}
    BY <1>2, <1>3, <1>7 DEF Filed
  <2>2. New = {}
    BY <1>5, <1>7 DEF SeriesCompletedEvents
  <2> QED BY <1>1, <1>4, <1>6, <2>1, <2>2
<1>8. CASE t = s
  <2>1. row.total \in Nat /\ row.total > 0
    BY <1>2, <1>8 DEF Series
  <2>2. New # {} <=> Cardinality(PatchesIn(s)') >= row.total
    <3>1. SeriesCompletedEvents(m, s, row, PatchesIn(s)') =
            IF Cardinality(PatchesIn(s)') >= row.total
            THEN {EventOf("series-completed", Null, s, m)} ELSE {}
      BY <2>1 DEF SeriesCompletedEvents
    <3> QED BY <1>5, <1>8, <3>1
  <2>3. SeriesCompletions(s) # {} => Cardinality(PatchesIn(s)') >= row.total
    <3>1. CASE s \in SeriesIds
      <4>1. IsFiniteSet(PatchesIn(s)')
        BY FS_Subset DEF PatchesIn
      <4>2. /\ Cardinality(PatchesIn(s)) <= Cardinality(PatchesIn(s)')
            /\ Cardinality(PatchesIn(s)) \in Nat
            /\ Cardinality(PatchesIn(s)') \in Nat
        BY <1>1, <4>1, FS_Subset, FS_CardinalityType
      <4> QED BY <1>2, <1>6, <1>8, <2>1, <3>1, <4>2
    <3>2. CASE s \notin SeriesIds
      BY <3>2 DEF SeriesCompletions, EventInvariant, CompletionsAreOfRows
    <3> QED BY <3>1, <3>2
  <2> QED BY <1>2, <1>4, <1>8, <2>2, <2>3
<1> QED BY <1>7, <1>8

\* The transaction of a patch keeps the invariant.
LEMMA PatchStepEventInvariant ==
  ASSUME EventInvariant, SeriesInvariant', NEW m \in Mails,
         NEW s \in 1..(Len(series) + 1), NEW row \in Series,
         NEW deps \in SUBSET Nat, NEW prev \in Nat,
         PatchStep(m, s, row, deps, prev)
  PROVE  EventInvariant'
<1>1. /\ patches' = patches \cup {m}
      /\ m \notin patches
      /\ inSeries[m] = 0
      /\ inSeries'[m] = IF Number(m) > 0 THEN s ELSE 0
      /\ \A q \in patches : inSeries'[q] = inSeries[q]
      /\ \A q \in Mails \ {m} : inSeries'[q] = inSeries[q]
  BY PatchStepPlaces
<1>2. IsFiniteSet(patches')
  BY <1>1, FS_AddElement DEF EventInvariant
<1>3. PlacedAreNumbered'
  BY <1>1 DEF PlacedAreNumbered, EventInvariant
<1>4. CompletionsAreOfRows'
  <2>1. Filed(m, s, prev)
    BY PatchStepFiles DEF EventInvariant, SeriesInvariant
  <2>2. s \in SeriesIds' /\ SeriesIds \subseteq SeriesIds'
    BY <2>1 DEF Filed
  <2>3. ASSUME NEW e \in events', e.category = "series-completed"
        PROVE  e.series \in SeriesIds'
    <3>1. e \in SeriesCompletions(e.series)'
      BY <2>3 DEF SeriesCompletions
    <3>2. \/ e \in SeriesCompletions(e.series)
          \/ e \in SeriesCompletedEvents(m, s, row, PatchesIn(s)')
      BY <3>1, PatchStepEvents
    <3>3. CASE e \in SeriesCompletions(e.series)
      BY <2>2, <3>3 DEF SeriesCompletions, EventInvariant, CompletionsAreOfRows
    <3>4. CASE e \in SeriesCompletedEvents(m, s, row, PatchesIn(s)')
      BY <2>2, <3>4 DEF SeriesCompletedEvents, EventOf
    <3> QED BY <3>2, <3>3, <3>4
  <2>4. ASSUME NEW e \in events', e.category = "patch-completed"
        PROVE  e.row \in patches' /\ inSeries'[e.row] # 0
    <3>1. e \in Emitted("patch-completed", e.row)'
      BY <2>4 DEF Emitted
    <3>2. \/ e \in Emitted("patch-completed", e.row)
          \/ e \in PatchCompletedEvents(m, s, PatchesIn(s)')
      BY <3>1, PatchStepEvents
    <3>3. CASE e \in Emitted("patch-completed", e.row)
      BY <1>1, <3>3 DEF Emitted, EventInvariant, CompletionsAreOfRows
    <3>4. CASE e \in PatchCompletedEvents(m, s, PatchesIn(s)')
      <4>1. Number(m) # 0
        BY <3>4 DEF PatchCompletedEvents
      <4>2. PICK q \in Completes(m, Number(m), PatchesIn(s)') :
              e = EventOf("patch-completed", q, s, m)
        BY <3>4, <4>1 DEF PatchCompletedEvents
      <4>3. inSeries'[m] # 0
        <5>1. Number(m) \in Nat /\ s # 0
          BY NumberType, LenProperties DEF EventInvariant, SeriesInvariant, TypeOK
        <5> QED BY <1>1, <4>1, <5>1
      <4>4. \A r \in PatchesIn(s)' : r \in patches' /\ inSeries'[r] = s
        BY DEF PatchesIn
      <4>5. q = m \/ q \in PatchesIn(s)'
        BY DEF Completes
      <4>6. s # 0
        BY LenProperties DEF EventInvariant, SeriesInvariant, TypeOK
      <4>7. e.row = q
        BY <4>2 DEF EventOf
      <4> QED BY <1>1, <4>3, <4>4, <4>5, <4>6, <4>7
    <3> QED BY <3>2, <3>3, <3>4
  <2> QED BY <2>3, <2>4 DEF CompletionsAreOfRows
<1>5. PatchCompletedExactlyOnce'
  BY <1>3, PatchStepCompletesPatches
<1>6. SeriesCompletedWhenAllArrived'
  BY <1>2, PatchStepCompletesSeries DEF SeriesInvariant
<1> QED BY <1>2, <1>3, <1>4, <1>5, <1>6 DEF EventInvariant

(***************************************************************************)
(* The other steps, and the theorems.                                      *)
(***************************************************************************)

\* A cover letter keeps the invariant: it announces no completion.
LEMMA CoverStepEventInvariant ==
  ASSUME EventInvariant, SeriesInvariant', NEW m \in Mails,
         NEW s \in 1..(Len(series) + 1), NEW row \in Series,
         NEW deps \in SUBSET Nat, NEW prev \in Nat,
         CoverStep(m, s, row, deps, prev)
  PROVE  EventInvariant'
<1>1. Filed(m, s, prev)
  BY CoverStepFiles DEF EventInvariant, SeriesInvariant
<1>2. SeriesIds' = SeriesIds \cup {s}
  BY <1>1 DEF Filed
<1>3. \A t \in SeriesIds : series'[t].total = series[t].total
  BY <1>1 DEF Filed, SameIdentity
<1>4. \A t \in SeriesIds' \ SeriesIds : t \notin 0..Len(series)
  BY <1>2, LenProperties DEF EventInvariant, SeriesInvariant, TypeOK, SeriesIds
<1>5. SameEvents("patch-completed") /\ SameEvents("series-completed")
  <2>1. \A e \in SeriesCreatedEvents(m, s) : e.category = "series-created"
    BY DEF SeriesCreatedEvents, EventOf
  <2>2. EventOf("cover-created", m, 0, m).category = "cover-created"
    BY DEF EventOf
  <2>3. events' = events \cup SeriesCreatedEvents(m, s)
                    \cup {EventOf("cover-created", m, 0, m)}
    BY DEF CoverStep
  <2> QED BY <2>1, <2>2, <2>3 DEF SameEvents
<1>6. UNCHANGED <<patches, inSeries>>
  BY DEF CoverStep
<1> QED BY <1>2, <1>3, <1>4, <1>5, <1>6, OtherStepsKeepEvents

\* A comment keeps the invariant.
LEMMA CommentEventInvariant ==
  ASSUME EventInvariant, SeriesInvariant', NEW m \in Mails,
         CommentOnPatch(m) \/ CommentOnCover(m)
  PROVE  EventInvariant'
<1>1. UNCHANGED <<series, patches, inSeries>>
  BY DEF CommentOnPatch, CommentOnCover
<1>2. \E category \in {"patch-comment-created", "cover-comment-created"} : \E row :
        events' = events \cup {EventOf(category, row, 0, m)}
  BY DEF CommentOnPatch, CommentOnCover
<1>3. SameEvents("patch-completed") /\ SameEvents("series-completed")
  BY <1>2 DEF SameEvents, EventOf
<1> QED BY <1>1, <1>3, OtherStepsKeepEvents DEF SeriesIds

\* The invariant holds initially and is kept by every step.
LEMMA EventInvariantHolds == Spec => []EventInvariant
<1>1. Init => EventInvariant
  <2> SUFFICES ASSUME Init PROVE EventInvariant
    OBVIOUS
  <2>1. SeriesInvariant /\ SeriesIds = {}
    BY SeriesInvariantInit, Len(<<>>) = 0, EmptySeq DEF Init, SeriesIds
  <2> QED BY <2>1, FS_EmptySet
          DEF Init, EventInvariant, PlacedAreNumbered, CompletionsAreOfRows,
              PatchCompletedExactlyOnce, SeriesCompletedWhenAllArrived
<1>2. SeriesInvariant /\ SeriesInvariant' /\ EventInvariant /\ [Next]_vars
        => EventInvariant'
  <2> SUFFICES ASSUME SeriesInvariant, SeriesInvariant', EventInvariant, [Next]_vars
               PROVE  EventInvariant'
    OBVIOUS
  <2>1. TypeOK
    BY DEF SeriesInvariant
  <2>2. ASSUME NEW m \in Mails, HandlePatch(m) PROVE EventInvariant'
    BY <2>1, <2>2, HandlePatchStep, PatchStepEventInvariant
  <2>3. ASSUME NEW m \in Mails, HandleCoverLetter(m) PROVE EventInvariant'
    BY <2>1, <2>3, HandleCoverLetterStep, CoverStepEventInvariant
  <2>4. ASSUME NEW m \in Mails, CommentOnPatch(m) \/ CommentOnCover(m)
        PROVE  EventInvariant'
    BY <2>4, CommentEventInvariant
  <2>5. CASE UNCHANGED vars
    BY <2>5, OtherStepsKeepEvents DEF vars, SeriesIds, SameEvents
  <2> QED BY <2>2, <2>3, <2>4, <2>5 DEF Next, ParseMail
<1> QED BY <1>1, <1>2, SeriesInvariantHolds, PTL DEF Spec

\* patch-completed is emitted exactly once for each patch of a series, when the
\* last of its predecessors is there, for series of any length and mails in any
\* order, late, repeated or lost.
THEOREM PatchesCompleteOnce == Spec => []PatchCompletedExactlyOnce
<1>1. EventInvariant => PatchCompletedExactlyOnce
  BY DEF EventInvariant
<1> QED BY <1>1, EventInvariantHolds, PTL

\* series-completed has been emitted exactly for the series all of whose
\* patches have arrived.
THEOREM SeriesCompletionsAreRight == Spec => []SeriesCompletedWhenAllArrived
<1>1. EventInvariant => SeriesCompletedWhenAllArrived
  BY DEF EventInvariant
<1> QED BY <1>1, EventInvariantHolds, PTL

(***************************************************************************)
(* Tags.                                                                   *)
(***************************************************************************)

\* Tags are counted for every mail; only patches have comments.
TagInvariant ==
  /\ TypeOK
  /\ \A c \in patchComments : c.on \in patches
  /\ \A p \in Mails : tagged[p] = CommentsOn(p)

\* A patch is commented by what its transaction refers to.
LEMMA CommentTargetStored ==
  ASSUME NEW rows, NEW comments, \A c \in comments : c.on \in rows,
         NEW m, NEW row \in CommentTarget(rows, comments, m)
  PROVE  row \in rows
<1>1. \A ref : Target(rows, comments, m, ref) \subseteq rows
  BY DEF Target
<1> QED BY <1>1 DEF CommentTarget

\* Every step keeps the tags of every patch those of its comments.
LEMMA TagStep ==
  ASSUME TagInvariant, TypeOK', [Next]_vars
  PROVE  TagInvariant'
<1> USE DEF TagInvariant
<1>1. ASSUME patches \subseteq patches', UNCHANGED <<patchComments, tagged>>
      PROVE  TagInvariant'
  BY <1>1 DEF CommentsOn
<1>2. ASSUME NEW m \in Mails, HandlePatch(m) PROVE TagInvariant'
  BY <1>1, <1>2 DEF HandlePatch
<1>3. ASSUME NEW m \in Mails, HandleCoverLetter(m) PROVE TagInvariant'
  BY <1>1, <1>3 DEF HandleCoverLetter
<1>4. ASSUME NEW m \in Mails, CommentOnPatch(m) PROVE TagInvariant'
  <2>1. PICK p \in CommentTarget(patches, patchComments, m) :
          /\ patchComments' = patchComments \cup {[comment |-> m, on |-> p]}
          /\ tagged' = [tagged EXCEPT ![p] = CommentsOn(p)']
    BY <1>4 DEF CommentOnPatch
  <2>2. p \in patches /\ patches' = patches
    BY <1>4, <2>1, CommentTargetStored DEF CommentOnPatch
  <2>3. \A c \in patchComments' : c.on \in patches'
    BY <2>1, <2>2
  <2>4. \A q \in Mails \ {p} : CommentsOn(q)' = CommentsOn(q)
    BY <2>1 DEF CommentsOn
  <2>5. \A q \in Mails : tagged'[q] = CommentsOn(q)'
    BY <2>1, <2>4 DEF TypeOK
  <2> QED BY <2>3, <2>5
<1>5. ASSUME NEW m \in Mails, CommentOnCover(m) PROVE TagInvariant'
  BY <1>1, <1>5 DEF CommentOnCover
<1>6. CASE UNCHANGED vars
  BY <1>1, <1>6 DEF vars
<1> QED BY <1>2, <1>3, <1>4, <1>5, <1>6 DEF Next, ParseMail

\* The tags of a patch are always those of all its comments.
THEOREM TagsAreComplete == Spec => []TagsCountEveryComment
<1>1. Init => TagInvariant
  BY TypeInit DEF Init, TagInvariant, CommentsOn
<1>2. TypeOK /\ TypeOK' /\ TagInvariant /\ [Next]_vars => TagInvariant'
  BY TagStep
<1>3. TagInvariant => TagsCountEveryComment
  BY DEF TagInvariant, TagsCountEveryComment, TypeOK
<1> QED BY <1>1, <1>2, <1>3, TypeCorrect, PTL DEF Spec
=============================================================================
