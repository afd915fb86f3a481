----------------------------- MODULE OverlapProofs -----------------------------
(***************************************************************************)
(* Proofs about overlapping transactions of ingestion: no completion is    *)
(* announced by two of them, and of one person's mails no two open a       *)
(* series each for want of seeing the other, and no completion is missed,  *)
(* whatever the number of patches, senders and references.                 *)
(***************************************************************************)
EXTENDS Overlap, FiniteSetTheorems, TLAPS

\* What the constants stand for: patches of a mailing with numbers within its
\* total, and its cover letter.
Mailing ==
  /\ IsFiniteSet(Mails)
  /\ Cover \notin Mails
  /\ None \notin Ids
  /\ Total \in Nat \ {0}
  /\ Number \in [Mails -> 1..Total]
  /\ Refs \in [Mails -> Seq(Ids)]

(***************************************************************************)
(* Types.                                                                  *)
(***************************************************************************)

\* What a transaction has done by the state it is in.
Progress ==
  \A m \in Mails :
    /\ pc[m] \in {"queued", "finding"} => filed[m] = 0
    /\ pc[m] \notin {"queued", "finding"} => series[m] \in Ids
    /\ pc[m] = "filing" => filed[m] < Len(AllRefs(m))

Typed == OverlapTypeOK /\ Progress

LEMMA AllRefsType ==
  ASSUME Mailing, NEW m \in Mails
  PROVE  AllRefs(m) \in Seq(Ids) /\ Len(AllRefs(m)) \in Nat \ {0}
<1>1. <<m>> \in Seq(Ids) /\ Len(<<m>>) = 1 /\ Refs[m] \in Seq(Ids)
  BY DEF Mailing, Ids
<1>2. AllRefs(m) \in Seq(Ids) /\ Len(AllRefs(m)) = 1 + Len(Refs[m])
  BY <1>1 DEF AllRefs
<1> QED BY <1>1, <1>2

LEMMA TypeInit == ASSUME Mailing, OverlapInit PROVE Typed
<1> PICK cover \in {None, Cover} :
      /\ pc = [n \in Ids |-> IF n = cover THEN "done" ELSE "queued"]
      /\ series = [n \in Ids |-> IF n = cover THEN Cover ELSE None]
      /\ reference = [id \in Ids |-> IF id = cover THEN [series |-> Cover, by |-> Cover]
                                     ELSE None]
      /\ filed = [m \in Mails |-> 0]
      /\ events = [m \in Mails |-> {}]
  BY DEF OverlapInit
<1>1. Cover \in Ids /\ Mails \subseteq Ids
  BY DEF Ids
<1>2. OverlapTypeOK
  BY <1>1 DEF OverlapTypeOK
<1>3. Progress
  <2> SUFFICES ASSUME NEW m \in Mails PROVE pc[m] = "queued" /\ filed[m] = 0
    BY DEF Progress
  <2> QED BY <1>1 DEF Mailing
<1> QED BY <1>2, <1>3 DEF Typed

LEMMA TypeStep ==
  ASSUME Mailing, Typed, NEW m \in Mails, ParseMail(m)
  PROVE  Typed'
<1> USE DEF Typed
<1>1. Mails \subseteq Ids /\ m \in Ids
  BY DEF Ids
<1>2. AllRefs(m) \in Seq(Ids) /\ Len(AllRefs(m)) \in Nat \ {0}
  BY AllRefsType
<1>3. CASE GetOrCreatePerson(m)
  BY <1>1, <1>3 DEF GetOrCreatePerson, OverlapTypeOK, Progress, AllRefs
<1>4. CASE FindSeries(m)
  <2>1. PICK s \in Ids : series' = [series EXCEPT ![m] = s]
    BY <1>1, <1>4, Zenon DEF FindSeries
  <2>2. /\ pc[m] = "finding" /\ pc' = [pc EXCEPT ![m] = "filing"]
        /\ UNCHANGED <<reference, filed, events>>
    BY <1>4 DEF FindSeries
  <2>3. OverlapTypeOK'
    BY <1>1, <2>1, <2>2 DEF OverlapTypeOK
  <2>4. Progress'
    BY <1>1, <1>2, <2>1, <2>2 DEF OverlapTypeOK, Progress, AllRefs
  <2> QED BY <2>3, <2>4
<1>5. CASE CreateSeriesReference(m)
  <2> DEFINE id == AllRefs(m)[filed[m] + 1]
  <2>1. /\ filed[m] \in Nat /\ filed[m] < Len(AllRefs(m)) /\ series[m] \in Ids
        /\ pc[m] = "filing"
    BY <1>5 DEF CreateSeriesReference, OverlapTypeOK, Progress
  <2>2. id \in Ids
    BY <1>2, <2>1
  <2>3. reference' \in [Ids -> [series: Ids, by: Ids] \cup {None}]
    BY <1>1, <1>5, <2>1, <2>2 DEF CreateSeriesReference, OverlapTypeOK
  <2>4. /\ filed' = [filed EXCEPT ![m] = @ + 1]
        /\ pc' = IF filed'[m] = Len(AllRefs(m)) THEN [pc EXCEPT ![m] = "placing"] ELSE pc
        /\ UNCHANGED <<series, events>>
    BY <1>5 DEF CreateSeriesReference
  <2>5. OverlapTypeOK'
    BY <1>1, <2>3, <2>4 DEF OverlapTypeOK
  <2>6. Progress'
    BY <1>1, <1>2, <2>1, <2>4 DEF OverlapTypeOK, Progress, AllRefs
  <2> QED BY <2>5, <2>6
<1>6. CASE UpdatePatchSeries(m)
  BY <1>1, <1>6 DEF UpdatePatchSeries, OverlapTypeOK, Progress, AllRefs
<1>7. CASE \/ CountPredecessorPatches(m) \/ GetSuccessorPatches(m)
           \/ CountPatchesInSeries(m)
  <2>1. /\ pc[m] \in {"counting", "following", "closing"}
        /\ \E at \in {"following", "closing", "committing"} : pc' = [pc EXCEPT ![m] = at]
        /\ UNCHANGED <<series, reference, filed>>
    BY <1>7 DEF CountPredecessorPatches, GetSuccessorPatches, CountPatchesInSeries
  <2>2. series[m] \in Ids
    BY <2>1 DEF Progress
  <2>3. PICK new \in SUBSET Event : events' = [events EXCEPT ![m] = @ \cup new] \/ events' = events
    <3>1. CASE CountPredecessorPatches(m)
      <4>1. {<<"patch-completed", m>>} \in SUBSET Event
        BY DEF Event
      <4>2. \/ events' = [events EXCEPT ![m] = @ \cup {<<"patch-completed", m>>}]
            \/ events' = events
        BY <3>1 DEF CountPredecessorPatches, Queue
      <4> QED BY <4>1, <4>2
    <3>2. CASE GetSuccessorPatches(m)
      <4>1. \E T \in SUBSET Mails :
              events' = [events EXCEPT ![m] = @ \cup {<<"patch-completed", n>> : n \in T}]
        <5> DEFINE T == {n \in Seen(m, series[m]) :
                           Number[n] > Number[m]
                             /\ Number[m]..Number[n] \subseteq {Number[q] : q \in Seen(m, series[m])}}
        <5>1. T \in SUBSET Mails
          BY DEF Seen
        <5>2. events' = [events EXCEPT ![m] = @ \cup {<<"patch-completed", n>> : n \in T}]
          BY <3>2, Zenon DEF GetSuccessorPatches, Queue
        <5> HIDE DEF T
        <5> QED BY <5>1, <5>2
      <4>2. PICK T \in SUBSET Mails :
              events' = [events EXCEPT ![m] = @ \cup {<<"patch-completed", n>> : n \in T}]
        BY <4>1
      <4>3. {<<"patch-completed", n>> : n \in T} \in SUBSET Event
        BY DEF Event
      <4> QED BY <4>2, <4>3
    <3>3. CASE CountPatchesInSeries(m)
      <4>1. {<<"series-completed", series[m]>>} \in SUBSET Event
        BY <2>2 DEF Event
      <4>2. \/ events' = [events EXCEPT ![m] = @ \cup {<<"series-completed", series[m]>>}]
            \/ events' = events
        BY <3>3 DEF CountPatchesInSeries, Queue
      <4> QED BY <4>1, <4>2
    <3> QED BY <1>7, <3>1, <3>2, <3>3
  <2>4. OverlapTypeOK'
    BY <1>1, <2>1, <2>3 DEF OverlapTypeOK
  <2>5. Progress'
    BY <1>1, <2>1 DEF OverlapTypeOK, Progress, AllRefs
  <2> QED BY <2>4, <2>5
<1>8. CASE Commit(m)
  BY <1>1, <1>8 DEF Commit, OverlapTypeOK, Progress, AllRefs
<1>9. CASE Rollback(m)
  <2>1. OverlapTypeOK'
    BY <1>1, <1>9 DEF Rollback, OverlapTypeOK
  <2>2. Progress'
    BY <1>1, <1>9 DEF Rollback, OverlapTypeOK, Progress, AllRefs
  <2> QED BY <2>1, <2>2
<1> QED BY <1>3, <1>4, <1>5, <1>6, <1>7, <1>8, <1>9 DEF ParseMail

(***************************************************************************)
(* The inductive invariant.                                                *)
(***************************************************************************)

\* The transaction of a patch has announced what it closes; or all it does.
Counted(m) == pc[m] \in {"closing", "committing", "done"}
Closed(m)  == pc[m] \in {"committing", "done"}

\* The unique key on series and number.
PlacesDistinct ==
  \A m, n \in Mails :
    Placed(m) /\ Placed(n) /\ series[m] = series[n] /\ Number[m] = Number[n] => m = n

\* The lock on a sender's row.
SendersApart ==
  \A m, n \in Mails : Open(m) /\ Open(n) /\ Sender[m] = Sender[n] => m = n

\* m sees the patch numbered k of its series.
Sees(m, k) == \E n \in Seen(m, series[m]) : Number[n] = k

\* What a transaction announces it saw: what was committed or its own, for ever.
SawAll ==
  \A m \in Mails :
    /\ events[m] # {} => Placed(m)
    /\ \A s \in Ids : <<"series-completed", s>> \in events[m]
         => s = series[m] /\ \A k \in 1..Total : Sees(m, k)
    /\ \A x \in Mails : <<"patch-completed", x>> \in events[m]
         => /\ x \in Seen(m, series[m])
            /\ Number[m] <= Number[x]
            /\ \A k \in 1..Number[x] : Sees(m, k)
    /\ pc[m] = "following" => <<"patch-completed", m>> \in events[m]

NotTwice == \A m, n \in Mails : \A e \in events[m] : e \in events[n] => m = n

\* u alone has sent the patches of s up to the one numbered top, and they have
\* announced what they close.
SentAndCounted(u, s, top) ==
  \A k \in 1..top : \E n \in Mails :
    Sender[n] = u /\ series[n] = s /\ Counted(n) /\ Number[n] = k

SentAndClosed(u, s) ==
  \A k \in 1..Total : \E n \in Mails :
    Sender[n] = u /\ series[n] = s /\ Closed(n) /\ Number[n] = k

PatchesTold ==
  \A x \in Mails :
    Counted(x) /\ SentAndCounted(Sender[x], series[x], Number[x])
      => \E m \in Mails : /\ Sender[m] = Sender[x] /\ Counted(m)
                          /\ <<"patch-completed", x>> \in events[m]

SeriesTold ==
  \A q \in Mails, s \in Ids :
    SentAndClosed(Sender[q], s)
      => \E m \in Mails : /\ Sender[m] = Sender[q] /\ Closed(m)
                          /\ <<"series-completed", s>> \in events[m]

OverlapInvariant ==
  /\ Typed /\ PlacesDistinct /\ SendersApart /\ SawAll /\ NotTwice
  /\ PatchesTold /\ SeriesTold

(***************************************************************************)
(* Steps that announce nothing: the transactions stay where they are, or   *)
(* one goes on before it has a place, takes it, or commits.                *)
(***************************************************************************)

Stages == {"queued", "finding", "filing", "placing", "counting", "following",
           "closing", "committing", "done"}

LEMMA QuietStep ==
  ASSUME Mailing, OverlapInvariant, Typed', NEW m \in Mails,
         UNCHANGED events,
         \A n \in Mails : Placed(n) => series'[n] = series[n],
         \A n \in Mails : n # m => pc'[n] = pc[n],
         Placed(m) => Placed(m)',
         pc[m] = "done" => pc'[m] = "done",
         pc'[m] = "following" => pc[m] = "following",
         Counted(m)' <=> Counted(m), Closed(m)' <=> Closed(m),
         PlacesDistinct', SendersApart'
  PROVE  OverlapInvariant'
<1> USE DEF OverlapInvariant
<1>1. \A n, q \in Mails : Placed(n) => (q \in Seen(n, series[n]) => q \in Seen(n, series[n])')
  BY DEF Seen, Visible, Placed
<1>2. SawAll'
  <2> SUFFICES ASSUME NEW n \in Mails
               PROVE  /\ events[n] # {} => Placed(n)'
                      /\ \A s \in Ids : <<"series-completed", s>> \in events[n]
                           => s = series'[n] /\ \A k \in 1..Total : Sees(n, k)'
                      /\ \A x \in Mails : <<"patch-completed", x>> \in events[n]
                           => /\ x \in Seen(n, series[n])'
                              /\ Number[n] <= Number[x]
                              /\ \A k \in 1..Number[x] : Sees(n, k)'
                      /\ pc'[n] = "following" => <<"patch-completed", n>> \in events[n]
    BY DEF SawAll
  <2>1. CASE Placed(n)
    <3>1. \A k : Sees(n, k) => Sees(n, k)'
      BY <1>1, <2>1 DEF Sees, Seen
    <3>2. Placed(n)' /\ series'[n] = series[n]
      BY <2>1 DEF Placed
    <3>3. pc'[n] = "following" => pc[n] = "following"
      OBVIOUS
    <3> QED BY <1>1, <2>1, <3>1, <3>2, <3>3 DEF SawAll
  <2>2. CASE ~Placed(n)
    <3>1. events[n] = {} /\ pc[n] # "following"
      BY <2>2 DEF SawAll, Placed
    <3> QED BY <3>1
  <2> QED BY <2>1, <2>2
<1>3. \A n \in Mails : /\ Counted(n)' <=> Counted(n)
                       /\ Closed(n)' <=> Closed(n)
  BY DEF Counted, Closed
<1>4. \A n \in Mails : Counted(n) \/ Closed(n) => series'[n] = series[n]
  BY DEF Counted, Closed, Placed
<1>5. PatchesTold'
  BY <1>3, <1>4 DEF PatchesTold, SentAndCounted
<1>6. SeriesTold'
  <2>1. \A q \in Mails, s \in Ids : SentAndClosed(Sender[q], s)' => SentAndClosed(Sender[q], s)
    BY <1>3, <1>4 DEF SentAndClosed
  <2> QED BY <1>3, <2>1 DEF SeriesTold
<1>7. NotTwice'
  BY DEF NotTwice
<1> QED BY <1>2, <1>5, <1>6, <1>7

LEMMA OpenStaysApart ==
  ASSUME SendersApart, Typed, Typed', NEW m \in Mails, Open(m),
         \A n \in Mails : n # m => pc'[n] = pc[n]
  PROVE  SendersApart'
BY DEF SendersApart, Open

LEMMA QuietSteps ==
  ASSUME Mailing, OverlapInvariant, Typed', NEW m \in Mails,
         \/ GetOrCreatePerson(m) \/ FindSeries(m) \/ CreateSeriesReference(m)
         \/ UpdatePatchSeries(m) \/ Commit(m)
  PROVE  OverlapInvariant'
<1> USE DEF OverlapInvariant
<1>1. Mails \subseteq Ids /\ m \in Ids
  BY DEF Ids
<1>2. CASE GetOrCreatePerson(m)
  <2>1. /\ pc[m] = "queued" /\ pc' = [pc EXCEPT ![m] = "finding"]
        /\ \A n \in Mails : Open(n) => Sender[n] # Sender[m]
        /\ UNCHANGED <<series, events>>
    BY <1>2 DEF GetOrCreatePerson
  <2>2. pc'[m] = "finding" /\ \A n \in Mails : n # m => pc'[n] = pc[n]
    BY <1>1, <2>1 DEF Typed, OverlapTypeOK
  <2>3. SendersApart'
    BY <2>1, <2>2 DEF SendersApart, Open
  <2>4. PlacesDistinct'
    BY <2>1, <2>2 DEF PlacesDistinct, Placed
  <2> QED BY <2>1, <2>2, <2>3, <2>4, QuietStep DEF Placed, Counted, Closed
<1>3. CASE FindSeries(m)
  <2>1. /\ pc[m] = "finding" /\ pc' = [pc EXCEPT ![m] = "filing"]
        /\ \E s : series' = [series EXCEPT ![m] = s]
        /\ UNCHANGED events
    BY <1>3, Zenon DEF FindSeries
  <2>2. /\ pc'[m] = "filing"
        /\ \A n \in Mails : n # m => pc'[n] = pc[n] /\ series'[n] = series[n]
    BY <1>1, <2>1 DEF Typed, OverlapTypeOK
  <2>3. SendersApart'
    BY <2>1, <2>2, OpenStaysApart DEF Open
  <2>4. PlacesDistinct'
    BY <2>1, <2>2 DEF PlacesDistinct, Placed
  <2> QED BY <2>1, <2>2, <2>3, <2>4, QuietStep DEF Placed, Counted, Closed
<1>4. CASE CreateSeriesReference(m)
  <2>1. /\ pc[m] = "filing"
        /\ pc' = [pc EXCEPT ![m] = "placing"] \/ pc' = pc
        /\ UNCHANGED <<series, events>>
    BY <1>4 DEF CreateSeriesReference
  <2>2. pc'[m] \in {"filing", "placing"} /\ \A n \in Mails : n # m => pc'[n] = pc[n]
    BY <1>1, <2>1 DEF Typed, OverlapTypeOK
  <2>3. SendersApart'
    BY <2>1, <2>2, OpenStaysApart DEF Open
  <2>4. PlacesDistinct'
    BY <2>1, <2>2 DEF PlacesDistinct, Placed
  <2> QED BY <2>1, <2>2, <2>3, <2>4, QuietStep DEF Placed, Counted, Closed
<1>5. CASE UpdatePatchSeries(m)
  <2>1. /\ pc[m] = "placing" /\ pc' = [pc EXCEPT ![m] = "counting"]
        /\ \A n \in Mails :
             Placed(n) /\ series[n] = series[m] => Number[n] # Number[m]
        /\ UNCHANGED <<series, events>>
    BY <1>5 DEF UpdatePatchSeries
  <2>2. pc'[m] = "counting" /\ \A n \in Mails : n # m => pc'[n] = pc[n]
    BY <1>1, <2>1 DEF Typed, OverlapTypeOK
  <2>3. SendersApart'
    BY <2>1, <2>2, OpenStaysApart DEF Open
  <2>4. PlacesDistinct'
    BY <2>1, <2>2 DEF PlacesDistinct, Placed
  <2> QED BY <2>1, <2>2, <2>3, <2>4, QuietStep DEF Placed, Counted, Closed
<1>6. CASE Commit(m)
  <2>1. /\ pc[m] = "committing" /\ pc' = [pc EXCEPT ![m] = "done"]
        /\ UNCHANGED <<series, events>>
    BY <1>6 DEF Commit
  <2>2. pc'[m] = "done" /\ \A n \in Mails : n # m => pc'[n] = pc[n]
    BY <1>1, <2>1 DEF Typed, OverlapTypeOK
  <2>3. SendersApart'
    BY <2>1, <2>2, OpenStaysApart DEF Open
  <2>4. PlacesDistinct'
    BY <2>1, <2>2 DEF PlacesDistinct, Placed
  <2> QED BY <2>1, <2>2, <2>3, <2>4, QuietStep DEF Placed, Counted, Closed
<1> QED BY <1>2, <1>3, <1>4, <1>5, <1>6

(***************************************************************************)
(* Steps that announce.  What m closes has been announced by no other      *)
(* transaction, since that one saw m's place filled by a patch it could    *)
(* see, and m is still open.                                               *)
(***************************************************************************)

LEMMA NotYetTold ==
  ASSUME Mailing, PlacesDistinct, SawAll, NEW m \in Mails, Placed(m), pc[m] # "done",
         series[m] \in Ids, NEW n \in Mails, n # m
  PROVE  /\ <<"series-completed", series[m]>> \notin events[n]
         /\ \A x \in Seen(m, series[m]) :
              Number[m] <= Number[x] => <<"patch-completed", x>> \notin events[n]
<1>1. Number[m] \in 1..Total
  BY DEF Mailing
<1>2. ~(series[n] = series[m] /\ Sees(n, Number[m]))
  BY DEF Sees, Seen, Visible, PlacesDistinct
<1>3. <<"series-completed", series[m]>> \notin events[n]
  BY <1>1, <1>2 DEF SawAll
<1>4. ASSUME NEW x \in Seen(m, series[m]), Number[m] <= Number[x]
      PROVE  <<"patch-completed", x>> \notin events[n]
  <2>1. x \in Mails /\ series[x] = series[m] /\ Number[m] \in 1..Number[x]
    BY <1>1, <1>4 DEF Seen, Mailing
  <2>2. <<"patch-completed", x>> \in events[n]
          => series[x] = series[n] /\ Sees(n, Number[m])
    BY <2>1 DEF SawAll, Seen
  <2> QED BY <1>2, <2>1, <2>2
<1> QED BY <1>3, <1>4

\* What such a step leaves alone.
Announces(m, at, new) ==
  /\ pc[m] \in {"counting", "following", "closing"}
  /\ at \in {"following", "closing", "committing"}
  /\ pc' = [pc EXCEPT ![m] = at]
  /\ events' = [events EXCEPT ![m] = @ \cup new]
  /\ UNCHANGED <<series, reference, filed>>

LEMMA AnnounceStep ==
  ASSUME Mailing, OverlapInvariant, Typed', NEW m \in Mails, NEW at, NEW new,
         Announces(m, at, new),
         \A e \in new : \A n \in Mails : n # m => e \notin events[n],
         at = "following" => <<"patch-completed", m>> \in events'[m],
         \A s \in Ids : <<"series-completed", s>> \in new
           => s = series[m] /\ \A k \in 1..Total : Sees(m, k),
         \A x \in Mails : <<"patch-completed", x>> \in new
           => /\ x \in Seen(m, series[m])
              /\ Number[m] <= Number[x]
              /\ \A k \in 1..Number[x] : Sees(m, k)
  PROVE  /\ PlacesDistinct' /\ SendersApart' /\ SawAll' /\ NotTwice'
         /\ pc'[m] = at /\ \A n \in Mails : n # m => pc'[n] = pc[n]
         /\ events'[m] = events[m] \cup new
         /\ \A n \in Mails : n # m => events'[n] = events[n]
<1> USE DEF OverlapInvariant
<1>1. Mails \subseteq Ids /\ m \in Ids
  BY DEF Ids
<1>2. /\ pc[m] \in {"counting", "following", "closing"}
      /\ at \in {"following", "closing", "committing"}
      /\ pc'[m] = at /\ \A n \in Mails : n # m => pc'[n] = pc[n]
      /\ events'[m] = events[m] \cup new
      /\ \A n \in Mails : n # m => events'[n] = events[n]
      /\ series' = series
  BY <1>1 DEF Announces, Typed, OverlapTypeOK
<1>3. PlacesDistinct'
  BY <1>2 DEF PlacesDistinct, Placed
<1>4. SendersApart'
  BY <1>2, OpenStaysApart DEF Open
<1>5. \A n \in Mails : Placed(n)' <=> Placed(n)
  BY <1>2 DEF Placed
<1>6. \A n \in Mails : Seen(n, series[n])' = Seen(n, series[n])
  BY <1>2, <1>5 DEF Seen, Visible
<1>7. \A n \in Mails : \A k : Sees(n, k)' <=> Sees(n, k)
  BY <1>2, <1>6 DEF Sees
<1>8. SawAll'
  <2>0. ASSUME \A n \in Mails :
                 /\ events'[n] # {} => Placed(n)'
                 /\ \A s \in Ids : <<"series-completed", s>> \in events'[n]
                      => s = series[n] /\ \A k \in 1..Total : Sees(n, k)
                 /\ \A x \in Mails : <<"patch-completed", x>> \in events'[n]
                      => /\ x \in Seen(n, series[n])
                         /\ Number[n] <= Number[x]
                         /\ \A k \in 1..Number[x] : Sees(n, k)
                 /\ pc'[n] = "following" => <<"patch-completed", n>> \in events'[n]
        PROVE  SawAll'
    <3> SUFFICES ASSUME NEW n \in Mails
                 PROVE  /\ \A s \in Ids : <<"series-completed", s>> \in events'[n]
                             => s = series'[n] /\ \A k \in 1..Total : Sees(n, k)'
                        /\ \A x \in Mails : <<"patch-completed", x>> \in events'[n]
                             => /\ x \in Seen(n, series[n])'
                                /\ Number[n] <= Number[x]
                                /\ \A k \in 1..Number[x] : Sees(n, k)'
      BY <2>0 DEF SawAll
    <3>1. ASSUME NEW s \in Ids, <<"series-completed", s>> \in events'[n]
          PROVE  s = series'[n] /\ \A k \in 1..Total : Sees(n, k)'
      BY <1>2, <1>7, <2>0, <3>1
    <3>2. ASSUME NEW x \in Mails, <<"patch-completed", x>> \in events'[n]
          PROVE  /\ x \in Seen(n, series[n])'
                 /\ Number[n] <= Number[x]
                 /\ \A k \in 1..Number[x] : Sees(n, k)'
      <4>1. /\ x \in Seen(n, series[n])
            /\ Number[n] <= Number[x]
            /\ \A k \in 1..Number[x] : Sees(n, k)
        BY <2>0, <3>2
      <4> QED BY <1>6, <1>7, <4>1
    <3> QED BY <3>1, <3>2
  <2> SUFFICES ASSUME NEW n \in Mails
               PROVE  /\ events'[n] # {} => Placed(n)'
                      /\ \A s \in Ids : <<"series-completed", s>> \in events'[n]
                           => s = series[n] /\ \A k \in 1..Total : Sees(n, k)
                      /\ \A x \in Mails : <<"patch-completed", x>> \in events'[n]
                           => /\ x \in Seen(n, series[n])
                              /\ Number[n] <= Number[x]
                              /\ \A k \in 1..Number[x] : Sees(n, k)
                      /\ pc'[n] = "following" => <<"patch-completed", n>> \in events'[n]
    BY <2>0
  <2>1. CASE n = m
    <3>1. Placed(m)'
      BY <1>2 DEF Placed
    <3> QED BY <1>2, <2>1, <3>1 DEF SawAll
  <2>2. CASE n # m
    BY <1>2, <1>5, <2>2 DEF SawAll
  <2> QED BY <2>1, <2>2
<1>9. NotTwice'
  BY <1>2 DEF NotTwice
<1> QED BY <1>2, <1>3, <1>4, <1>8, <1>9

\* As many patches as there are numbers are all of them.
LEMMA CountTellsAll ==
  ASSUME NEW S, NEW n \in Nat, \A q \in S : Number[q] \in 1..n,
         \A q, r \in S : Number[q] = Number[r] => q = r
  PROVE  /\ IsFiniteSet(S) /\ Cardinality(S) \in Nat /\ Cardinality(S) <= n
         /\ Cardinality(S) = n <=> \A k \in 1..n : \E q \in S : Number[q] = k
<1> DEFINE f == [q \in S |-> Number[q]]
<1>1. f \in Injection(S, 1..n)
  BY DEF Injection, IsInjective
<1>2. IsFiniteSet(1..n) /\ Cardinality(1..n) = n
  BY FS_Interval
<1>3. /\ IsFiniteSet(S) /\ Cardinality(S) <= n
      /\ Cardinality(S) = n <=> f \in Surjection(S, 1..n)
  BY <1>1, <1>2, FS_Injection
<1>4. f \in Surjection(S, 1..n) <=> \A k \in 1..n : \E q \in S : f[q] = k
  BY <1>1 DEF Surjection, Injection
<1> QED BY <1>3, <1>4, FS_CardinalityType

\* Placed patches of one series are told apart by their numbers.
LEMMA SeenAreNumbered ==
  ASSUME Mailing, PlacesDistinct, NEW m \in Mails, Placed(m)
  PROVE  /\ m \in Seen(m, series[m])
         /\ \A q \in Seen(m, series[m]) : q \in Mails /\ Number[q] \in 1..Total
         /\ \A q, r \in Seen(m, series[m]) : Number[q] = Number[r] => q = r
BY DEF Seen, Visible, PlacesDistinct, Mailing

\* While m is open, it sees what its sender has sent.
LEMMA SameSenderSeen ==
  ASSUME SendersApart, NEW m \in Mails, Open(m), Placed(m), NEW n \in Mails, Placed(n),
         Sender[n] = Sender[m], series[n] = series[m]
  PROVE  n \in Seen(m, series[m])
BY DEF SendersApart, Seen, Visible, Open, Placed

LEMMA PatchesToldStep ==
  ASSUME Mailing, OverlapInvariant, NEW m \in Mails, NEW new, Placed(m), Open(m),
         pc'[m] = "closing" /\ \A n \in Mails : n # m => pc'[n] = pc[n],
         events'[m] = events[m] \cup new,
         \A n \in Mails : n # m => events'[n] = events[n],
         series' = series,
         \A x \in Seen(m, series[m]) :
           Number[m] <= Number[x] /\ (\A k \in 1..Number[x] : Sees(m, k))
             => <<"patch-completed", x>> \in events'[m]
  PROVE  PatchesTold'
<1> SUFFICES ASSUME NEW x \in Mails, Counted(x)',
                    SentAndCounted(Sender[x], series[x], Number[x])'
             PROVE  \E n \in Mails : /\ Sender[n] = Sender[x] /\ Counted(n)'
                                     /\ <<"patch-completed", x>> \in events'[n]
  BY DEF PatchesTold
<1>1. Counted(m)' /\ \A n \in Mails : n # m => (Counted(n)' <=> Counted(n))
  BY DEF Counted
<1>2. ASSUME NEW k \in 1..Number[x]
      PROVE  \E n \in Mails : /\ Sender[n] = Sender[x] /\ series[n] = series[x]
                              /\ Counted(n)' /\ Number[n] = k
  BY DEF SentAndCounted
<1>3. CASE Sender[x] = Sender[m] /\ series[x] = series[m] /\ Number[m] <= Number[x]
  <2>1. \A n \in Mails : Counted(n)' => Placed(n)
    BY <1>1 DEF Counted, Placed
  <2>2. \A n \in Mails :
          Counted(n)' /\ Sender[n] = Sender[m] /\ series[n] = series[m]
            => n \in Seen(m, series[m])
    BY <2>1, SameSenderSeen DEF OverlapInvariant
  <2>3. ASSUME NEW k \in 1..Number[x] PROVE Sees(m, k)
    BY <1>2, <1>3, <2>2 DEF Sees
  <2>4. <<"patch-completed", x>> \in events'[m]
    BY <1>3, <2>2, <2>3
  <2> QED BY <1>1, <1>3, <2>4
<1>4. CASE ~(Sender[x] = Sender[m] /\ series[x] = series[m] /\ Number[m] <= Number[x])
  <2>1. Number[x] \in Nat /\ Number[m] \in Nat
    BY DEF Mailing
  <2>2. x # m
    BY <1>4, <2>1
  <2>3. SentAndCounted(Sender[x], series[x], Number[x])
    <3> SUFFICES ASSUME NEW k \in 1..Number[x]
                 PROVE  \E n \in Mails : /\ Sender[n] = Sender[x] /\ series[n] = series[x]
                                         /\ Counted(n) /\ Number[n] = k
      BY DEF SentAndCounted
    <3>1. PICK n \in Mails : /\ Sender[n] = Sender[x] /\ series[n] = series[x]
                             /\ Counted(n)' /\ Number[n] = k
      BY <1>2
    <3>2. n # m
      BY <1>4, <2>1, <3>1
    <3> QED BY <1>1, <3>1, <3>2
  <2>4. PICK n \in Mails : /\ Sender[n] = Sender[x] /\ Counted(n)
                           /\ <<"patch-completed", x>> \in events[n]
    BY <1>1, <2>2, <2>3 DEF OverlapInvariant, PatchesTold
  <2>5. <<"patch-completed", x>> \in events'[n]
    BY <2>4
  <2>6. Counted(n)'
    BY <1>1, <2>4
  <2> QED BY <2>4, <2>5, <2>6
<1> QED BY <1>3, <1>4

LEMMA CountPredecessorStep ==
  ASSUME Mailing, OverlapInvariant, Typed', NEW m \in Mails, CountPredecessorPatches(m)
  PROVE  OverlapInvariant'
<1> USE DEF OverlapInvariant
<1> DEFINE before == {n \in Seen(m, series[m]) : Number[n] < Number[m]}
<1>1. /\ pc[m] = "counting" /\ Placed(m) /\ Open(m) /\ series[m] \in Ids
      /\ Number[m] \in 1..Total /\ events \in [Mails -> SUBSET Event]
  BY DEF CountPredecessorPatches, Placed, Open, Typed, Progress, Mailing, OverlapTypeOK
<1>2. /\ m \in Seen(m, series[m])
      /\ \A q \in Seen(m, series[m]) : q \in Mails /\ Number[q] \in 1..Total
      /\ \A q, r \in Seen(m, series[m]) : Number[q] = Number[r] => q = r
  BY <1>1, SeenAreNumbered
<1>3. Cardinality(before) = Number[m] - 1
        <=> \A k \in 1..(Number[m] - 1) : \E q \in before : Number[q] = k
  <2>1. Number[m] - 1 \in Nat /\ \A q \in before : Number[q] \in 1..(Number[m] - 1)
    BY <1>1, <1>2 DEF Mailing
  <2>2. \A q, r \in before : Number[q] = Number[r] => q = r
    BY <1>2
  <2> HIDE DEF before
  <2> QED BY <2>1, <2>2, CountTellsAll
<1>4. CASE Cardinality(before) = Number[m] - 1
  <2>1. Announces(m, "following", {<<"patch-completed", m>>})
    BY <1>1, <1>4, Zenon DEF CountPredecessorPatches, Queue, Announces
  <2>2. \A k \in 1..Number[m] : Sees(m, k)
    <3> SUFFICES ASSUME NEW k \in 1..Number[m] PROVE Sees(m, k)
      OBVIOUS
    <3>1. CASE k = Number[m]
      BY <1>2, <3>1 DEF Sees
    <3>2. CASE k # Number[m]
      <4>1. k \in 1..(Number[m] - 1)
        BY <1>1, <3>2 DEF Mailing
      <4> QED BY <1>3, <1>4, <4>1 DEF Sees
    <3> QED BY <3>1, <3>2
  <2>3. \A n \in Mails : n # m => <<"patch-completed", m>> \notin events[n]
    <3>1. Number[m] <= Number[m] /\ pc[m] # "done"
      BY <1>1 DEF Mailing
    <3> QED BY <1>1, <1>2, <3>1, NotYetTold
  <2>4. /\ PlacesDistinct' /\ SendersApart' /\ SawAll' /\ NotTwice'
        /\ pc'[m] = "following" /\ \A n \in Mails : n # m => pc'[n] = pc[n]
        /\ events'[m] = events[m] \cup {<<"patch-completed", m>>}
        /\ \A n \in Mails : n # m => events'[n] = events[n]
    <3>1. <<"patch-completed", m>> \in events'[m]
      BY <1>1, <2>1 DEF Announces
    <3>2. /\ \A s \in Ids : <<"series-completed", s>> \notin {<<"patch-completed", m>>}
          /\ \A x \in Mails : <<"patch-completed", x>> \in {<<"patch-completed", m>>}
               => x = m
      OBVIOUS
    <3>3. Number[m] <= Number[m]
      BY <1>1
    <3> QED BY <1>2, <2>1, <2>2, <2>3, <3>1, <3>2, <3>3, AnnounceStep
  <2>5. series' = series
    BY <2>1 DEF Announces
  <2>6. \A n \in Mails : /\ Counted(n)' <=> Counted(n)
                         /\ Closed(n)' <=> Closed(n)
                         /\ events[n] \subseteq events'[n]
    BY <1>1, <2>4 DEF Counted, Closed
  <2>7. PatchesTold'
    <3>1. \A x \in Mails : SentAndCounted(Sender[x], series[x], Number[x])'
            => SentAndCounted(Sender[x], series[x], Number[x])
      BY <2>5, <2>6 DEF SentAndCounted
    <3> QED BY <2>6, <3>1 DEF PatchesTold
  <2>8. SeriesTold'
    <3>1. \A q \in Mails, s \in Ids : SentAndClosed(Sender[q], s)' => SentAndClosed(Sender[q], s)
      BY <2>5, <2>6 DEF SentAndClosed
    <3> QED BY <2>6, <3>1 DEF SeriesTold
  <2> QED BY <2>4, <2>7, <2>8
<1>5. CASE Cardinality(before) # Number[m] - 1
  <2>1. Announces(m, "closing", {})
    <3>1. /\ pc[m] = "counting" /\ pc' = [pc EXCEPT ![m] = "closing"]
          /\ UNCHANGED <<events, series, reference, filed>>
      BY <1>5, Zenon DEF CountPredecessorPatches
    <3>2. events' = [events EXCEPT ![m] = @ \cup {}]
      BY <1>1, <3>1
    <3> QED BY <3>1, <3>2 DEF Announces
  <2>2. /\ PlacesDistinct' /\ SendersApart' /\ SawAll' /\ NotTwice'
        /\ pc'[m] = "closing" /\ \A n \in Mails : n # m => pc'[n] = pc[n]
        /\ events'[m] = events[m] \cup {}
        /\ \A n \in Mails : n # m => events'[n] = events[n]
    <3>1. PICK none : none = {}
      OBVIOUS
    <3>2. Announces(m, "closing", none)
      BY <2>1, <3>1
    <3>3. \A e : e \notin none
      BY <3>1
    <3>4. /\ PlacesDistinct' /\ SendersApart' /\ SawAll' /\ NotTwice'
          /\ pc'[m] = "closing" /\ \A n \in Mails : n # m => pc'[n] = pc[n]
          /\ events'[m] = events[m] \cup none
          /\ \A n \in Mails : n # m => events'[n] = events[n]
      BY <3>2, <3>3, AnnounceStep
    <3> QED BY <3>1, <3>4
  <2>3. series' = series
    BY <2>1 DEF Announces
  <2>4. ASSUME NEW x \in Seen(m, series[m]), Number[m] <= Number[x],
               \A k \in 1..Number[x] : Sees(m, k)
        PROVE  FALSE
    <3>1. PICK k \in 1..(Number[m] - 1) : \A q \in before : Number[q] # k
      BY <1>3, <1>5
    <3>2. k \in 1..Number[x] /\ k < Number[m]
      BY <1>1, <1>2, <2>4, <3>1 DEF Mailing
    <3> QED BY <2>4, <3>1, <3>2 DEF Sees
  <2>5. PatchesTold'
    BY <1>1, <2>2, <2>3, <2>4, PatchesToldStep
  <2>6. SeriesTold'
    <3>1. \A n \in Mails : /\ Closed(n)' <=> Closed(n)
                           /\ events[n] \subseteq events'[n]
      BY <1>1, <2>2 DEF Closed
    <3>2. \A q \in Mails, s \in Ids : SentAndClosed(Sender[q], s)' => SentAndClosed(Sender[q], s)
      BY <2>3, <3>1 DEF SentAndClosed
    <3> QED BY <3>1, <3>2 DEF SeriesTold
  <2> QED BY <2>2, <2>5, <2>6
<1> QED BY <1>4, <1>5

LEMMA GetSuccessorStep ==
  ASSUME Mailing, OverlapInvariant, Typed', NEW m \in Mails, GetSuccessorPatches(m)
  PROVE  OverlapInvariant'
<1> USE DEF OverlapInvariant
<1> DEFINE numbers == {Number[n] : n \in Seen(m, series[m])}
           next == {n \in Seen(m, series[m]) :
                      Number[n] > Number[m] /\ Number[m]..Number[n] \subseteq numbers}
           new == {<<"patch-completed", n>> : n \in next}
<1>1. /\ pc[m] = "following" /\ Placed(m) /\ Open(m) /\ series[m] \in Ids
      /\ Number[m] \in 1..Total /\ Total \in Nat
      /\ <<"patch-completed", m>> \in events[m]
  BY DEF GetSuccessorPatches, Placed, Open, Typed, Progress, Mailing, SawAll
<1>2. /\ m \in Seen(m, series[m])
      /\ \A q \in Seen(m, series[m]) : q \in Mails /\ Number[q] \in 1..Total
      /\ \A q, r \in Seen(m, series[m]) : Number[q] = Number[r] => q = r
  BY <1>1, SeenAreNumbered
<1>3. Announces(m, "closing", new)
  BY Zenon DEF GetSuccessorPatches, Queue, Announces
<1>4. ASSUME NEW x \in next
      PROVE  /\ x \in Seen(m, series[m]) /\ Number[m] <= Number[x]
             /\ \A k \in 1..Number[x] : Sees(m, k)
  <2>1. x \in Seen(m, series[m]) /\ Number[x] > Number[m]
        /\ Number[m]..Number[x] \subseteq numbers
    OBVIOUS
  <2>2. \A k \in 1..Number[m] : Sees(m, k)
    BY <1>1 DEF SawAll
  <2>3. \A k \in Number[m]..Number[x] : Sees(m, k)
    BY <2>1 DEF Sees
  <2>4. \A k \in 1..Number[x] : k \in 1..Number[m] \/ k \in Number[m]..Number[x]
    BY <1>1, <1>2, <2>1
  <2>5. Number[m] <= Number[x]
    BY <1>1, <1>2, <2>1
  <2> QED BY <2>1, <2>2, <2>3, <2>4, <2>5
<1>5. \A e \in new : \E x \in next : e = <<"patch-completed", x>>
  OBVIOUS
<1>6. \A x \in next : <<"patch-completed", x>> \in new
  OBVIOUS
<1>7. \A x \in Seen(m, series[m]) :
        Number[m] < Number[x] /\ (\A k \in 1..Number[x] : Sees(m, k)) => x \in next
  <2> SUFFICES ASSUME NEW x \in Seen(m, series[m]), Number[m] < Number[x],
                      \A k \in 1..Number[x] : Sees(m, k)
               PROVE  Number[m]..Number[x] \subseteq numbers
    BY <1>1, <1>2
  <2>1. \A k \in Number[m]..Number[x] : k \in 1..Number[x]
    BY <1>1, <1>2
  <2> QED BY <2>1 DEF Sees
<1> HIDE DEF next, new
<1>8. \A e \in new : \A n \in Mails : n # m => e \notin events[n]
  <2> SUFFICES ASSUME NEW e \in new, NEW n \in Mails, n # m PROVE e \notin events[n]
    OBVIOUS
  <2>1. PICK x \in next : e = <<"patch-completed", x>>
    BY <1>5
  <2>2. \A y \in Seen(m, series[m]) :
          Number[m] <= Number[y] => <<"patch-completed", y>> \notin events[n]
    BY <1>1, NotYetTold
  <2> QED BY <1>4, <2>1, <2>2
<1>9. /\ \A s \in Ids : <<"series-completed", s>> \notin new
      /\ \A x \in Mails : <<"patch-completed", x>> \in new => x \in next
  BY <1>5
<1>10. /\ PlacesDistinct' /\ SendersApart' /\ SawAll' /\ NotTwice'
       /\ pc'[m] = "closing" /\ \A n \in Mails : n # m => pc'[n] = pc[n]
       /\ events'[m] = events[m] \cup new
       /\ \A n \in Mails : n # m => events'[n] = events[n]
  BY <1>3, <1>4, <1>8, <1>9, AnnounceStep
<1>11. series' = series
  BY <1>3 DEF Announces
<1>12. ASSUME NEW x \in Seen(m, series[m]), Number[m] <= Number[x],
              \A k \in 1..Number[x] : Sees(m, k)
       PROVE  <<"patch-completed", x>> \in events'[m]
  <2>1. CASE Number[x] = Number[m]
    BY <1>1, <1>2, <1>10, <2>1
  <2>2. CASE Number[x] # Number[m]
    <3>1. Number[m] < Number[x]
      BY <1>1, <1>2, <1>12, <2>2
    <3> QED BY <1>6, <1>7, <1>10, <1>12, <3>1
  <2> QED BY <2>1, <2>2
<1>13. PatchesTold'
  BY <1>1, <1>10, <1>11, <1>12, PatchesToldStep
<1>14. SeriesTold'
  <2>1. \A n \in Mails : /\ Closed(n)' <=> Closed(n)
                         /\ events[n] \subseteq events'[n]
    BY <1>1, <1>10 DEF Closed
  <2>2. \A q \in Mails, s \in Ids : SentAndClosed(Sender[q], s)' => SentAndClosed(Sender[q], s)
    BY <1>11, <2>1 DEF SentAndClosed
  <2> QED BY <2>1, <2>2 DEF SeriesTold
<1> QED BY <1>10, <1>13, <1>14

LEMMA CountPatchesStep ==
  ASSUME Mailing, OverlapInvariant, Typed', NEW m \in Mails, CountPatchesInSeries(m)
  PROVE  OverlapInvariant'
<1> USE DEF OverlapInvariant
<1> DEFINE all  == \A k \in 1..Total : Sees(m, k)
           told == IF all THEN {<<"series-completed", series[m]>>} ELSE {}
<1>1. /\ pc[m] = "closing" /\ Placed(m) /\ Open(m) /\ series[m] \in Ids
      /\ Number[m] \in 1..Total /\ Total \in Nat
      /\ events \in [Mails -> SUBSET Event]
  BY DEF CountPatchesInSeries, Placed, Open, Typed, Progress, Mailing, OverlapTypeOK
<1>2. /\ m \in Seen(m, series[m])
      /\ \A q \in Seen(m, series[m]) : q \in Mails /\ Number[q] \in 1..Total
      /\ \A q, r \in Seen(m, series[m]) : Number[q] = Number[r] => q = r
  BY <1>1, SeenAreNumbered
<1>3. Cardinality(Seen(m, series[m])) >= Total <=> all
  <2>1. /\ Cardinality(Seen(m, series[m])) \in Nat
        /\ Cardinality(Seen(m, series[m])) <= Total
        /\ Cardinality(Seen(m, series[m])) = Total
             <=> \A k \in 1..Total : \E q \in Seen(m, series[m]) : Number[q] = k
    BY <1>1, <1>2, CountTellsAll
  <2>2. all <=> \A k \in 1..Total : \E q \in Seen(m, series[m]) : Number[q] = k
    BY DEF Sees
  <2> HIDE DEF all
  <2> QED BY <1>1, <2>1, <2>2
<1>4. PICK new : new = told
  OBVIOUS
<1>5. Announces(m, "committing", new)
  <2>1. /\ pc' = [pc EXCEPT ![m] = "committing"]
        /\ IF all THEN Queue(m, {<<"series-completed", series[m]>>}) ELSE UNCHANGED events
        /\ UNCHANGED <<series, reference, filed>>
    <3> HIDE DEF all
    <3> QED BY <1>3, Zenon DEF CountPatchesInSeries
  <2>2. events' = [events EXCEPT ![m] = @ \cup new]
    <3>1. CASE all
      BY <1>4, <2>1, <3>1 DEF Queue
    <3>2. CASE ~all
      <4>1. events' = events /\ new = {}
        BY <1>4, <2>1, <3>2
      <4> QED BY <1>1, <4>1
    <3> QED BY <3>1, <3>2
  <2> QED BY <1>1, <2>1, <2>2 DEF Announces
<1>6. \A e \in new : all /\ e = <<"series-completed", series[m]>>
  BY <1>4
<1>7. all => <<"series-completed", series[m]>> \in new
  BY <1>4
<1>8. \A e \in new : \A n \in Mails : n # m => e \notin events[n]
  BY <1>1, <1>6, NotYetTold
<1>9. /\ \A x : <<"patch-completed", x>> \notin new
      /\ \A s \in Ids : <<"series-completed", s>> \in new => s = series[m] /\ all
  BY <1>6
<1>10. /\ PlacesDistinct' /\ SendersApart' /\ SawAll' /\ NotTwice'
       /\ pc'[m] = "committing" /\ \A n \in Mails : n # m => pc'[n] = pc[n]
       /\ events'[m] = events[m] \cup new
       /\ \A n \in Mails : n # m => events'[n] = events[n]
  BY <1>5, <1>8, <1>9, AnnounceStep
<1>11. series' = series
  BY <1>5 DEF Announces
<1>12. \A n \in Mails : /\ Counted(n)' <=> Counted(n)
                        /\ Closed(n)' <=> Closed(n) \/ n = m
                        /\ events[n] \subseteq events'[n]
  BY <1>1, <1>10 DEF Counted, Closed
<1>13. PatchesTold'
  <2>1. \A x \in Mails : SentAndCounted(Sender[x], series[x], Number[x])'
          => SentAndCounted(Sender[x], series[x], Number[x])
    BY <1>11, <1>12 DEF SentAndCounted
  <2> QED BY <1>12, <2>1 DEF PatchesTold
<1>14. SeriesTold'
  <2> SUFFICES ASSUME NEW q \in Mails, NEW s \in Ids, SentAndClosed(Sender[q], s)'
               PROVE  \E n \in Mails : /\ Sender[n] = Sender[q] /\ Closed(n)'
                                       /\ <<"series-completed", s>> \in events'[n]
    BY DEF SeriesTold
  <2>1. ASSUME NEW k \in 1..Total
        PROVE  \E n \in Mails : /\ Sender[n] = Sender[q] /\ series[n] = s
                                /\ Closed(n)' /\ Number[n] = k
    BY <1>11 DEF SentAndClosed
  <2>2. CASE Sender[q] = Sender[m] /\ s = series[m]
    <3>1. \A n \in Mails : Closed(n)' => Placed(n)
      BY <1>1, <1>12 DEF Closed, Placed
    <3>2. \A n \in Mails :
            Closed(n)' /\ Sender[n] = Sender[m] /\ series[n] = series[m]
              => n \in Seen(m, series[m])
      BY <1>1, <3>1, SameSenderSeen
    <3>3. all
      BY <2>1, <2>2, <3>2 DEF Sees
    <3> QED BY <1>7, <1>10, <1>12, <2>2, <3>3
  <2>3. CASE ~(Sender[q] = Sender[m] /\ s = series[m])
    <3>1. SentAndClosed(Sender[q], s)
      <4> SUFFICES ASSUME NEW k \in 1..Total
                   PROVE  \E n \in Mails : /\ Sender[n] = Sender[q] /\ series[n] = s
                                           /\ Closed(n) /\ Number[n] = k
        BY DEF SentAndClosed
      <4> QED BY <1>12, <2>1, <2>3
    <3>2. PICK n \in Mails : /\ Sender[n] = Sender[q] /\ Closed(n)
                             /\ <<"series-completed", s>> \in events[n]
      BY <3>1 DEF SeriesTold
    <3> QED BY <1>12, <3>2
  <2> QED BY <2>2, <2>3
<1> QED BY <1>10, <1>13, <1>14

(***************************************************************************)
(* A rollback forgets what was announced, and the place with it.           *)
(***************************************************************************)

LEMMA RollbackStep ==
  ASSUME Mailing, OverlapInvariant, Typed', NEW m \in Mails, Rollback(m)
  PROVE  OverlapInvariant'
<1> USE DEF OverlapInvariant
<1>1. Mails \subseteq Ids /\ m \in Ids
  BY DEF Ids
<1>2. /\ Open(m) /\ pc'[m] = "queued" /\ events'[m] = {}
      /\ \A n \in Mails : n # m => /\ pc'[n] = pc[n]
                                   /\ series'[n] = series[n]
                                   /\ events'[n] = events[n]
  BY <1>1 DEF Rollback, Typed, OverlapTypeOK
<1>3. PlacesDistinct'
  BY <1>2 DEF PlacesDistinct, Placed
<1>4. SendersApart'
  BY <1>2 DEF SendersApart, Open
<1>5. NotTwice'
  BY <1>2 DEF NotTwice
<1>6. \A n \in Mails : n # m => Seen(n, series[n])' = Seen(n, series[n])
  BY <1>2 DEF Seen, Visible, Placed, Open
<1>7. \A n \in Mails : n # m => \A k : Sees(n, k)' <=> Sees(n, k)
  BY <1>6 DEF Sees
<1>8. SawAll'
  <2> SUFFICES ASSUME NEW n \in Mails
               PROVE  /\ events'[n] # {} => Placed(n)'
                      /\ \A s \in Ids : <<"series-completed", s>> \in events'[n]
                           => s = series'[n] /\ \A k \in 1..Total : Sees(n, k)'
                      /\ \A x \in Mails : <<"patch-completed", x>> \in events'[n]
                           => /\ x \in Seen(n, series[n])'
                              /\ Number[n] <= Number[x]
                              /\ \A k \in 1..Number[x] : Sees(n, k)'
                      /\ pc'[n] = "following" => <<"patch-completed", n>> \in events'[n]
    BY DEF SawAll
  <2>1. CASE n = m
    BY <1>2, <2>1
  <2>2. CASE n # m
    <3>1. /\ events[n] # {} => Placed(n)
          /\ pc[n] = "following" => <<"patch-completed", n>> \in events[n]
      BY DEF SawAll
    <3>2. Placed(n)' <=> Placed(n)
      BY <1>2, <2>2 DEF Placed
    <3>3. ASSUME NEW s \in Ids, <<"series-completed", s>> \in events[n]
          PROVE  s = series'[n] /\ \A k \in 1..Total : Sees(n, k)'
      BY <1>2, <1>7, <2>2, <3>3 DEF SawAll
    <3>4. ASSUME NEW x \in Mails, <<"patch-completed", x>> \in events[n]
          PROVE  /\ x \in Seen(n, series[n])'
                 /\ Number[n] <= Number[x]
                 /\ \A k \in 1..Number[x] : Sees(n, k)'
      <4>1. /\ x \in Seen(n, series[n])
            /\ Number[n] <= Number[x]
            /\ \A k \in 1..Number[x] : Sees(n, k)
        BY <3>4 DEF SawAll
      <4> QED BY <1>6, <1>7, <2>2, <4>1
    <3>5. events'[n] = events[n] /\ pc'[n] = pc[n]
      BY <1>2, <2>2
    <3> QED BY <3>1, <3>2, <3>3, <3>4, <3>5
  <2> QED BY <2>1, <2>2
<1>9. \A n \in Mails : /\ Counted(n)' <=> Counted(n) /\ n # m
                       /\ Closed(n)' <=> Closed(n) /\ n # m
  <2>1. ~Counted(m)' /\ ~Closed(m)'
    BY <1>2 DEF Counted, Closed
  <2> QED BY <1>2, <2>1 DEF Counted, Closed
<1>10. \A n \in Mails : Counted(n) \/ Closed(n) => Placed(n)
  BY DEF Counted, Closed, Placed
<1>11. events[m] # {} => Placed(m) /\ Number[m] \in 1..Total
  BY DEF SawAll, Mailing
<1>12. PatchesTold'
  <2> SUFFICES ASSUME NEW x \in Mails, Counted(x)',
                      SentAndCounted(Sender[x], series[x], Number[x])'
               PROVE  \E n \in Mails : /\ Sender[n] = Sender[x] /\ Counted(n)'
                                       /\ <<"patch-completed", x>> \in events'[n]
    BY DEF PatchesTold
  <2>1. x # m /\ Counted(x)
    BY <1>9
  <2>2. ASSUME NEW k \in 1..Number[x]
        PROVE  \E n \in Mails : /\ Sender[n] = Sender[x] /\ series[n] = series[x]
                                /\ Counted(n) /\ n # m /\ Number[n] = k
    BY <1>2, <1>9, <2>1 DEF SentAndCounted
  <2>3. PICK n \in Mails : /\ Sender[n] = Sender[x] /\ Counted(n)
                           /\ <<"patch-completed", x>> \in events[n]
    BY <2>1, <2>2 DEF PatchesTold, SentAndCounted
  <2>4. n # m
    <3> SUFFICES ASSUME n = m PROVE FALSE
      OBVIOUS
    <3>1. /\ x \in Seen(m, series[m]) /\ Number[m] <= Number[x]
          /\ Placed(m) /\ Number[m] \in 1..Total
      BY <1>11, <2>3 DEF SawAll
    <3>2. series[x] = series[m] /\ Number[m] \in 1..Number[x]
      BY <3>1 DEF Seen, Mailing
    <3>3. PICK q \in Mails : /\ series[q] = series[m] /\ Counted(q) /\ q # m
                             /\ Number[q] = Number[m]
      BY <2>2, <3>2
    <3> QED BY <1>10, <3>1, <3>3 DEF PlacesDistinct
  <2> QED BY <1>2, <1>9, <2>3, <2>4
<1>13. SeriesTold'
  <2> SUFFICES ASSUME NEW q \in Mails, NEW s \in Ids, SentAndClosed(Sender[q], s)'
               PROVE  \E n \in Mails : /\ Sender[n] = Sender[q] /\ Closed(n)'
                                       /\ <<"series-completed", s>> \in events'[n]
    BY DEF SeriesTold
  <2>1. ASSUME NEW k \in 1..Total
        PROVE  \E n \in Mails : /\ Sender[n] = Sender[q] /\ series[n] = s
                                /\ Closed(n) /\ n # m /\ Number[n] = k
    BY <1>2, <1>9 DEF SentAndClosed
  <2>2. PICK n \in Mails : /\ Sender[n] = Sender[q] /\ Closed(n)
                           /\ <<"series-completed", s>> \in events[n]
    BY <2>1 DEF SeriesTold, SentAndClosed
  <2>3. n # m
    <3> SUFFICES ASSUME n = m PROVE FALSE
      OBVIOUS
    <3>1. s = series[m] /\ Placed(m) /\ Number[m] \in 1..Total
      BY <1>11, <2>2 DEF SawAll
    <3>2. PICK r \in Mails : /\ series[r] = series[m] /\ Closed(r) /\ r # m
                             /\ Number[r] = Number[m]
      BY <2>1, <3>1
    <3> QED BY <1>10, <3>1, <3>2 DEF PlacesDistinct
  <2> QED BY <1>2, <1>9, <2>2, <2>3
<1> QED BY <1>3, <1>4, <1>5, <1>8, <1>12, <1>13

LEMMA OverlapStarts == ASSUME Mailing, OverlapInit PROVE OverlapInvariant
<1>1. Typed
  BY TypeInit
<1>2. \A m \in Mails : pc[m] = "queued" /\ events[m] = {}
  BY DEF OverlapInit, Ids, Mailing
<1> QED BY <1>1, <1>2 DEF OverlapInvariant, PlacesDistinct, SendersApart, SawAll,
           NotTwice, PatchesTold, SeriesTold, SentAndClosed, Placed, Open, Counted,
           Closed, Mailing

LEMMA OverlapStep ==
  ASSUME Mailing, OverlapInvariant, [OverlapNext]_overlapVars
  PROVE  OverlapInvariant'
<1>1. CASE UNCHANGED overlapVars
  BY <1>1 DEF overlapVars, OverlapInvariant, Typed, OverlapTypeOK, Progress, PlacesDistinct,
     SendersApart, SawAll, NotTwice, PatchesTold, SeriesTold, SentAndCounted,
     SentAndClosed, Placed, Open, Counted, Closed, Seen, Sees, Visible
<1>2. ASSUME NEW m \in Mails, ParseMail(m) PROVE OverlapInvariant'
  <2>1. Typed'
    BY <1>2, TypeStep DEF OverlapInvariant
  <2> QED BY <1>2, <2>1, QuietSteps, CountPredecessorStep, GetSuccessorStep,
             CountPatchesStep, RollbackStep DEF ParseMail
<1> QED BY <1>1, <1>2 DEF OverlapNext

LEMMA OverlapInvariantHolds == ASSUME Mailing PROVE OverlapSpec => []OverlapInvariant
<1>1. OverlapInit => OverlapInvariant
  BY OverlapStarts
<1>2. OverlapInvariant /\ [OverlapNext]_overlapVars => OverlapInvariant'
  BY OverlapStep
<1> QED BY <1>1, <1>2, PTL DEF OverlapSpec

(***************************************************************************)
(* Series of one sender: one that is opened next to another of his is      *)
(* opened because that one has the patch already.                          *)
(***************************************************************************)

\* What is filed and joined leads to a series that was opened and, but by its
\* own opener, committed.
Joined ==
  /\ pc[Cover] \in {"queued", "done"}
  /\ \A n \in Ids : pc[n] \in {"queued", "finding"} => series[n] = None
  /\ \A n \in Ids : series[n] # None /\ series[n] # n => pc[series[n]] = "done"
  /\ \A id \in Ids : reference[id] # None
       => /\ pc[reference[id].by] \notin {"queued", "finding"}
          /\ series[reference[id].by] = reference[id].series

OpenersApart ==
  \A m, n \in Ids :
    m # n /\ Opens(m) /\ Opens(n) /\ Sender[m] = Sender[n]
      => TakenIn(m, n) \/ TakenIn(n, m)

OpenerInvariant == OverlapInvariant /\ Joined /\ OpenersApart

LEMMA OpenersStart == ASSUME Mailing, OverlapInit PROVE OpenerInvariant
<1>1. OverlapInvariant
  BY OverlapStarts
<1>2. Joined
  BY DEF OverlapInit, Joined, Ids, Mailing
<1>3. OpenersApart
  BY DEF OverlapInit, OpenersApart, Opens, Ids, Mailing
<1> QED BY <1>1, <1>2, <1>3 DEF OpenerInvariant

\* A step that neither opens nor joins a series.
LEMMA OpenersStay ==
  ASSUME Mailing, OpenerInvariant, NEW m \in Mails,
         \A n \in Ids : series'[n] = series[n] \/ (n = m /\ series'[n] = None),
         \A n \in Ids : n # m => pc'[n] = pc[n],
         pc[m] # "done"
  PROVE  OpenersApart'
<1>1. \A n \in Ids : Opens(n)' => Opens(n)
  BY DEF Opens, Mailing
<1>2. \A s, n \in Ids : TakenIn(s, n) => TakenIn(s, n)'
  <2>1. \A s \in Ids : \A q \in Stored(s) : q \in Stored(s)' \/ series'[q] # series[q]
    BY DEF Stored, Ids
  <2>2. \A s \in Ids : \A q \in Stored(s) : series'[q] = series[q]
    BY DEF Stored, Ids
  <2> QED BY <2>1, <2>2 DEF TakenIn
<1> QED BY <1>1, <1>2 DEF OpenerInvariant, OpenersApart

LEMMA FindSeriesApart ==
  ASSUME Mailing, OpenerInvariant, NEW m \in Mails, FindSeries(m)
  PROVE  Joined' /\ OpenersApart'
<1> USE DEF OpenerInvariant
<1> DEFINE free       == {s \in Ids : \A n \in Seen(m, s) : Number[n] # Number[m]}
           rows       == {reference[r] : r \in Range(Refs[m])} \ {None}
           referenced == {row.series : row \in {r \in rows : Visible(m, r.by)}}
           marked     == {s \in Ids : /\ series[s] = s /\ Visible(m, s)
                                      /\ Sender[s] = Sender[m]}
<1>1. /\ m \in Ids /\ None \notin Ids /\ Mails \subseteq Ids /\ Cover # m
      /\ pc[m] = "finding" /\ series[m] = None /\ UNCHANGED reference
      /\ pc' = [pc EXCEPT ![m] = "filing"]
  BY DEF FindSeries, Joined, Ids, Mailing
<1>2. PICK s \in IF referenced \cap free # {} THEN referenced \cap free
                 ELSE IF marked \cap free # {} THEN marked \cap free ELSE {m} :
        series' = [series EXCEPT ![m] = s]
  BY Zenon DEF FindSeries
<1>3. /\ pc'[m] = "filing" /\ series'[m] = s
      /\ \A n \in Ids : n # m => pc'[n] = pc[n] /\ series'[n] = series[n]
  BY <1>1, <1>2 DEF OverlapInvariant, Typed, OverlapTypeOK
\* A reference that m sees leads to a committed series.
<1>4. \A x \in referenced : pc[x] = "done" /\ x # m
  <2> SUFFICES ASSUME NEW r \in Range(Refs[m]), reference[r] # None,
                      Visible(m, reference[r].by)
               PROVE  pc[reference[r].series] = "done"
    BY <1>1
  <2>1. r \in Ids
    BY DEF Mailing, Range
  <2>2. /\ reference[r].by \in Ids /\ reference[r].series \in Ids
        /\ pc[reference[r].by] \notin {"queued", "finding"}
        /\ series[reference[r].by] = reference[r].series
    BY <2>1 DEF OverlapInvariant, Typed, OverlapTypeOK, Joined
  <2>3. pc[reference[r].by] = "done"
    BY <1>1, <2>2 DEF Visible
  <2> QED BY <1>1, <2>2, <2>3 DEF Joined
<1>5. \A x \in marked : pc[x] = "done" /\ x # m
  BY <1>1 DEF Visible
<1>6. s = m \/ pc[s] = "done"
  BY <1>2, <1>4, <1>5
<1>7. s \in Ids
  BY <1>1, <1>2
<1>8. Joined'
  BY <1>1, <1>3, <1>6, <1>7 DEF Joined, Ids, OverlapInvariant, Typed, OverlapTypeOK
<1>9. \A x, n \in Ids : TakenIn(x, n) => TakenIn(x, n)'
  <2>1. \A x \in Ids : \A q \in Stored(x) : q \in Stored(x)'
    BY <1>1, <1>3 DEF Stored
  <2> QED BY <2>1 DEF TakenIn
<1>10. ASSUME NEW n \in Ids, n # m, Opens(n), Sender[n] = Sender[m], s = m
       PROVE  TakenIn(n, m)
  <2>1. pc[n] = "done"
    <3>1. pc[n] \notin {"queued", "finding"}
      BY <1>1, <1>10 DEF Joined, Opens
    <3>2. CASE n \in Mails
      <4>1. Open(m)
        BY <1>1 DEF Open
      <4> QED BY <1>10, <3>1, <3>2, <4>1 DEF OverlapInvariant, SendersApart, Open
    <3> QED BY <3>1, <3>2 DEF Joined, Ids
  <2>2. marked \cap free = {}
    BY <1>2, <1>4, <1>5, <1>10
  <2>3. n \in marked
    BY <1>10, <2>1 DEF Opens, Visible
  <2>4. PICK q \in Seen(m, n) : Number[q] = Number[m]
    BY <2>2, <2>3
  <2>5. q \in Stored(n)
    BY <1>1, <2>4 DEF Seen, Visible, Placed, Stored
  <2> QED BY <2>4, <2>5 DEF TakenIn
<1>11. OpenersApart'
  <2> SUFFICES ASSUME NEW x \in Ids, NEW n \in Ids, x # n, Opens(x)', Opens(n)',
                      Sender[x] = Sender[n]
               PROVE  TakenIn(x, n)' \/ TakenIn(n, x)'
    BY DEF OpenersApart
  <2>1. CASE x = m
    BY <1>3, <1>9, <1>10, <2>1 DEF Opens
  <2>2. CASE n = m
    BY <1>3, <1>9, <1>10, <2>2 DEF Opens
  <2>3. CASE x # m /\ n # m
    BY <1>3, <1>9, <2>3 DEF Opens, OpenersApart
  <2> QED BY <2>1, <2>2, <2>3
<1> QED BY <1>8, <1>11

LEMMA OpenersStep ==
  ASSUME Mailing, OpenerInvariant, [OverlapNext]_overlapVars
  PROVE  OpenerInvariant'
<1>1. OverlapInvariant'
  BY OverlapStep DEF OpenerInvariant
<1>2. CASE UNCHANGED overlapVars
  BY <1>1, <1>2 DEF overlapVars, OpenerInvariant, Joined, OpenersApart, Opens, TakenIn, Stored
<1>3. ASSUME NEW m \in Mails, ParseMail(m) PROVE OpenerInvariant'
  <2> USE DEF OpenerInvariant
  <2>1. m \in Ids /\ Mails \subseteq Ids /\ None \notin Ids /\ Cover # m
    BY DEF Ids, Mailing
  <2>2. CASE FindSeries(m)
    BY <1>1, <2>2, FindSeriesApart
  <2>3. CASE CreateSeriesReference(m)
    <3>1. /\ pc[m] = "filing" /\ UNCHANGED series
          /\ \E id : reference' = IF reference[id] # None THEN reference
                     ELSE [reference EXCEPT ![id] = [series |-> series[m], by |-> m]]
          /\ pc' = [pc EXCEPT ![m] = "placing"] \/ pc' = pc
      BY <2>3, Zenon DEF CreateSeriesReference
    <3>2. /\ pc'[m] \in {"filing", "placing"}
          /\ \A n \in Ids : n # m => pc'[n] = pc[n]
      BY <2>1, <3>1 DEF OverlapInvariant, Typed, OverlapTypeOK
    <3>3. \A id \in Ids : \/ reference'[id] = reference[id]
                          \/ reference'[id] = [series |-> series[m], by |-> m]
      BY <3>1 DEF OverlapInvariant, Typed, OverlapTypeOK
    <3>4. pc'[Cover] \in {"queued", "done"}
      BY <2>1, <3>2 DEF Joined, Ids
    <3>5. \A n \in Ids : pc'[n] \in {"queued", "finding"} => series'[n] = None
      BY <2>1, <3>1, <3>2 DEF Joined
    <3>6. \A n \in Ids : series'[n] # None /\ series'[n] # n => pc'[series'[n]] = "done"
      BY <2>1, <3>1, <3>2 DEF Joined, OverlapInvariant, Typed, OverlapTypeOK
    <3>7. ASSUME NEW id \in Ids, reference'[id] # None
          PROVE  /\ pc'[reference'[id].by] \notin {"queued", "finding"}
                 /\ series'[reference'[id].by] = reference'[id].series
      <4>1. CASE reference'[id] = reference[id]
        <5>1. reference[id].by \in Ids
          BY <3>7, <4>1 DEF OverlapInvariant, Typed, OverlapTypeOK
        <5> QED BY <3>1, <3>2, <3>7, <4>1, <5>1 DEF Joined
      <4>2. CASE reference'[id] = [series |-> series[m], by |-> m]
        BY <3>1, <3>2, <4>2
      <4> QED BY <3>3, <4>1, <4>2
    <3>8. Joined'
      BY <3>4, <3>5, <3>6, <3>7 DEF Joined
    <3>9. /\ \A n \in Ids : series'[n] = series[n] \/ (n = m /\ series'[n] = None)
          /\ \A n \in Ids : n # m => pc'[n] = pc[n]
          /\ pc[m] # "done"
      BY <3>1, <3>2
    <3>10. OpenersApart'
      BY <3>9, OpenersStay
    <3> QED BY <1>1, <3>8, <3>10
  <2>4. CASE Rollback(m)
    <3>1. /\ pc[m] \notin {"queued", "done"} /\ pc'[m] = "queued" /\ series'[m] = None
          /\ \A n \in Ids : n # m => pc'[n] = pc[n] /\ series'[n] = series[n]
      BY <2>1, <2>4 DEF Rollback, Open, OverlapInvariant, Typed, OverlapTypeOK
    <3>2. \A id \in Ids : reference'[id] # None
            => reference'[id] = reference[id] /\ reference[id].by # m
      BY <2>4 DEF Rollback
    <3>3. pc'[Cover] \in {"queued", "done"}
      BY <2>1, <3>1 DEF Joined, Ids
    <3>4. \A n \in Ids : pc'[n] \in {"queued", "finding"} => series'[n] = None
      BY <3>1 DEF Joined
    <3>5. ASSUME NEW n \in Ids, series'[n] # None, series'[n] # n
          PROVE  pc'[series'[n]] = "done"
      <4>1. n # m /\ series'[n] = series[n] /\ series[n] \in Ids
        BY <3>1, <3>5 DEF OverlapInvariant, Typed, OverlapTypeOK
      <4>2. pc[series[n]] = "done"
        BY <3>5, <4>1 DEF Joined
      <4> QED BY <3>1, <4>1, <4>2
    <3>6. ASSUME NEW id \in Ids, reference'[id] # None
          PROVE  /\ pc'[reference'[id].by] \notin {"queued", "finding"}
                 /\ series'[reference'[id].by] = reference'[id].series
      <4>1. /\ reference'[id] = reference[id] /\ reference[id].by # m
            /\ reference[id].by \in Ids
        BY <3>2, <3>6 DEF OverlapInvariant, Typed, OverlapTypeOK
      <4> QED BY <3>1, <3>6, <4>1 DEF Joined
    <3>7. Joined'
      BY <3>3, <3>4, <3>5, <3>6 DEF Joined
    <3>8. /\ \A n \in Ids : series'[n] = series[n] \/ (n = m /\ series'[n] = None)
          /\ \A n \in Ids : n # m => pc'[n] = pc[n]
          /\ pc[m] # "done"
      BY <3>1
    <3>9. OpenersApart'
      BY <3>8, OpenersStay
    <3> QED BY <1>1, <3>7, <3>9
  <2>5. CASE \/ GetOrCreatePerson(m) \/ UpdatePatchSeries(m)
             \/ CountPredecessorPatches(m) \/ GetSuccessorPatches(m)
             \/ CountPatchesInSeries(m) \/ Commit(m)
    <3>1. /\ pc[m] # "done" /\ UNCHANGED <<series, reference>>
          /\ \E at : /\ pc' = [pc EXCEPT ![m] = at] /\ at # "queued"
                     /\ at = "finding" => pc[m] = "queued"
      BY <2>5 DEF GetOrCreatePerson, UpdatePatchSeries, CountPredecessorPatches,
         GetSuccessorPatches, CountPatchesInSeries, Commit
    <3>2. /\ pc'[m] # "queued"
          /\ pc'[m] = "finding" => pc[m] = "queued"
          /\ \A n \in Ids : n # m => pc'[n] = pc[n]
      <4>1. pc \in [Ids -> Stages]
        BY DEF OverlapInvariant, Typed, OverlapTypeOK, Stages
      <4> QED BY <2>1, <3>1, <4>1
    <3>3. pc'[Cover] \in {"queued", "done"}
      BY <2>1, <3>2 DEF Joined, Ids
    <3>4. \A n \in Ids : pc'[n] \in {"queued", "finding"} => series'[n] = None
      BY <2>1, <3>1, <3>2 DEF Joined
    <3>5. \A n \in Ids : series'[n] # None /\ series'[n] # n => pc'[series'[n]] = "done"
      BY <2>1, <3>1, <3>2 DEF Joined, OverlapInvariant, Typed, OverlapTypeOK
    <3>6. ASSUME NEW id \in Ids, reference'[id] # None
          PROVE  /\ pc'[reference'[id].by] \notin {"queued", "finding"}
                 /\ series'[reference'[id].by] = reference'[id].series
      <4>1. reference'[id] = reference[id] /\ reference[id].by \in Ids
        BY <3>1, <3>6 DEF OverlapInvariant, Typed, OverlapTypeOK
      <4> QED BY <2>1, <3>1, <3>2, <3>6, <4>1 DEF Joined
    <3>7. Joined'
      BY <3>3, <3>4, <3>5, <3>6 DEF Joined
    <3>8. /\ \A n \in Ids : series'[n] = series[n] \/ (n = m /\ series'[n] = None)
          /\ \A n \in Ids : n # m => pc'[n] = pc[n]
          /\ pc[m] # "done"
      BY <3>1, <3>2
    <3>9. OpenersApart'
      BY <3>8, OpenersStay
    <3> QED BY <1>1, <3>7, <3>9
  <2> QED BY <1>3, <2>2, <2>3, <2>4, <2>5 DEF ParseMail
<1> QED BY <1>2, <1>3 DEF OverlapNext

LEMMA OpenerInvariantHolds == ASSUME Mailing PROVE OverlapSpec => []OpenerInvariant
<1>1. OverlapInit => OpenerInvariant
  BY OpenersStart
<1>2. OpenerInvariant /\ [OverlapNext]_overlapVars => OpenerInvariant'
  BY OpenersStep
<1> QED BY <1>1, <1>2, PTL DEF OverlapSpec

(***************************************************************************)
(* The theorems.                                                           *)
(***************************************************************************)

\* Every variable has its type in every interleaving of the transactions.
THEOREM OverlapTypes == ASSUME Mailing PROVE OverlapSpec => []OverlapTypeOK
<1>1. OverlapInvariant => OverlapTypeOK
  BY DEF OverlapInvariant, Typed
<1> QED BY <1>1, OverlapInvariantHolds, PTL

\* However the transactions of one mailing overlap, wait and are rolled back,
\* no completion is announced by two of them.
THEOREM AnnouncementsAreUnique == ASSUME Mailing PROVE OverlapSpec => []AnnouncedOnce
<1>1. OverlapInvariant => AnnouncedOnce
  BY DEF OverlapInvariant, NotTwice, AnnouncedOnce
<1> QED BY <1>1, OverlapInvariantHolds, PTL

\* Mails of one sender do not open two series for want of seeing each other, and
\* a complete series of one sender is announced, and each of its patches: the
\* lock that GetOrCreatePerson takes is enough for both.
THEOREM OneSenderIsSafe == ASSUME Mailing PROVE OverlapSpec => []OneSenderIsServed
<1>1. ASSUME Mailing, OpenerInvariant PROVE OneSenderIsServed
  <2> SUFFICES ASSUME NEW s \in Ids, Complete(s),
                      \A n, q \in Stored(s) : Sender[n] = Sender[q]
               PROVE  /\ Announced(<<"series-completed", s>>)
                      /\ \A n \in Stored(s) : Announced(<<"patch-completed", n>>)
    BY <1>1 DEF OneSenderIsServed, OpenerInvariant, OpenersApart
  <2>1. \A k \in 1..Total : \E n \in Stored(s) : Number[n] = k
    BY DEF Complete
  <2>2. \A n \in Stored(s) : /\ n \in Mails /\ series[n] = s /\ pc[n] = "done"
                             /\ Counted(n) /\ Closed(n) /\ Placed(n)
    BY DEF Stored, Counted, Closed, Placed
  \* A transaction in the series is one of a stored patch: its place is taken.
  <2>3. ASSUME NEW m \in Mails, Placed(m), series[m] = s PROVE pc[m] = "done"
    <3>1. PICK n \in Stored(s) : Number[n] = Number[m]
      BY <1>1, <2>1 DEF Mailing
    <3> QED BY <1>1, <2>2, <2>3, <3>1 DEF OpenerInvariant, OverlapInvariant, PlacesDistinct
  <2>4. Announced(<<"series-completed", s>>)
    <3>1. PICK q \in Stored(s) : Number[q] = 1
      BY <1>1, <2>1 DEF Mailing
    <3>2. SentAndClosed(Sender[q], s)
      BY <2>1, <2>2 DEF SentAndClosed
    <3>3. PICK m \in Mails : <<"series-completed", s>> \in events[m]
      BY <1>1, <2>2, <3>2 DEF OpenerInvariant, OverlapInvariant, SeriesTold
    <3>4. Placed(m) /\ series[m] = s
      BY <1>1, <3>3 DEF OpenerInvariant, OverlapInvariant, SawAll
    <3> QED BY <2>3, <3>3, <3>4 DEF Announced
  <2>5. ASSUME NEW n \in Stored(s) PROVE Announced(<<"patch-completed", n>>)
    <3>1. SentAndCounted(Sender[n], series[n], Number[n])
      <4>1. \A k \in 1..Number[n] : k \in 1..Total
        BY <1>1, <2>2 DEF Mailing
      <4> QED BY <2>1, <2>2, <4>1 DEF SentAndCounted
    <3>2. PICK m \in Mails : <<"patch-completed", n>> \in events[m]
      BY <1>1, <2>2, <3>1 DEF OpenerInvariant, OverlapInvariant, PatchesTold
    <3>3. Placed(m) /\ series[m] = s
      BY <1>1, <2>2, <3>2 DEF OpenerInvariant, OverlapInvariant, SawAll, Seen
    <3> QED BY <2>3, <3>2, <3>3 DEF Announced
  <2> QED BY <2>4, <2>5
<1>2. Mailing => (OpenerInvariant => OneSenderIsServed)
  BY <1>1
<1> QED BY <1>2, OpenerInvariantHolds, PTL
=============================================================================
