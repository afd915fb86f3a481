-------------------------------- MODULE Overlap --------------------------------
(***************************************************************************)
(* Ingestion by several sessions of the SMTP server at a time: the patches *)
(* of one mailing, with one project, version and total and dates within    *)
(* the delay, each in a transaction of its own (ParseMail, handlePatch).   *)
(*                                                                         *)
(* Transactions run under READ COMMITTED, the default of PostgreSQL        *)
(* (db.Begin asks for no other level): a statement sees what was committed *)
(* before it and the transaction's own rows, and one that meets a row of   *)
(* an open transaction under the same unique key waits for its end.  A     *)
(* transaction that fails is rolled back, the mail is answered with 451    *)
(* and comes again.  Ingest is the same handler in one step.               *)
(***************************************************************************)
EXTENDS Integers, FiniteSets, Sequences, Functions

CONSTANTS
  Mails,        \* patches of the mailing, which pass for their message ids
  Cover,        \* its cover letter
  Sender,       \* of a mail
  Number,       \* of a patch, at least 1
  Refs,         \* a patch's In-Reply-To and References
  Total,        \* the total of the mailing
  None

Ids == Mails \cup {Cover}

VARIABLES
  pc,           \* how far the transaction of a mail is
  series,       \* the series it has found or created, named by the mail that
                \* created it
  reference,    \* table series_reference: the series of a message id and the
                \* transaction that filed it
  filed,        \* how many of its message ids a transaction has filed
  events        \* the events of a transaction, published when it is done

overlapVars == <<pc, series, reference, filed, events>>

\* The patch's row has its place; the transaction is open; or it is over.
Placed(n) == pc[n] \in {"counting", "following", "closing", "committing", "done"}

Open(m) == pc[m] \notin {"queued", "done"}

\* Mutant: uncommitted rows are read too.
MutantVisible(m, n) == TRUE

Visible(m, n) == n = m \/ pc[n] = "done"

\* The patches that m sees in series s.
Seen(m, s) == {n \in Mails : Visible(m, n) /\ Placed(n) /\ series[n] = s}

-----------------------------------------------------------------------------
\* Mutant: ON CONFLICT DO NOTHING, which locks no row.
MutantGetOrCreatePerson(m) ==
  /\ pc[m] = "queued"
  /\ pc' = [pc EXCEPT ![m] = "finding"]
  /\ UNCHANGED <<series, reference, filed, events>>

\* ON CONFLICT DO UPDATE: the sender's row stays locked until the end of the
\* transaction.
GetOrCreatePerson(m) ==
  /\ pc[m] = "queued"
  /\ \A n \in Mails : Open(n) => Sender[n] # Sender[m]
  /\ pc' = [pc EXCEPT ![m] = "finding"]
  /\ UNCHANGED <<series, reference, filed, events>>

\* Found by references first, then by markers, with the patch's place free; or
\* created.
FindSeries(m) ==
  LET free       == {s \in Ids : \A n \in Seen(m, s) : Number[n] # Number[m]}
      rows       == {reference[r] : r \in Range(Refs[m])} \ {None}
      referenced == {row.series : row \in {r \in rows : Visible(m, r.by)}}
      marked     == {s \in Ids : /\ series[s] = s /\ Visible(m, s)
                                 /\ Sender[s] = Sender[m]}
  IN /\ pc[m] = "finding"
     /\ \E s \in IF referenced \cap free # {} THEN referenced \cap free
                 ELSE IF marked \cap free # {} THEN marked \cap free ELSE {m} :
          series' = [series EXCEPT ![m] = s]
     /\ pc' = [pc EXCEPT ![m] = "filing"]
     /\ UNCHANGED <<reference, filed, events>>

\* Its own message id, then those it refers to.
AllRefs(m) == <<m>> \o Refs[m]

\* ON CONFLICT DO NOTHING, once it is known whether there is a conflict.
CreateSeriesReference(m) ==
  LET id  == AllRefs(m)[filed[m] + 1]
      row == reference[id]
  IN /\ pc[m] = "filing"
     /\ row # None => Visible(m, row.by)
     /\ reference' = IF row # None THEN reference
                     ELSE [reference EXCEPT ![id] = [series |-> series[m], by |-> m]]
     /\ filed' = [filed EXCEPT ![m] = @ + 1]
     /\ pc' = IF filed'[m] = Len(AllRefs(m)) THEN [pc EXCEPT ![m] = "placing"] ELSE pc
     /\ UNCHANGED <<series, events>>

\* The unique key on series and number: with no other row, not even of an open
\* transaction, under it.
UpdatePatchSeries(m) ==
  /\ pc[m] = "placing"
  /\ \A n \in Mails : Placed(n) /\ series[n] = series[m] => Number[n] # Number[m]
  /\ pc' = [pc EXCEPT ![m] = "counting"]
  /\ UNCHANGED <<series, reference, filed, events>>

Queue(m, new) == events' = [events EXCEPT ![m] = @ \cup new]

CountPredecessorPatches(m) ==
  LET before == {n \in Seen(m, series[m]) : Number[n] < Number[m]}
  IN /\ pc[m] = "counting"
     /\ IF Cardinality(before) = Number[m] - 1
        THEN /\ Queue(m, {<<"patch-completed", m>>})
             /\ pc' = [pc EXCEPT ![m] = "following"]
        ELSE /\ pc' = [pc EXCEPT ![m] = "closing"]
             /\ UNCHANGED events
     /\ UNCHANGED <<series, reference, filed>>

\* Those that follow without a gap.
GetSuccessorPatches(m) ==
  LET numbers == {Number[n] : n \in Seen(m, series[m])}
      next    == {n \in Seen(m, series[m]) :
                    Number[n] > Number[m] /\ Number[m]..Number[n] \subseteq numbers}
  IN /\ pc[m] = "following"
     /\ Queue(m, {<<"patch-completed", n>> : n \in next})
     /\ pc' = [pc EXCEPT ![m] = "closing"]
     /\ UNCHANGED <<series, reference, filed>>

CountPatchesInSeries(m) ==
  /\ pc[m] = "closing"
  /\ IF Cardinality(Seen(m, series[m])) >= Total
     THEN Queue(m, {<<"series-completed", series[m]>>}) ELSE UNCHANGED events
  /\ pc' = [pc EXCEPT ![m] = "committing"]
  /\ UNCHANGED <<series, reference, filed>>

Commit(m) ==
  /\ pc[m] = "committing"
  /\ pc' = [pc EXCEPT ![m] = "done"]
  /\ UNCHANGED <<series, reference, filed, events>>

\* The end of a transaction that cannot go on: its place is taken, it waits for
\* one that waits for it, or the database fails.
Rollback(m) ==
  /\ Open(m)
  /\ pc' = [pc EXCEPT ![m] = "queued"]
  /\ series' = [series EXCEPT ![m] = None]
  /\ reference' = [id \in Ids |-> IF reference[id] # None /\ reference[id].by = m
                                  THEN None ELSE reference[id]]
  /\ filed' = [filed EXCEPT ![m] = 0]
  /\ events' = [events EXCEPT ![m] = {}]

-----------------------------------------------------------------------------
\* The cover letter came before all patches, or is lost.
OverlapInit ==
  \E cover \in {None, Cover} :
    /\ pc = [n \in Ids |-> IF n = cover THEN "done" ELSE "queued"]
    /\ series = [n \in Ids |-> IF n = cover THEN Cover ELSE None]
    /\ reference = [id \in Ids |-> IF id = cover THEN [series |-> Cover, by |-> Cover]
                                   ELSE None]
    /\ filed = [m \in Mails |-> 0]
    /\ events = [m \in Mails |-> {}]

ParseMail(m) ==
  \/ GetOrCreatePerson(m) \/ FindSeries(m) \/ CreateSeriesReference(m)
  \/ UpdatePatchSeries(m)
  \/ CountPredecessorPatches(m) \/ GetSuccessorPatches(m) \/ CountPatchesInSeries(m)
  \/ Commit(m) \/ Rollback(m)

OverlapNext == \E m \in Mails : ParseMail(m)

OverlapSpec == OverlapInit /\ [][OverlapNext]_overlapVars

-----------------------------------------------------------------------------
(* Properties                                                              *)

Event == ({"patch-completed"} \X Mails) \cup ({"series-completed"} \X Ids)

OverlapTypeOK ==
  /\ pc \in [Ids -> {"queued", "finding", "filing", "placing", "counting",
                     "following", "closing", "committing", "done"}]
  /\ series \in [Ids -> Ids \cup {None}]
  /\ reference \in [Ids -> [series: Ids, by: Ids] \cup {None}]
  /\ filed \in [Mails -> Nat]
  /\ events \in [Mails -> SUBSET Event]

\* However the transactions overlap, no two of them announce that a patch or a
\* series is completed: of two that fill the last gaps, at most one sees the
\* other.
AnnouncedOnce ==
  \A m, n \in Mails :
    pc[m] = "done" /\ pc[n] = "done" /\ events[m] \cap events[n] # {} => m = n

Stored(s) == {n \in Mails : pc[n] = "done" /\ series[n] = s}

Announced(e) == \E m \in Mails : pc[m] = "done" /\ e \in events[m]

Complete(s) == {Number[n] : n \in Stored(s)} = 1..Total

\* The mail n has opened a series of its own.
Opens(n) == series[n] = n

\* What n would be in series s is there already: n is a repetition.
TakenIn(s, n) == n \in Mails /\ \E q \in Stored(s) : Number[q] = Number[n]

\* The lock on the sender's row keeps the transactions of one person apart.  So
\* two mails of one person open two series only if one of them repeats a patch
\* that the other's series has, and not because neither saw the other; and a
\* series that one person sent is announced when it is complete, with all its
\* patches.
OneSenderIsServed ==
  /\ \A m, n \in Ids :
       m # n /\ Opens(m) /\ Opens(n) /\ Sender[m] = Sender[n]
         => TakenIn(m, n) \/ TakenIn(n, m)
  /\ \A s \in Ids :
       Complete(s) /\ (\A n, q \in Stored(s) : Sender[n] = Sender[q])
         => /\ Announced(<<"series-completed", s>>)
            /\ \A n \in Stored(s) : Announced(<<"patch-completed", n>>)

\* What the documentation says, and the code does not do: series-completed is
\* "Sent when a series is completed".
CompletionIsAnnounced ==
  \A s \in Ids : Complete(s) => Announced(<<"series-completed", s>>)
=============================================================================
