------------------------------ MODULE MCIngest ------------------------------
(***************************************************************************)
(* Mailings for model-checking Ingest.  Each set of mails is a situation   *)
(* of a mailing list; an initial state takes one, and TLC delivers it in   *)
(* every order, with duplicates and losses.                                *)
(***************************************************************************)
EXTENDS Ingest

CONSTANT Mailings   \* the sets of mails to choose from

VARIABLE mailing    \* the one that is delivered

\* A patch numbered n of t, version v, of the thread started by refs.
Patch(id, p, a, d, n, t, v, name, refs) ==
  [msgid |-> id, project |-> p, author |-> a, date |-> d, reply |-> FALSE,
   code |-> TRUE, number |-> n, total |-> t, version |-> v, name |-> name,
   refs |-> refs, dependsOn |-> {}]

Cover(id, p, a, d, t, v, name, refs) ==
  [Patch(id, p, a, d, 0, t, v, name, refs) EXCEPT !.code = FALSE]

Reply(id, p, a, d, refs) ==
  [Patch(id, p, a, d, 0, 0, 1, "fix", refs) EXCEPT !.code = FALSE, !.reply = TRUE]

DependsOn(m, ids) == [m EXCEPT !.dependsOn = ids]

MCNames ==
  {"1/2 fix", "1/3 fix", "2/3 fix", "3/3 fix", "fix", "2/2 test", "test",
   "0/2 topic", "topic", "0/2 other", "other"}

MCTitle ==
  [n \in MCNames |->
     CASE n \in {"1/2 fix", "1/3 fix", "2/3 fix", "3/3 fix"} -> "fix"
       [] n = "2/2 test"  -> "test"
       [] n = "0/2 topic" -> "topic"
       [] n = "0/2 other" -> "other"
       [] OTHER           -> n]

\* "topic" and "other" pass for two spellings of one title.
MCSimilarity ==
  [k \in MCNames \X MCNames |->
     IF k[1] = k[2] THEN 100
     ELSE IF k[1] \in {"topic", "other"} /\ k[2] \in {"topic", "other"} THEN 80
     ELSE 20]

MCPeople   == {"alice", "bob"}
MCProjects == {"net", "mm"}
MCMsgIds   == {"a0", "a1", "a2", "a3", "b0", "b1", "b2", "b3", "c1", "c2", "c3", "c4"}

-----------------------------------------------------------------------------
\* Three versions of a threaded series by alice, each in reply to the first and
\* the last reduced to one patch.
Versions ==
  {Cover("a0", "net", "alice", 5, 2, 1, "0/2 topic", <<>>),
   Patch("a1", "net", "alice", 5, 1, 2, 1, "1/2 fix", <<"a0">>),
   Patch("a2", "net", "alice", 6, 2, 2, 1, "2/2 test", <<"a0">>),
   Cover("b0", "net", "alice", 7, 2, 2, "0/2 other", <<"a0">>),
   Patch("b1", "net", "alice", 7, 1, 2, 2, "1/2 fix", <<"b0", "a0">>),
   Patch("b2", "net", "alice", 8, 2, 2, 2, "2/2 test", <<"b0", "a0">>),
   Patch("c1", "net", "alice", 9, 1, 1, 3, "fix", <<"b0", "a0">>)}

\* The first two, patch 2 of each sent by bob.
TwoSenders ==
  {IF m.number = 2 THEN [m EXCEPT !.author = "bob"] ELSE m :
     m \in {t \in Versions : t.version < 3}}

\* Two threads in one project at a time: of alice and bob together, with a
\* cover letter, and of bob alone, without one, of three patches.
Threads ==
  {Cover("a0", "net", "alice", 5, 2, 1, "0/2 topic", <<>>),
   Patch("a1", "net", "alice", 5, 1, 2, 1, "1/2 fix", <<"a0">>),
   Patch("a2", "net", "bob", 6, 2, 2, 1, "2/2 test", <<"a0">>),
   Patch("b1", "net", "bob", 5, 1, 3, 1, "1/3 fix", <<>>),
   Patch("b2", "net", "bob", 5, 2, 3, 1, "2/3 fix", <<"b1">>),
   Patch("b3", "net", "bob", 6, 3, 3, 1, "3/3 fix", <<"b1">>)}

\* Two threads with the same markers: alice posts two series of two patches
\* within the delay, and then patch 1 of the first once more.
Twins ==
  {Cover("a0", "net", "alice", 5, 2, 1, "0/2 topic", <<>>),
   Patch("a1", "net", "alice", 5, 1, 2, 1, "1/2 fix", <<"a0">>),
   Patch("a2", "net", "alice", 5, 2, 2, 1, "2/2 test", <<"a0">>),
   Patch("a3", "net", "alice", 6, 1, 2, 1, "1/2 fix", <<"a0">>),
   Cover("b0", "net", "alice", 6, 2, 1, "0/2 other", <<>>),
   Patch("b1", "net", "alice", 6, 1, 2, 1, "1/2 fix", <<"b0">>),
   Patch("b2", "net", "alice", 6, 2, 2, 1, "2/2 test", <<"b0">>)}

\* The same with the second cover letter sent as a pull request.
PulledTwins ==
  {[m EXCEPT !.code = m.code \/ m.msgid = "b0"] : m \in Twins}

\* A series posted to two lists, with a cover letter that depends on a patch of
\* another series, itself posted to both lists, and its discussion: replies to
\* the patch and to the cover letter, and to a reply on both lists.
Lists ==
  LET a1(p) == Patch("a1", p, "alice", 5, 1, 1, 1, "fix", <<>>)
      b0(p) == Cover("b0", p, "bob", 5, 1, 1, "0/2 topic", <<>>)
      b1(p) == Patch("b1", p, "bob", 5, 1, 1, 1, "test", <<"b0">>)
  IN {a1(p) : p \in MCProjects}
       \cup {DependsOn(b0(p), {"a1"}) : p \in MCProjects}
       \cup {b1("net"), DependsOn(b1("mm"), {"b0", "a1"})}
       \cup {Reply("c1", "net", "alice", 6, <<"b1", "b0">>)}
       \cup {Reply("c2", p, "bob", 7, <<"c1", "b1", "b0">>) : p \in MCProjects}
       \cup {Reply("c3", "net", "alice", 8, <<"c2", "b0">>)}
-----------------------------------------------------------------------------
AllMails == UNION Mailings

Situations == {Versions, Threads, PulledTwins, Lists}

SplitThread == {TwoSenders}

CrossPosted == {Lists}

MCInit == Init /\ mailing \in Mailings

MCNext == UNCHANGED mailing /\ \E m \in mailing : ParseMail(m)

MCSpec == MCInit /\ [][MCNext]_<<vars, mailing>>
=============================================================================
