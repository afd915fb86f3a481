---------------------------- MODULE MailBodyProofs ----------------------------
(***************************************************************************)
(* Proofs about the parser of mail bodies: its locals keep their types,    *)
(* and no line is lost, repeated or made up, whatever the mail; the diff   *)
(* of any mail that git, svn or diff wrote is found whole, and found again *)
(* in the mailbox that is made of it.  And about the similarity of titles, *)
(* for any two titles: each row that is computed has the lengths of        *)
(* longest common subsequences.                                            *)
(***************************************************************************)
EXTENDS MailBody, Titles, SequenceTheorems, FiniteSetTheorems, WellFoundedInduction, TLAPS

CONSTANT Characters                                        \* of the titles

\* The lines of mails, and those that Format adds.
Lines ==
  (UNION {ToSet(m.lines) : m \in Mails}) \cup ToSet(Tags) \cup ToSet(Signature)
    \cup {Separator, Blank}

\* What the proofs assume of the mails: a body is a sequence of lines, and a
\* hunk header has the two counts that the regular expression reads from it.
Bodies ==
  /\ \A m \in Mails : m.lines \in Seq(Lines)
  /\ \A line \in Lines : line.kind = "hunk" => line.old \in Nat /\ line.new \in Nat

States == {"Text", "DiffHeader", "FileOld", "FileNew", "Hunk", "ExtHeader", "Binary"}

Parsers ==
  [state: States, old: Int, new: Int, hunks: Nat,
   patch: Seq(Lines), comment: Seq(Lines), buf: Seq(Lines)]

(***************************************************************************)
(* Least numbers, in place of induction.                                   *)
(***************************************************************************)

LEMMA BelowIsWellFounded ==
  IsWellFoundedOn({ss \in Nat \X Nat : ss[1] < ss[2]}, Nat)
BY NatLessThanWellFounded DEF OpToRel

LEMMA LeastOf ==
  ASSUME NEW S \in SUBSET Nat, S # {}
  PROVE  \E k \in S : \A j \in S : k <= j
<1> DEFINE R == {ss \in Nat \X Nat : ss[1] < ss[2]}
<1>1. PICK k \in S : \A j \in S : ~(<<j, k>> \in R)
  <2>1. IsWellFoundedOn(R, Nat)
    BY BelowIsWellFounded
  <2> HIDE DEF R
  <2> QED BY <2>1, WFMin
<1>2. ASSUME NEW j \in S PROVE k <= j
  <2>1. j \in Nat /\ k \in Nat /\ <<j, k>> \notin R
    BY <1>1
  <2> QED BY <2>1
<1> QED BY <1>2

(***************************************************************************)
(* What becomes of a line, and of those that wait.                         *)
(***************************************************************************)

Waits(p, line, q) ==
  q.patch = p.patch /\ q.comment = p.comment /\ q.buf = Append(p.buf, line)

Taken(p, line, q) ==
  \/ /\ q.patch = p.patch \o p.buf \o <<line>> /\ q.buf = <<>>
     /\ q.comment = p.comment
  \/ q.patch = Append(p.patch, line) /\ q.buf = p.buf /\ q.comment = p.comment

GivenUp(p, line, q) ==
  \/ /\ q.comment = p.comment \o p.buf \o <<line>> /\ q.buf = <<>>
     /\ q.patch = p.patch
  \/ q.comment = Append(p.comment, line) /\ q.buf = p.buf /\ q.patch = p.patch

Goes(p, line, q) == Waits(p, line, q) \/ Taken(p, line, q) \/ GivenUp(p, line, q)

LEMMA HoldFacts ==
  ASSUME NEW p \in Parsers, NEW line \in Lines, NEW state \in States
  PROVE  Hold(p, line, state) \in Parsers /\ Goes(p, line, Hold(p, line, state))
<1>1. Append(p.buf, line) \in Seq(Lines)
  BY DEF Parsers
<1> QED BY <1>1 DEF Hold, Parsers, Goes, Waits

LEMMA TakeAsFacts ==
  ASSUME NEW p \in Parsers, NEW line \in Lines, NEW state \in States
  PROVE  TakeAs(p, line, state) \in Parsers /\ Goes(p, line, TakeAs(p, line, state))
<1>1. p.patch \o p.buf \o <<line>> \in Seq(Lines) /\ <<>> \in Seq(Lines)
  BY DEF Parsers
<1> QED BY <1>1 DEF TakeAs, Parsers, Goes, Taken

LEMMA GiveUpFacts ==
  ASSUME NEW p \in Parsers, NEW line \in Lines
  PROVE  GiveUp(p, line) \in Parsers /\ Goes(p, line, GiveUp(p, line))
<1>1. p.comment \o p.buf \o <<line>> \in Seq(Lines) /\ <<>> \in Seq(Lines)
  BY DEF Parsers
<1> QED BY <1>1 DEF GiveUp, Parsers, Goes, GivenUp, States

\* Whatever the state, a line waits, or is taken into the diff, or is comment.
LEMMA StepGoes ==
  ASSUME Bodies, NEW p \in Parsers, NEW line \in Lines
  PROVE  Step(p, line) \in Parsers /\ Goes(p, line, Step(p, line))
<1>1. /\ Append(p.patch, line) \in Seq(Lines) /\ Append(p.comment, line) \in Seq(Lines)
      /\ p.state \in States
  BY DEF Parsers
<1>2. [p EXCEPT !.comment = Append(@, line)] \in Parsers
      /\ Goes(p, line, [p EXCEPT !.comment = Append(@, line)])
  BY <1>1 DEF Parsers, Goes, GivenUp
<1>3. [p EXCEPT !.patch = Append(@, line)] \in Parsers
      /\ Goes(p, line, [p EXCEPT !.patch = Append(@, line)])
  BY <1>1 DEF Parsers, Goes, Taken
<1>4. InText(p, line) \in Parsers /\ Goes(p, line, InText(p, line))
  BY <1>2, HoldFacts DEF InText, States
<1>5. InDiffHeader(p, line) \in Parsers /\ Goes(p, line, InDiffHeader(p, line))
  BY HoldFacts DEF InDiffHeader, States
<1>6. InFileOld(p, line) \in Parsers /\ Goes(p, line, InFileOld(p, line))
  BY HoldFacts, GiveUpFacts DEF InFileOld, States
<1>7. InFileNew(p, line) \in Parsers /\ Goes(p, line, InFileNew(p, line))
  <2>1. CASE line.kind = "hunk"
    <3> DEFINE q == TakeAs(p, line, "Hunk")
               r == [q EXCEPT !.old = line.old, !.new = line.new]
    <3>1. q \in Parsers /\ Goes(p, line, q)
      BY TakeAsFacts DEF States
    <3>2. line.old \in Int /\ line.new \in Int
      BY <2>1 DEF Bodies
    <3>3. InFileNew(p, line) = r
      BY <2>1 DEF InFileNew
    <3> HIDE DEF q
    <3>4. r \in Parsers /\ Goes(p, line, r)
      BY <3>1, <3>2 DEF Parsers, Goes, Waits, Taken, GivenUp
    <3> QED BY <3>3, <3>4
  <2>2. CASE line.kind = "old"
    BY <2>2, TakeAsFacts DEF InFileNew, States
  <2>3. CASE line.kind = "nonl" /\ p.hunks > 0
    BY <2>3, <1>3 DEF InFileNew
  <2>4. CASE line.kind \notin {"hunk", "old", "nonl"} /\ p.hunks > 0
    BY <2>4, HoldFacts DEF InFileNew, States
  <2>5. CASE line.kind \notin {"hunk", "old"} /\ ~(p.hunks > 0)
    BY <2>5, GiveUpFacts DEF InFileNew
  <2> QED BY <2>1, <2>2, <2>3, <2>4, <2>5
<1>8. InHunk(p, line) \in Parsers /\ Goes(p, line, InHunk(p, line))
  <2>1. Counts(line).old \in Int /\ Counts(line).new \in Int
    BY DEF Counts
  <2> DEFINE old  == p.old - Counts(line).old
             new  == p.new - Counts(line).new
             more == [p EXCEPT !.patch = Append(@, line), !.old = old, !.new = new]
  <2>2. old \in Int /\ new \in Int
    BY <2>1 DEF Parsers
  <2>3. InHunk(p, line) = IF old <= 0 /\ new <= 0
                          THEN [more EXCEPT !.state = "FileNew", !.hunks = @ + 1]
                          ELSE more
    BY DEF InHunk
  <2> HIDE DEF old, new
  <2>4. more \in Parsers /\ Goes(p, line, more)
    BY <1>1, <2>2 DEF Parsers, Goes, Taken
  <2> HIDE DEF more
  <2>5. [more EXCEPT !.state = "FileNew", !.hunks = @ + 1] \in Parsers
        /\ Goes(p, line, [more EXCEPT !.state = "FileNew", !.hunks = @ + 1])
    <3> DEFINE q == [more EXCEPT !.state = "FileNew", !.hunks = @ + 1]
    <3>1. more.hunks + 1 \in Nat /\ "FileNew" \in States
      BY <2>4 DEF Parsers, States
    <3>2. q \in Parsers /\ q.patch = more.patch /\ q.buf = more.buf
          /\ q.comment = more.comment
      BY <2>4, <3>1 DEF Parsers
    <3> HIDE DEF q
    <3>3. Goes(p, line, q)
      BY <2>4, <3>2 DEF Goes, Waits, Taken, GivenUp
    <3> QED BY <3>2, <3>3 DEF q
  <2> QED BY <2>3, <2>4, <2>5
<1>9. InExtHeader(p, line) \in Parsers /\ Goes(p, line, InExtHeader(p, line))
  BY HoldFacts, TakeAsFacts DEF InExtHeader, States
<1>10. InBinary(p, line) \in Parsers /\ Goes(p, line, InBinary(p, line))
  BY HoldFacts, TakeAsFacts DEF InBinary, States
<1> QED BY <1>1, <1>4, <1>5, <1>6, <1>7, <1>8, <1>9, <1>10 DEF Step, States

(***************************************************************************)
(* The lines of sequences that are put together.                           *)
(***************************************************************************)

LEMMA LinesOfAppend ==
  ASSUME NEW S, NEW s \in Seq(S), NEW x \in S, NEW u, u = Append(s, x)
  PROVE  ToSet(u) = ToSet(s) \cup {x} /\ Len(u) = Len(s) + 1
<1>1. DOMAIN s = 1..Len(s) /\ Len(s) \in Nat
  OBVIOUS
<1>2. /\ DOMAIN u = 1..(Len(s) + 1) /\ u[Len(s) + 1] = x /\ Len(u) = Len(s) + 1
      /\ \A i \in 1..Len(s) : u[i] = s[i]
  OBVIOUS
<1>3. ToSet(u) = ToSet(s) \cup {x}
  BY ONLY <1>1, <1>2 DEF ToSet
<1> QED BY <1>2, <1>3

\* The lines of u are those of s and then those of t.
Joined(S, u, s, t) ==
  /\ u \in Seq(S) /\ Len(u) = Len(s) + Len(t)
  /\ Len(s) \in Nat /\ Len(t) \in Nat /\ Len(u) \in Nat
  /\ \A i \in 1..Len(s) : u[i] = s[i]
  /\ \A i \in 1..Len(t) : u[Len(s) + i] = t[i]
  /\ \A i \in 1..Len(u) : i > Len(s) => i - Len(s) \in 1..Len(t) /\ u[i] = t[i - Len(s)]
  /\ ToSet(u) = ToSet(s) \cup ToSet(t)

LEMMA LinesJoined ==
  ASSUME NEW S, NEW s \in Seq(S), NEW t \in Seq(S)
  PROVE  Joined(S, s \o t, s, t)
<1> DEFINE u == s \o t
<1>1. /\ Len(s) \in Nat /\ Len(t) \in Nat
      /\ DOMAIN s = 1..Len(s) /\ DOMAIN t = 1..Len(t)
  OBVIOUS
<1>2. /\ u \in Seq(S) /\ Len(u) = Len(s) + Len(t)
      /\ \A i \in 1..(Len(s) + Len(t)) :
           u[i] = IF i <= Len(s) THEN s[i] ELSE t[i - Len(s)]
  BY ConcatProperties
<1> HIDE DEF u
<1>3. DOMAIN u = 1..(Len(s) + Len(t))
  BY ONLY <1>2
<1>4. \A i \in 1..Len(s) : u[i] = s[i] /\ i \in 1..(Len(s) + Len(t))
  BY ONLY <1>1, <1>2
<1>5. \A i \in 1..Len(t) : u[Len(s) + i] = t[i] /\ Len(s) + i \in 1..(Len(s) + Len(t))
  <2>1. ASSUME NEW i \in 1..Len(t)
        PROVE  u[Len(s) + i] = t[i] /\ Len(s) + i \in 1..(Len(s) + Len(t))
    <3>1. Len(s) + i \in 1..(Len(s) + Len(t)) /\ ~(Len(s) + i <= Len(s))
          /\ (Len(s) + i) - Len(s) = i
      BY ONLY <1>1, <2>1
    <3> QED BY ONLY <1>2, <3>1
  <2> QED BY <2>1
<1>6. \A i \in 1..(Len(s) + Len(t)) : i > Len(s) =>
        i - Len(s) \in 1..Len(t) /\ u[i] = t[i - Len(s)]
  BY ONLY <1>1, <1>2
<1>7. \A i \in 1..(Len(s) + Len(t)) : i > Len(s) \/ i \in 1..Len(s)
  BY ONLY <1>1
<1>8. ToSet(u) = ToSet(s) \cup ToSet(t)
  <2>1. ASSUME NEW x \in ToSet(s) \cup ToSet(t) PROVE x \in ToSet(u)
    BY ONLY <1>1, <1>3, <1>4, <1>5, <2>1 DEF ToSet
  <2>2. ASSUME NEW x \in ToSet(u) PROVE x \in ToSet(s) \cup ToSet(t)
    <3>1. PICK i \in 1..(Len(s) + Len(t)) : x = u[i]
      BY ONLY <1>3, <2>2 DEF ToSet
    <3>2. CASE i \in 1..Len(s)
      BY ONLY <1>1, <1>4, <3>1, <3>2 DEF ToSet
    <3>3. CASE i > Len(s)
      BY ONLY <1>1, <1>6, <3>1, <3>3 DEF ToSet
    <3> QED BY <1>7, <3>2, <3>3
  <2> QED BY ONLY <2>1, <2>2
<1>9. Joined(S, u, s, t)
  BY ONLY <1>1, <1>2, <1>4, <1>5, <1>6, <1>8 DEF Joined
<1> QED BY <1>9 DEF u

\* Lines are in the same order however they are put together.
Regroup(s, t, u) == (s \o t) \o u = s \o (t \o u)

LEMMA Regrouped ==
  ASSUME NEW S, NEW s \in Seq(S), NEW t \in Seq(S), NEW u \in Seq(S)
  PROVE  Regroup(s, t, u)
<1> DEFINE st == s \o t
           tu == t \o u
           a == st \o u
           b == s \o tu
<1>1. Joined(S, st, s, t) /\ Joined(S, tu, t, u)
  BY LinesJoined
<1>2. st \in Seq(S) /\ tu \in Seq(S)
  BY ONLY <1>1 DEF Joined
<1> HIDE DEF st, tu
<1>3. Joined(S, a, st, u) /\ Joined(S, b, s, tu)
  BY <1>2, LinesJoined
<1> HIDE DEF a, b
<1>4. a \in Seq(S) /\ b \in Seq(S) /\ Len(a) = Len(b)
  BY ONLY <1>1, <1>3 DEF Joined
<1>5. ASSUME NEW i \in 1..Len(a) PROVE a[i] = b[i]
  <2>1. CASE i <= Len(s)
    <3>1. i \in 1..Len(s) /\ i \in 1..Len(st)
      BY ONLY <1>1, <2>1, i \in 1..Len(a) DEF Joined
    <3> QED BY ONLY <1>1, <1>3, <3>1 DEF Joined
  <2>2. CASE i > Len(s) /\ i <= Len(s) + Len(t)
    <3> DEFINE j == i - Len(s)
    <3>1. j \in 1..Len(t) /\ j \in 1..Len(tu) /\ i \in 1..Len(st) /\ i = Len(s) + j
      BY ONLY <1>1, <2>2, i \in 1..Len(a) DEF Joined
    <3> HIDE DEF j
    <3>2. a[i] = st[i] /\ st[i] = t[j]
      BY ONLY <1>1, <1>3, <3>1 DEF Joined
    <3>3. b[i] = tu[j] /\ tu[j] = t[j]
      BY ONLY <1>1, <1>3, <3>1 DEF Joined
    <3> QED BY ONLY <3>2, <3>3
  <2>3. CASE i > Len(s) + Len(t)
    <3> DEFINE j == i - Len(st)
               k == i - Len(s)
    <3>1. /\ j \in 1..Len(u) /\ k \in 1..Len(tu) /\ i = Len(st) + j /\ i = Len(s) + k
          /\ k = Len(t) + j
      BY ONLY <1>1, <1>3, <2>3, i \in 1..Len(a) DEF Joined
    <3> HIDE DEF j, k
    <3>2. a[i] = u[j]
      BY ONLY <1>3, <3>1 DEF Joined
    <3>3. b[i] = tu[k] /\ tu[k] = u[j]
      BY ONLY <1>1, <1>3, <3>1 DEF Joined
    <3> QED BY ONLY <3>2, <3>3
  <2>4. i \in Nat /\ Len(s) \in Nat /\ Len(t) \in Nat
    BY ONLY <1>1, <1>4, i \in 1..Len(a) DEF Joined
  <2> QED BY ONLY <2>1, <2>2, <2>3, <2>4
<1>6. a = b
  BY <1>4, <1>5, SeqEqual
<1> QED BY <1>6 DEF Regroup, a, b, st, tu

Single(one, line) == ToSet(one) = {line} /\ Len(one) = 1

\* One sequence takes the line, after those that waited if it takes these too.
Moved(patch, comment, buf, line, one, patch2, comment2, buf2) ==
  \/ patch2 = patch /\ comment2 = comment /\ buf2 = Append(buf, line)
  \/ patch2 = patch \o buf \o one /\ comment2 = comment /\ buf2 = <<>>
  \/ patch2 = Append(patch, line) /\ comment2 = comment /\ buf2 = buf
  \/ patch2 = patch /\ comment2 = comment \o buf \o one /\ buf2 = <<>>
  \/ patch2 = patch /\ comment2 = Append(comment, line) /\ buf2 = buf

Kept(patch, comment, buf, line, patch2, comment2, buf2) ==
  /\ ToSet(patch2) \cup ToSet(comment2) \cup ToSet(buf2)
       = ToSet(patch) \cup ToSet(comment) \cup ToSet(buf) \cup {line}
  /\ Len(patch2) + Len(comment2) + Len(buf2)
       = Len(patch) + Len(comment) + Len(buf) + 1

LEMMA MovedLinesAreKept ==
  ASSUME NEW S, NEW patch \in Seq(S), NEW comment \in Seq(S), NEW buf \in Seq(S),
         NEW line \in S, NEW one \in Seq(S),
         Single(one, line), NEW patch2, NEW comment2, NEW buf2,
         Moved(patch, comment, buf, line, one, patch2, comment2, buf2)
  PROVE  Kept(patch, comment, buf, line, patch2, comment2, buf2)
<1>1. Len(patch) \in Nat /\ Len(comment) \in Nat /\ Len(buf) \in Nat
  OBVIOUS
<1>2. PICK none : none = <<>>
  OBVIOUS
<1>3. ToSet(none) = {} /\ Len(none) = 0
  BY <1>2 DEF ToSet
<1>4. ToSet(one) = {line} /\ Len(one) = 1
  BY DEF Single
<1>5. CASE patch2 = patch /\ comment2 = comment /\ buf2 = Append(buf, line)
  <2>1. ToSet(buf2) = ToSet(buf) \cup {line} /\ Len(buf2) = Len(buf) + 1
    BY <1>5, LinesOfAppend
  <2>2. patch2 = patch /\ comment2 = comment
    BY <1>5
  <2>3. ToSet(patch2) \cup ToSet(comment2) \cup ToSet(buf2)
          = ToSet(patch) \cup ToSet(comment) \cup ToSet(buf) \cup {line}
    BY <2>1, <2>2
  <2>4. Len(patch2) + Len(comment2) + Len(buf2)
          = Len(patch) + Len(comment) + Len(buf) + 1
    BY <1>1, <2>1, <2>2
  <2> QED BY <2>3, <2>4 DEF Kept
<1>6. CASE patch2 = patch \o buf \o one /\ comment2 = comment /\ buf2 = <<>>
  <2>1. /\ ToSet(patch2) = ToSet(patch) \cup ToSet(buf) \cup ToSet(one)
        /\ Len(patch2) = Len(patch) + Len(buf) + Len(one)
    <3> DEFINE t == patch \o buf
    <3>1. Joined(S, t, patch, buf)
      BY LinesJoined
    <3>2. patch2 = t \o one
      BY <1>6
    <3> HIDE DEF t
    <3>3. t \in Seq(S) /\ ToSet(t) = ToSet(patch) \cup ToSet(buf)
          /\ Len(t) = Len(patch) + Len(buf)
      BY <3>1 DEF Joined
    <3>4. Joined(S, t \o one, t, one)
      BY ONLY <3>3, one \in Seq(S), LinesJoined
    <3>5. ToSet(patch2) = ToSet(t) \cup ToSet(one) /\ Len(patch2) = Len(t) + Len(one)
      BY ONLY <3>2, <3>4 DEF Joined
    <3> QED BY ONLY <3>3, <3>5
  <2>2. buf2 = none /\ comment2 = comment
    BY <1>2, <1>6
  <2>3. ToSet(patch2) \cup ToSet(comment2) \cup ToSet(buf2)
          = ToSet(patch) \cup ToSet(comment) \cup ToSet(buf) \cup {line}
    BY <1>3, <1>4, <2>1, <2>2
  <2>4. Len(patch2) + Len(comment2) + Len(buf2)
          = Len(patch) + Len(comment) + Len(buf) + 1
    BY <1>1, <1>3, <1>4, <2>1, <2>2
  <2> QED BY <2>3, <2>4 DEF Kept
<1>7. CASE patch2 = Append(patch, line) /\ comment2 = comment /\ buf2 = buf
  <2>1. ToSet(patch2) = ToSet(patch) \cup {line} /\ Len(patch2) = Len(patch) + 1
    BY <1>7, LinesOfAppend
  <2>2. comment2 = comment /\ buf2 = buf
    BY <1>7
  <2>3. ToSet(patch2) \cup ToSet(comment2) \cup ToSet(buf2)
          = ToSet(patch) \cup ToSet(comment) \cup ToSet(buf) \cup {line}
    BY <2>1, <2>2
  <2>4. Len(patch2) + Len(comment2) + Len(buf2)
          = Len(patch) + Len(comment) + Len(buf) + 1
    BY <1>1, <2>1, <2>2
  <2> QED BY <2>3, <2>4 DEF Kept
<1>8. CASE patch2 = patch /\ comment2 = comment \o buf \o one /\ buf2 = <<>>
  <2>1. /\ ToSet(comment2) = ToSet(comment) \cup ToSet(buf) \cup ToSet(one)
        /\ Len(comment2) = Len(comment) + Len(buf) + Len(one)
    <3> DEFINE t == comment \o buf
    <3>1. Joined(S, t, comment, buf)
      BY LinesJoined
    <3>2. comment2 = t \o one
      BY <1>8
    <3> HIDE DEF t
    <3>3. t \in Seq(S) /\ ToSet(t) = ToSet(comment) \cup ToSet(buf)
          /\ Len(t) = Len(comment) + Len(buf)
      BY <3>1 DEF Joined
    <3>4. Joined(S, t \o one, t, one)
      BY ONLY <3>3, one \in Seq(S), LinesJoined
    <3>5. ToSet(comment2) = ToSet(t) \cup ToSet(one) /\ Len(comment2) = Len(t) + Len(one)
      BY ONLY <3>2, <3>4 DEF Joined
    <3> QED BY ONLY <3>3, <3>5
  <2>2. buf2 = none /\ patch2 = patch
    BY <1>2, <1>8
  <2>3. ToSet(patch2) \cup ToSet(comment2) \cup ToSet(buf2)
          = ToSet(patch) \cup ToSet(comment) \cup ToSet(buf) \cup {line}
    BY <1>3, <1>4, <2>1, <2>2
  <2>4. Len(patch2) + Len(comment2) + Len(buf2)
          = Len(patch) + Len(comment) + Len(buf) + 1
    BY <1>1, <1>3, <1>4, <2>1, <2>2
  <2> QED BY <2>3, <2>4 DEF Kept
<1>9. CASE patch2 = patch /\ comment2 = Append(comment, line) /\ buf2 = buf
  <2>1. ToSet(comment2) = ToSet(comment) \cup {line} /\ Len(comment2) = Len(comment) + 1
    BY <1>9, LinesOfAppend
  <2>2. patch2 = patch /\ buf2 = buf
    BY <1>9
  <2>3. ToSet(patch2) \cup ToSet(comment2) \cup ToSet(buf2)
          = ToSet(patch) \cup ToSet(comment) \cup ToSet(buf) \cup {line}
    BY <2>1, <2>2
  <2>4. Len(patch2) + Len(comment2) + Len(buf2)
          = Len(patch) + Len(comment) + Len(buf) + 1
    BY <1>1, <2>1, <2>2
  <2> QED BY <2>3, <2>4 DEF Kept
<1> QED BY <1>5, <1>6, <1>7, <1>8, <1>9 DEF Moved

\* One line more is read.
LEMMA LinesOfPrefix ==
  ASSUME NEW S, NEW s \in Seq(S), NEW n \in Nat, n < Len(s)
  PROVE  ToSet(SubSeq(s, 1, n + 1)) = ToSet(SubSeq(s, 1, n)) \cup {s[n + 1]}
<1> DEFINE t == SubSeq(s, 1, n)
           u == SubSeq(s, 1, n + 1)
<1>1. Len(s) \in Nat
  OBVIOUS
<1>2. DOMAIN t = 1..n /\ \A i \in 1..n : t[i] = s[i]
  BY <1>1, SubSeqProperties
<1>3. DOMAIN u = 1..(n + 1) /\ \A i \in 1..(n + 1) : u[i] = s[i]
  BY <1>1, SubSeqProperties
<1> HIDE DEF t, u
<1>4. ToSet(u) = ToSet(t) \cup {s[n + 1]}
  BY <1>2, <1>3 DEF ToSet
<1> QED BY <1>4 DEF t, u

(***************************************************************************)
(* The results.                                                            *)
(***************************************************************************)

ParserInvariant ==
  /\ mail \in Mails
  /\ read \in 0..Len(mail.lines)
  /\ parser \in Parsers
  /\ NothingIsLost

\* No line is lost, repeated or made up when one goes its way.
LEMMA GoesKeepsLines ==
  ASSUME NEW p \in Parsers, NEW q \in Parsers, NEW line \in Lines, Goes(p, line, q)
  PROVE  /\ ToSet(q.patch) \cup ToSet(q.comment) \cup ToSet(q.buf)
              = ToSet(p.patch) \cup ToSet(p.comment) \cup ToSet(p.buf) \cup {line}
         /\ Len(q.patch) + Len(q.comment) + Len(q.buf)
              = Len(p.patch) + Len(p.comment) + Len(p.buf) + 1
<1> DEFINE patch   == p.patch
           comment == p.comment
           buf     == p.buf
           patch2   == q.patch
           comment2 == q.comment
           buf2     == q.buf
           one      == <<line>>
<1>1. /\ patch \in Seq(Lines) /\ comment \in Seq(Lines) /\ buf \in Seq(Lines)
      /\ one \in Seq(Lines) /\ Len(one) = 1 /\ one[1] = line /\ DOMAIN one = {1}
  BY DEF Parsers
<1>2. Moved(patch, comment, buf, line, one, patch2, comment2, buf2)
  BY DEF Moved, Goes, Waits, Taken, GivenUp
<1> HIDE DEF patch, comment, buf, patch2, comment2, buf2, one
<1>3. Single(one, line)
  BY ONLY <1>1 DEF ToSet, Single
<1>4. Kept(patch, comment, buf, line, patch2, comment2, buf2)
  BY <1>1, <1>2, <1>3, MovedLinesAreKept
<1> QED BY <1>4 DEF Kept, patch, comment, buf, patch2, comment2, buf2

LEMMA ParserInit ==
  ASSUME Bodies
  PROVE  Init => ParserInvariant
<1> SUFFICES ASSUME Init PROVE ParserInvariant
  OBVIOUS
<1>1. mail \in Mails /\ mail.lines \in Seq(Lines) /\ read = 0 /\ parser = Start
  BY DEF Init, Bodies
<1>2. Len(mail.lines) \in Nat
  BY <1>1
<1>3. Start \in Parsers
  BY DEF Start, Parsers, States
<1>4. SubSeq(mail.lines, 1, 0) = <<>>
  BY <1>1
<1>5. PICK none : none = <<>>
  OBVIOUS
<1>6. ToSet(none) = {} /\ Len(none) = 0
  BY <1>5 DEF ToSet
<1>7. /\ parser.patch = none /\ parser.comment = none /\ parser.buf = none
      /\ SubSeq(mail.lines, 1, read) = none
  BY <1>1, <1>4, <1>5 DEF Start
<1>8. NothingIsLost
  <2> DEFINE a == parser.patch
             b == parser.comment
             c == parser.buf
             d == SubSeq(mail.lines, 1, read)
  <2>1. a = none /\ b = none /\ c = none /\ d = none
    BY <1>7
  <2> HIDE DEF a, b, c, d
  <2>2. ToSet(a) \cup ToSet(b) \cup ToSet(c) = ToSet(d)
    BY <1>6, <2>1
  <2>3. Len(a) + Len(b) + Len(c) = read
    BY <1>1, <1>6, <2>1
  <2> QED BY <2>2, <2>3 DEF a, b, c, d, NothingIsLost
<1> QED BY <1>1, <1>2, <1>3, <1>8 DEF ParserInvariant

LEMMA ParserStep ==
  ASSUME Bodies
  PROVE  ParserInvariant /\ [Next]_vars => ParserInvariant'
<1> SUFFICES ASSUME ParserInvariant, [Next]_vars PROVE ParserInvariant'
  OBVIOUS
<1>1. CASE UNCHANGED vars
  BY <1>1 DEF vars, ParserInvariant, NothingIsLost
<1>2. CASE ParseLine
  <2> DEFINE line == mail.lines[read + 1]
             q    == Step(parser, line)
  <2>1. /\ mail' = mail /\ read < Len(mail.lines) /\ read' = read + 1 /\ parser' = q
        /\ mail.lines \in Seq(Lines) /\ read \in Nat
    BY <1>2 DEF ParseLine, ParserInvariant, Bodies
  <2>2. line \in Lines /\ read' \in 0..Len(mail.lines)
    BY <2>1
  <2>3. q \in Parsers /\ Goes(parser, line, q)
    BY <2>2, StepGoes DEF ParserInvariant
  <2>4. ToSet(SubSeq(mail.lines, 1, read + 1)) = ToSet(SubSeq(mail.lines, 1, read)) \cup {line}
    BY <2>1, LinesOfPrefix
  <2> HIDE DEF line, q
  <2>5. NothingIsLost'
    <3>1. /\ ToSet(q.patch) \cup ToSet(q.comment) \cup ToSet(q.buf)
               = ToSet(parser.patch) \cup ToSet(parser.comment) \cup ToSet(parser.buf)
                   \cup {line}
          /\ Len(q.patch) + Len(q.comment) + Len(q.buf)
               = Len(parser.patch) + Len(parser.comment) + Len(parser.buf) + 1
      BY <2>2, <2>3, GoesKeepsLines DEF ParserInvariant
    <3>2. /\ ToSet(parser.patch) \cup ToSet(parser.comment) \cup ToSet(parser.buf)
               = ToSet(SubSeq(mail.lines, 1, read))
          /\ Len(parser.patch) + Len(parser.comment) + Len(parser.buf) = read
      BY DEF ParserInvariant, NothingIsLost
    <3>3. ToSet(parser'.patch) \cup ToSet(parser'.comment) \cup ToSet(parser'.buf)
            = ToSet(SubSeq(mail'.lines, 1, read'))
      BY ONLY <2>1, <2>4, <3>1, <3>2
    <3>4. Len(parser'.patch) + Len(parser'.comment) + Len(parser'.buf) = read'
      BY ONLY <2>1, <3>1, <3>2
    <3> QED BY <3>3, <3>4 DEF NothingIsLost
  <2> QED BY <2>1, <2>2, <2>3, <2>5 DEF ParserInvariant
<1> QED BY <1>1, <1>2 DEF Next

LEMMA ParserIsInvariant ==
  ASSUME Bodies
  PROVE  Spec => []ParserInvariant
BY ParserInit, ParserStep, PTL DEF Spec

\* Whatever a mail looks like, ParsePatch puts every line it has read into the
\* diff, the comment or its buffer, once (pkg/mail/diff.go).
THEOREM LinesAreKept ==
  ASSUME Bodies
  PROVE  Spec => []NothingIsLost
<1>1. ParserInvariant => NothingIsLost
  BY DEF ParserInvariant
<1> QED BY <1>1, ParserIsInvariant, PTL

(***************************************************************************)
(* Diffs: the parser along a line of each part, and along a mail.          *)
(***************************************************************************)

Labels == [part: Parts, old: Nat, new: Nat]

\* What the proof assumes of the mails that have a diff.
Diffs ==
  \A m \in Mails : m.diff # <<>> =>
    m.diff \in Seq(Lines) /\ \E from, label : Written(m, from, label)

\* Where the parser is after a line with a label, and whether the line before it
\* was an extended header as well.
At(p, was, twice) ==
  /\ was.part \in {"diff", "info"} => p.state = "DiffHeader"
  /\ was.part = "ext" => p.state = "ExtHeader" /\ (twice => p.buf = <<>>)
  /\ was.part = "old" => p.state = "FileOld"
  /\ was.part = "new" => p.state = "FileNew"
  /\ was.part \in {"hunk", "body"} =>
       /\ p.buf = <<>>
       /\ was.old + was.new > 0 => p.state = "Hunk" /\ p.old = was.old /\ p.new = was.new
       /\ was.old + was.new = 0 => p.state = "FileNew" /\ p.hunks > 0

\* The line joins the diff, or what may become the diff.
Joins(p, line, q) ==
  q.patch \o q.buf = Append(p.patch \o p.buf, line) /\ q.comment = p.comment

LEMMA HoldJoins ==
  ASSUME NEW p \in Parsers, NEW line \in Lines, NEW state \in States
  PROVE  LET q == Hold(p, line, state)
         IN Joins(p, line, q) /\ q.state = state
<1> DEFINE patch == p.patch
           buf == p.buf
           more == Append(buf, line)
<1>1. patch \in Seq(Lines) /\ buf \in Seq(Lines)
  BY DEF Parsers
<1>2. Hold(p, line, state).patch = patch /\ Hold(p, line, state).buf = more
      /\ Hold(p, line, state).state = state /\ Hold(p, line, state).comment = p.comment
  BY DEF Hold, Parsers
<1> HIDE DEF patch, buf
<1>3. patch \o more = Append(patch \o buf, line)
  BY <1>1
<1> QED BY <1>2, <1>3 DEF Joins, patch, buf

LEMMA TakeAsJoins ==
  ASSUME NEW p \in Parsers, NEW line \in Lines, NEW state \in States
  PROVE  LET q == TakeAs(p, line, state)
         IN Joins(p, line, q) /\ q.state = state /\ q.buf = <<>>
<1> DEFINE patch == p.patch
           buf == p.buf
           more == patch \o buf \o <<line>>
<1>1. patch \in Seq(Lines) /\ buf \in Seq(Lines)
  BY DEF Parsers
<1>2. TakeAs(p, line, state).patch = more /\ TakeAs(p, line, state).buf = <<>>
      /\ TakeAs(p, line, state).state = state
      /\ TakeAs(p, line, state).comment = p.comment
  BY DEF TakeAs, Parsers
<1> HIDE DEF patch, buf
<1>3. more \o <<>> = Append(patch \o buf, line)
  BY <1>1
<1> QED BY <1>2, <1>3 DEF Joins, patch, buf

LEMMA AppendJoins ==
  ASSUME NEW p \in Parsers, NEW line \in Lines, p.buf = <<>>, NEW q,
         q.patch = Append(p.patch, line), q.buf = <<>>, q.comment = p.comment
  PROVE  Joins(p, line, q)
<1> DEFINE patch == p.patch
           more == Append(patch, line)
<1>1. patch \in Seq(Lines) /\ more \in Seq(Lines)
  BY DEF Parsers
<1> HIDE DEF patch
<1>2. more \o <<>> = more /\ patch \o <<>> = patch
  BY <1>1
<1> QED BY <1>2 DEF Joins, patch

\* A line of the diff takes the parser from its place to the next.
LEMMA LineOfDiff ==
  ASSUME Bodies, NEW p \in Parsers, NEW line \in Lines, NEW was \in Labels, NEW now \in Labels,
         NEW twice, At(p, was, twice), Follows(was, line, now), MayBe(line, now.part),
         now.part = "hunk" => now.old = line.old /\ now.new = line.new /\ now.old + now.new > 0
  PROVE  LET q == Step(p, line)
         IN Joins(p, line, q) /\ At(q, now, was.part = "ext")
<1> DEFINE q == Step(p, line)
<1>1. <<was.part, now.part>> \in Successions
  BY DEF Follows
<1>2. CASE now.part = "diff"
  <2>1. line.kind = "diff"
    BY <1>2 DEF MayBe
  <2>2. \/ p.state = "ExtHeader"
        \/ p.state = "FileNew" /\ p.hunks > 0
    BY <1>1, <1>2 DEF Successions, At, Follows
  <2>3. q = Hold(p, line, "DiffHeader")
    BY <2>1, <2>2 DEF Step, InExtHeader, InFileNew
  <2> QED BY <1>2, <2>3, HoldJoins DEF At, States
<1>3. CASE now.part = "ext"
  <2>1. line.kind = "ext"
    BY <1>3 DEF MayBe
  <2>2. CASE was.part = "diff"
    <3>1. q = Hold(p, line, "ExtHeader")
      BY <2>1, <2>2 DEF Step, InDiffHeader, At
    <3> QED BY <1>3, <2>2, <3>1, HoldJoins DEF At, States
  <2>3. CASE was.part = "ext"
    <3>1. q = TakeAs(p, line, "ExtHeader")
      BY <2>1, <2>3 DEF Step, InExtHeader, At
    <3> QED BY <1>3, <3>1, TakeAsJoins DEF At, States
  <2> QED BY <1>1, <1>3, <2>2, <2>3 DEF Successions
<1>4. CASE now.part = "info"
  <2>1. line.kind = "text" /\ was.part = "diff"
    BY <1>1, <1>4 DEF MayBe, Successions
  <2>2. q = Hold(p, line, "DiffHeader")
    BY <2>1 DEF Step, InDiffHeader, At
  <2> QED BY <1>4, <2>2, HoldJoins DEF At, States
<1>5. CASE now.part = "old"
  <2>1. line.kind = "old"
    BY <1>5 DEF MayBe
  <2>2. \/ p.state = "DiffHeader"
        \/ p.state = "ExtHeader"
        \/ p.state = "FileNew"
    BY <1>1, <1>5 DEF Successions, At, Follows
  <2>3. q \in {Hold(p, line, "FileOld"), TakeAs(p, line, "FileOld")}
    BY <2>1, <2>2 DEF Step, InDiffHeader, InExtHeader, InFileNew
  <2> QED BY <1>5, <2>3, HoldJoins, TakeAsJoins DEF At, States
<1>6. CASE now.part = "new"
  <2>1. line.kind = "new" /\ was.part = "old"
    BY <1>1, <1>6 DEF MayBe, Successions
  <2>2. q = Hold(p, line, "FileNew")
    BY <2>1 DEF Step, InFileOld, At
  <2> QED BY <1>6, <2>2, HoldJoins DEF At, States
<1>7. CASE now.part = "hunk"
  <2> DEFINE r == TakeAs(p, line, "Hunk")
  <2>1. line.kind = "hunk"
    BY <1>7 DEF MayBe
  <2>2. p.state = "FileNew"
    BY <1>1, <1>7 DEF Successions, At, Follows
  <2>3. q = [r EXCEPT !.old = line.old, !.new = line.new]
    BY <2>1, <2>2 DEF Step, InFileNew
  <2>4. r \in Parsers /\ Joins(p, line, r) /\ r.state = "Hunk" /\ r.buf = <<>>
    BY TakeAsFacts, TakeAsJoins DEF States
  <2> HIDE DEF r
  <2>5. q.patch = r.patch /\ q.buf = <<>> /\ q.state = "Hunk" /\ q.old = line.old
        /\ q.new = line.new /\ q.comment = r.comment
    BY <2>3, <2>4 DEF Parsers
  <2> HIDE DEF q
  <2>6. Joins(p, line, q)
    BY <2>4, <2>5 DEF Joins
  <2>7. now.old = q.old /\ now.new = q.new /\ now.old + now.new > 0
    BY <1>7, <2>5
  <2>8. At(q, now, was.part = "ext")
    BY <1>7, <2>5, <2>7 DEF At
  <2> QED BY <2>6, <2>8 DEF q
<1>8. CASE now.part = "body"
  <2>1. /\ was.part \in {"hunk", "body"} /\ p.buf = <<>>
        /\ line.kind \in Removed \cup Added \cup {"ctx", "nonl"}
    BY <1>1, <1>8 DEF Successions, At, MayBe
  <2>2. /\ was.old = now.old + (IF line.kind \in Removed \cup {"ctx"} THEN 1 ELSE 0)
        /\ was.new = now.new + (IF line.kind \in Added \cup {"ctx"} THEN 1 ELSE 0)
    BY <1>8 DEF Follows
  <2>3. was.old \in Nat /\ was.new \in Nat /\ now.old \in Nat /\ now.new \in Nat
    BY DEF Labels
  <2>4. CASE was.old + was.new = 0
    <3>1. line.kind = "nonl" /\ now.old + now.new = 0
      BY <2>1, <2>2, <2>3, <2>4 DEF Removed, Added
    <3>2. p.state = "FileNew" /\ p.hunks > 0
      BY <2>1, <2>4 DEF At
    <3>3. q = [p EXCEPT !.patch = Append(@, line)]
      BY <3>1, <3>2 DEF Step, InFileNew
    <3>4. q.patch = Append(p.patch, line) /\ q.buf = <<>> /\ q.state = "FileNew"
          /\ q.hunks > 0 /\ q.comment = p.comment
      BY <2>1, <3>2, <3>3 DEF Parsers
    <3> HIDE DEF q
    <3>5. Joins(p, line, q)
      BY <2>1, <3>4, AppendJoins
    <3>6. At(q, now, was.part = "ext")
      BY <1>8, <3>1, <3>4 DEF At
    <3> QED BY <3>5, <3>6 DEF q
  <2>5. CASE was.old + was.new > 0
    <3> DEFINE more == [p EXCEPT !.patch = Append(@, line), !.old = now.old, !.new = now.new]
    <3>1. p.state = "Hunk" /\ p.old = was.old /\ p.new = was.new
      BY <2>1, <2>5 DEF At
    <3>2. Counts(line).old = was.old - now.old /\ Counts(line).new = was.new - now.new
      BY <2>1, <2>2, <2>3 DEF Counts, Minus, Plus, Removed, Added
    <3>3. p.old - Counts(line).old = now.old /\ p.new - Counts(line).new = now.new
      BY <2>3, <3>1, <3>2
    <3>4. q = IF now.old <= 0 /\ now.new <= 0
              THEN [more EXCEPT !.state = "FileNew", !.hunks = @ + 1] ELSE more
      BY <3>1, <3>3 DEF Step, InHunk
    <3>5. more.patch = Append(p.patch, line) /\ more.buf = <<>> /\ more.state = "Hunk"
          /\ more.old = now.old /\ more.new = now.new /\ more.comment = p.comment
      BY <2>1, <3>1 DEF Parsers
    <3>6. CASE now.old + now.new = 0
      <4>1. q = [more EXCEPT !.state = "FileNew", !.hunks = @ + 1]
        BY <2>3, <3>4, <3>6
      <4>2. q.patch = Append(p.patch, line) /\ q.buf = <<>> /\ q.state = "FileNew"
            /\ q.hunks > 0 /\ q.comment = p.comment
        BY <2>1, <4>1 DEF Parsers
      <4> HIDE DEF q
      <4>3. Joins(p, line, q)
        BY <2>1, <4>2, AppendJoins
      <4>4. At(q, now, was.part = "ext")
        BY <1>8, <3>6, <4>2 DEF At
      <4> QED BY <4>3, <4>4 DEF q
    <3>7. CASE now.old + now.new > 0
      <4>1. q = more
        BY <2>3, <3>4, <3>7
      <4> HIDE DEF q, more
      <4>2. Joins(p, line, q)
        BY <2>1, <3>5, <4>1, AppendJoins
      <4>3. At(q, now, was.part = "ext")
        BY <1>8, <3>5, <3>7, <4>1 DEF At
      <4> QED BY <4>2, <4>3 DEF q
    <3> QED BY <2>3, <3>6, <3>7
  <2> QED BY <2>3, <2>4, <2>5
<1> QED BY <1>1, <1>2, <1>3, <1>4, <1>5, <1>6, <1>7, <1>8 DEF Successions

(***************************************************************************)
(* The parser along a mail.                                                *)
(***************************************************************************)

Bodied(m) == m.lines \in Seq(Lines) /\ m.diff \in Seq(Lines) /\ m.diff # <<>>

\* After n lines: before the diff, in it, and after it.
InPlace(m, p, n, from, label) ==
  /\ n <= from =>
       /\ p.patch = <<>> /\ p.hunks = 0
       /\ p.comment \o p.buf = SubSeq(m.lines, 1, n)
       /\ \/ p.state = "Text" /\ p.buf = <<>>
          \/ p.state = "FileOld" /\ n > 0 /\ m.lines[n].kind = "old"
  /\ \A k \in 1..Len(m.diff) : n = from + k =>
       /\ p.patch \o p.buf = SubSeq(m.diff, 1, k)
       /\ p.comment = SubSeq(m.lines, 1, from)
       /\ At(p, label[k], k > 1 /\ label[k - 1].part = "ext")
  /\ n > from + Len(m.diff) =>
       /\ p.patch = m.diff /\ p.state = "DiffHeader"
       /\ p.comment \o p.buf
            = SubSeq(m.lines, 1, from) \o SubSeq(m.lines, from + Len(m.diff) + 1, n)

LEMMA OneMore ==
  ASSUME NEW S, NEW s \in Seq(S), NEW a \in Nat \ {0}, NEW n \in Nat, a <= n + 1, n < Len(s)
  PROVE  /\ Append(SubSeq(s, a, n), s[n + 1]) = SubSeq(s, a, n + 1)
         /\ SubSeq(s, a, n) \in Seq(S) /\ s[n + 1] \in S
<1>1. Len(s) \in Nat /\ a \in 1..Len(s) /\ n + 1 \in a..Len(s) /\ (n + 1) - 1 = n
  OBVIOUS
<1>2. SubSeq(s, a, n + 1) = SubSeq(s, a, (n + 1) - 1) \o <<s[n + 1]>>
  BY <1>1, SubSeqRecursiveSecond
<1>3. SubSeq(s, a, n) \in Seq(S) /\ s[n + 1] \in S
  <2>1. \A i \in a..n : s[i] \in S
    BY <1>1
  <2> QED BY <1>1, <2>1, SubSeqProperties
<1> DEFINE t == SubSeq(s, a, n)
           x == s[n + 1]
<1>4. SubSeq(s, a, n + 1) = t \o <<x>> /\ t \in Seq(S) /\ x \in S
  BY <1>1, <1>2, <1>3
<1> HIDE DEF t, x
<1>5. Append(t, x) = t \o <<x>>
  BY <1>4, AppendIsConcat
<1> QED BY <1>4, <1>5 DEF t, x

LEMMA AppendLast ==
  ASSUME NEW S, NEW s \in Seq(S), NEW t \in Seq(S), NEW x \in S
  PROVE  /\ s \o Append(t, x) = Append(s \o t, x)
         /\ s \o t \o <<x>> \o <<>> = Append(s \o t, x)
         /\ Append(s, x) \o <<>> = Append(s \o <<>>, x)
OBVIOUS

LEMMA HoldWaits ==
  ASSUME NEW p \in Parsers, NEW line \in Lines, NEW state \in States
  PROVE  LET q == Hold(p, line, state)
         IN /\ q.patch = p.patch /\ q.hunks = p.hunks /\ q.state = state
            /\ q.comment = p.comment /\ q.buf = Append(p.buf, line)
            /\ q.comment \o q.buf = Append(p.comment \o p.buf, line)
<1> DEFINE q == Hold(p, line, state)
           comment == p.comment
           buf == p.buf
<1>1. /\ q.patch = p.patch /\ q.hunks = p.hunks /\ q.state = state
      /\ q.comment = comment /\ q.buf = Append(buf, line)
      /\ comment \in Seq(Lines) /\ buf \in Seq(Lines)
  BY DEF Hold, Parsers
<1> HIDE DEF q, comment, buf
<1>2. comment \o Append(buf, line) = Append(comment \o buf, line)
  BY <1>1, AppendLast
<1>3. q.comment \o q.buf = Append(comment \o buf, line)
  BY <1>1, <1>2
<1> QED BY <1>1, <1>3 DEF q, comment, buf

LEMMA AtTheEnd ==
  ASSUME NEW m, Bodied(m), NEW from, NEW label, Written(m, from, label),
         NEW p \in Parsers, InPlace(m, p, from + Len(m.diff), from, label)
  PROVE  /\ p.patch = m.diff /\ p.buf = <<>>
         /\ p.comment = SubSeq(m.lines, 1, from)
         /\ p.state = "ExtHeader" \/ (p.state = "FileNew" /\ p.hunks > 0)
<1> DEFINE last == Len(m.diff)
           patch == p.patch
           diff == m.diff
<1>1. last \in Nat /\ last >= 1
  BY EmptySeq DEF Bodied
<1>2. /\ label[last] \in Labels /\ label[last].part \in {"ext", "body"}
      /\ label[last].part = "body" => label[last].old + label[last].new = 0
      /\ label[last].part = "ext" => last > 1 /\ label[last - 1].part = "ext"
  <2>1. Labelled(diff, label)
    BY DEF Written
  <2>2. last \in 1..last /\ last = Len(diff)
    BY <1>1
  <2> HIDE DEF diff, last
  <2>3. label[last] \in Labels
    BY ONLY <2>1, <2>2 DEF Labelled, Labels
  <2>4. label[last].part = "ext" => last > 1 /\ label[last - 1].part = "ext"
    BY ONLY <2>1, <2>2 DEF Labelled
  <2>5. /\ label[last].part \in {"ext", "body"}
        /\ label[last].part = "body" => label[last].old + label[last].new = 0
    BY ONLY <2>1, <2>2 DEF Labelled
  <2> QED BY ONLY <2>3, <2>4, <2>5
<1>3. /\ p.patch \o p.buf = SubSeq(m.diff, 1, last)
      /\ p.comment = SubSeq(m.lines, 1, from)
      /\ At(p, label[last], last > 1 /\ label[last - 1].part = "ext")
  <2>1. last \in 1..last
    BY <1>1
  <2> QED BY <2>1 DEF InPlace
<1> HIDE DEF last
<1>4. p.buf = <<>> /\ (p.state = "ExtHeader" \/ (p.state = "FileNew" /\ p.hunks > 0))
  BY <1>2, <1>3 DEF At
<1>5. patch \in Seq(Lines) /\ diff \in Seq(Lines) /\ patch \o <<>> = SubSeq(diff, 1, Len(diff))
  BY <1>3, <1>4 DEF Parsers, Bodied, last
<1> HIDE DEF patch, diff
<1>6. patch \o <<>> = patch /\ SubSeq(diff, 1, Len(diff)) = diff
  BY ONLY <1>5
<1>7. patch = diff
  BY <1>5, <1>6
<1> QED BY <1>3, <1>4, <1>7 DEF patch, diff

LEMMA BeforeTheDiff ==
  ASSUME NEW m, Bodied(m), NEW from, NEW label, Written(m, from, label),
         NEW p \in Parsers, NEW n \in Nat, n < Len(m.lines), n < from,
         InPlace(m, p, n, from, label)
  PROVE  InPlace(m, Step(p, m.lines[n + 1]), n + 1, from, label)
<1> DEFINE line == m.lines[n + 1]
           q    == Step(p, line)
           comment == p.comment
           buf == p.buf
           lines == m.lines
<1>1. from \in Nat /\ Len(m.diff) \in Nat /\ lines \in Seq(Lines) /\ n + 1 \in 1..from
  BY DEF Bodied, Written
<1>2. line \in Lines /\ comment \in Seq(Lines) /\ buf \in Seq(Lines)
  BY <1>1 DEF Parsers
<1>3. line.kind # "diff"
  BY <1>1 DEF Written
<1>4. /\ p.patch = <<>> /\ p.hunks = 0
      /\ comment \o buf = SubSeq(lines, 1, n)
      /\ \/ p.state = "Text" /\ buf = <<>>
         \/ p.state = "FileOld" /\ n > 0 /\ lines[n].kind = "old"
  <2>1. n <= from
    BY <1>1
  <2> QED BY <2>1 DEF InPlace
<1>5. Append(comment \o buf, line) = SubSeq(lines, 1, n + 1)
  <2>1. Append(SubSeq(lines, 1, n), lines[n + 1]) = SubSeq(lines, 1, n + 1)
    BY <1>1, OneMore
  <2> QED BY <1>4, <2>1
<1>6. SUFFICES /\ q.patch = <<>> /\ q.hunks = 0
               /\ q.comment \o q.buf = Append(comment \o buf, line)
               /\ \/ q.state = "Text" /\ q.buf = <<>>
                  \/ q.state = "FileOld" /\ line.kind = "old"
  <2>1. /\ n + 1 <= from /\ n + 1 > 0 /\ ~(n + 1 > from + Len(m.diff))
        /\ \A k \in 1..Len(m.diff) : n + 1 # from + k
    <3>1. n \in Nat /\ from \in Nat /\ n < from /\ Len(m.diff) \in Nat
      BY <1>1
    <3> QED BY ONLY <3>1
  <2> QED BY <1>5, <1>6, <2>1 DEF InPlace
<1>7. CASE p.state = "Text" /\ buf = <<>> /\ line.kind = "old"
  <2>1. q = Hold(p, line, "FileOld")
    BY <1>7 DEF Step, InText
  <2>2. "FileOld" \in States
    BY DEF States
  <2> HIDE DEF line, q
  <2>3. /\ q.patch = p.patch /\ q.hunks = p.hunks /\ q.state = "FileOld"
        /\ q.comment \o q.buf = Append(p.comment \o p.buf, line)
    BY <1>2, <2>1, <2>2, HoldWaits
  <2> QED BY <1>4, <1>7, <2>3
<1>8. CASE p.state = "Text" /\ buf = <<>> /\ line.kind # "old"
  <2>1. q = [p EXCEPT !.comment = Append(@, line)]
    BY <1>3, <1>8 DEF Step, InText
  <2>2. /\ q.patch = <<>> /\ q.hunks = 0 /\ q.state = "Text" /\ q.buf = <<>>
        /\ q.comment = Append(comment, line)
    BY <1>4, <1>8, <2>1 DEF Parsers
  <2> HIDE DEF q, line, comment, buf
  <2>3. Append(comment, line) \o <<>> = Append(comment \o <<>>, line)
    BY <1>2, AppendLast
  <2>4. q.comment \o q.buf = Append(comment \o buf, line)
    BY <1>8, <2>2, <2>3
  <2> QED BY <2>2, <2>4
<1>9. CASE p.state = "FileOld" /\ n > 0 /\ lines[n].kind = "old"
  <2>1. line.kind # "new"
    <3>1. n \in 1..from
      BY <1>1, <1>9
    <3> QED BY <1>9, <3>1 DEF Written
  <2>2. q = GiveUp(p, line)
    BY <1>4, <1>9, <2>1 DEF Step, InFileOld
  <2>3. /\ q.patch = <<>> /\ q.hunks = 0 /\ q.state = "Text" /\ q.buf = <<>>
        /\ q.comment = comment \o buf \o <<line>>
    BY <1>4, <2>2 DEF GiveUp, Parsers
  <2> HIDE DEF q, line, comment, buf
  <2>4. comment \o buf \o <<line>> \o <<>> = Append(comment \o buf, line)
    BY <1>2, AppendLast
  <2>5. q.comment \o q.buf = Append(comment \o buf, line)
    BY <2>3, <2>4
  <2> QED BY <2>3, <2>5
<1> QED BY <1>4, <1>7, <1>8, <1>9

LEMMA AlongTheDiff ==
  ASSUME Bodies, NEW m, Bodied(m), NEW from, NEW label, Written(m, from, label),
         NEW p \in Parsers, NEW n \in Nat, n < Len(m.lines),
         from <= n, n < from + Len(m.diff), InPlace(m, p, n, from, label)
  PROVE  InPlace(m, Step(p, m.lines[n + 1]), n + 1, from, label)
<1> DEFINE line == m.lines[n + 1]
           q    == Step(p, line)
           k    == n - from
           diff == m.diff
           start == SubSeq(m.lines, 1, from)
<1>1. /\ from \in Nat /\ m.lines \in Seq(Lines) /\ diff \in Seq(Lines)
      /\ Len(m.lines) \in Nat /\ Len(diff) \in Nat
  BY DEF Bodied, Written
<1>2. line \in Lines /\ k \in Nat /\ k + 1 \in 1..Len(diff) /\ n = from + k
  BY <1>1
<1>3. line = diff[k + 1]
  <2>1. m.lines[from + (k + 1)] = diff[k + 1]
    BY <1>2 DEF Written
  <2> QED BY <1>1, <1>2, <2>1
<1>4. /\ label[k + 1] \in Labels /\ MayBe(line, label[k + 1].part)
      /\ label[k + 1].part = "hunk" =>
           /\ label[k + 1].old = line.old /\ label[k + 1].new = line.new
           /\ label[k + 1].old + label[k + 1].new > 0
  BY <1>2, <1>3 DEF Written, Labelled, Labels
<1> HIDE DEF line, q, k
<1>5. SUFFICES /\ q.patch \o q.buf = SubSeq(diff, 1, k + 1)
               /\ q.comment = start
               /\ At(q, label[k + 1], k + 1 > 1 /\ label[(k + 1) - 1].part = "ext")
  <2>1. \A j \in 1..Len(diff) : n + 1 = from + j => j = k + 1
    BY <1>1, <1>2
  <2>2. ~(n + 1 <= from) /\ ~(n + 1 > from + Len(diff))
    BY <1>1, <1>2
  <2>3. InPlace(m, q, n + 1, from, label)
    BY <1>5, <2>1, <2>2 DEF InPlace
  <2> QED BY <2>3 DEF q, line
<1>6. CASE k = 0
  <2>1. p.patch = <<>> /\ p.state = "Text" /\ p.buf = <<>> /\ p.comment \o p.buf = start
    <3>1. n <= from /\ n = from
      BY <1>1, <1>2, <1>6
    <3>2. ~(n > 0 /\ m.lines[n].kind = "old")
      BY <1>1, <3>1 DEF Written
    <3> QED BY <3>1, <3>2 DEF InPlace
  <2>2. label[1].part \in {"diff", "old"}
    BY DEF Written, Labelled
  <2>3. line.kind = label[1].part
    BY <1>4, <1>6, <2>2 DEF MayBe
  <2>4. \E state \in {"DiffHeader", "FileOld"} :
          /\ q = Hold(p, line, state)
          /\ label[1].part = "diff" => state = "DiffHeader"
          /\ label[1].part = "old" => state = "FileOld"
    BY <2>1, <2>2, <2>3 DEF q, Step, InText
  <2>5. /\ label[1].part = "diff" => q.state = "DiffHeader"
        /\ label[1].part = "old" => q.state = "FileOld"
        /\ q.patch = <<>> /\ q.buf = <<line>> /\ q.comment = p.comment
    BY <1>2, <2>1, <2>4 DEF Hold, Parsers
  <2>6. q.patch \o q.buf = SubSeq(diff, 1, k + 1)
    <3> DEFINE one == SubSeq(diff, 1, 1)
               two == <<>> \o <<line>>
    <3>1. diff \in Seq(Lines) /\ 1 \in 1..Len(diff) /\ line = diff[1]
      BY <1>1, <1>2, <1>3, <1>6
    <3>2. one = <<line>>
      <4>1. one \in Seq(Lines) /\ Len(one) = 1 /\ one[1] = diff[1]
        BY <3>1, SubSeqProperties
      <4> HIDE DEF one
      <4> QED BY <3>1, <4>1
    <3>3. two = <<line>>
      OBVIOUS
    <3>4. q.patch \o q.buf = two /\ SubSeq(diff, 1, k + 1) = one
      BY <1>6, <2>5
    <3> HIDE DEF one, two
    <3> QED BY <3>2, <3>3, <3>4
  <2>7. At(q, label[k + 1], FALSE)
    BY <1>6, <2>2, <2>5 DEF At
  <2>8. q.comment = start
    <3> DEFINE comment == p.comment
    <3>1. comment \in Seq(Lines) /\ comment \o <<>> = start
      BY <2>1 DEF Parsers
    <3> HIDE DEF comment, start
    <3>2. comment \o <<>> = comment
      BY <3>1, ConcatEmptySeq
    <3> QED BY <2>5, <3>1, <3>2 DEF comment
  <2> QED BY <1>6, <2>6, <2>7, <2>8 DEF At
<1>7. CASE k > 0
  <2> DEFINE was == label[k]
             now == label[k + 1]
  <2>1. k \in 1..Len(diff) /\ k + 1 > 1 /\ (k + 1) - 1 = k
    BY <1>1, <1>2, <1>7
  <2>2. was \in Labels /\ Follows(was, line, now)
    <3>1. Follows(label[(k + 1) - 1], diff[k + 1], label[k + 1])
      BY <1>2, <2>1 DEF Written, Labelled
    <3> QED BY <1>3, <2>1, <3>1 DEF Written, Labelled, Labels
  <2>3. /\ p.patch \o p.buf = SubSeq(diff, 1, k) /\ p.comment = start
        /\ At(p, was, k > 1 /\ label[k - 1].part = "ext")
    BY <1>2, <2>1 DEF InPlace
  <2> DEFINE twice == k > 1 /\ label[k - 1].part = "ext"
  <2> HIDE DEF was, now, twice
  <2>4. At(p, was, twice)
    BY <2>3 DEF twice, At
  <2>5. Joins(p, line, q) /\ At(q, now, was.part = "ext")
    BY <1>2, <1>4, <2>2, <2>4, LineOfDiff DEF q, now
  <2>6. q.patch \o q.buf = SubSeq(diff, 1, k + 1)
    <3>1. Append(SubSeq(diff, 1, k), diff[k + 1]) = SubSeq(diff, 1, k + 1)
      <4>1. diff \in Seq(Lines) /\ 1 <= k + 1 /\ k < Len(diff) /\ k \in Nat
        BY <1>1, <1>2
      <4> HIDE DEF diff
      <4> QED BY <4>1, OneMore
    <3> QED BY <1>3, <2>3, <2>5, <3>1 DEF Joins
  <2>7. At(q, label[k + 1], k + 1 > 1 /\ label[(k + 1) - 1].part = "ext")
    BY <2>1, <2>5 DEF At, was, now
  <2> QED BY <2>3, <2>5, <2>6, <2>7 DEF Joins
<1>8. k = 0 \/ k > 0
  BY <1>2
<1> QED BY <1>6, <1>7, <1>8

LEMMA AfterTheDiff ==
  ASSUME NEW m, Bodied(m), NEW from, NEW label, Written(m, from, label),
         NEW p \in Parsers, NEW n \in Nat, n < Len(m.lines),
         from + Len(m.diff) <= n, InPlace(m, p, n, from, label)
  PROVE  InPlace(m, Step(p, m.lines[n + 1]), n + 1, from, label)
<1> DEFINE line == m.lines[n + 1]
           q    == Step(p, line)
           next == from + Len(m.diff) + 1
           start == SubSeq(m.lines, 1, from)
           rest == SubSeq(m.lines, next, n)
<1>1. /\ from \in Nat /\ m.lines \in Seq(Lines) /\ Len(m.lines) \in Nat
      /\ Len(m.diff) \in Nat /\ Len(m.diff) >= 1
      /\ next \in Nat \ {0} /\ next <= n + 1 /\ from < Len(m.lines)
  BY EmptySeq DEF Bodied, Written
<1>2. line \in Lines /\ line.kind \in {"sig", "text"}
  <2>1. n + 1 \in next..Len(m.lines)
    BY <1>1
  <2> QED BY <1>1, <2>1 DEF Written
<1>3. start \in Seq(Lines) /\ rest \in Seq(Lines)
      /\ Append(rest, line) = SubSeq(m.lines, next, n + 1)
  <2> DEFINE lines == m.lines
             first == next
  <2>1. lines \in Seq(Lines) /\ from \in Nat /\ from < Len(lines)
        /\ first \in Nat \ {0} /\ first <= n + 1 /\ n < Len(lines)
    BY <1>1
  <2> HIDE DEF lines, first
  <2>2. SubSeq(lines, 1, from) \in Seq(Lines)
    BY <2>1, 1 \in Nat \ {0}, 1 <= from + 1, OneMore
  <2>3. SubSeq(lines, first, n) \in Seq(Lines)
        /\ Append(SubSeq(lines, first, n), lines[n + 1]) = SubSeq(lines, first, n + 1)
    BY <2>1, OneMore
  <2> QED BY <2>2, <2>3 DEF lines, first
<1>4. /\ p.patch = m.diff /\ p.comment \o p.buf = start \o rest
      /\ \/ p.state \in {"ExtHeader", "DiffHeader"}
         \/ p.state = "FileNew" /\ p.hunks > 0
  <2>1. CASE n = from + Len(m.diff)
    <3>1. /\ p.patch = m.diff /\ p.buf = <<>> /\ p.comment = start
          /\ p.state = "ExtHeader" \/ (p.state = "FileNew" /\ p.hunks > 0)
      BY <2>1, AtTheEnd
    <3>2. rest = <<>>
      BY <1>1, <2>1, SubSeqEmpty
    <3> QED BY <3>1, <3>2
  <2>2. CASE n > from + Len(m.diff)
    BY <2>2 DEF InPlace
  <2>3. n = from + Len(m.diff) \/ n > from + Len(m.diff)
    BY <1>1
  <2> QED BY <2>1, <2>2, <2>3
<1>5. q = Hold(p, line, "DiffHeader")
  BY <1>2, <1>4 DEF Step, InExtHeader, InDiffHeader, InFileNew
<1>6. /\ q.patch = m.diff /\ q.state = "DiffHeader"
      /\ q.comment \o q.buf = Append(p.comment \o p.buf, line)
  <2>1. "DiffHeader" \in States
    BY DEF States
  <2> HIDE DEF q, line
  <2> QED BY <1>2, <1>4, <1>5, <2>1, HoldWaits
<1> HIDE DEF q, line
<1>7. q.comment \o q.buf = start \o SubSeq(m.lines, next, n + 1)
  <2> HIDE DEF start, rest
  <2>1. start \in Seq(Lines) /\ rest \in Seq(Lines) /\ line \in Lines
    BY <1>2, <1>3
  <2>2. start \o Append(rest, line) = Append(start \o rest, line)
    BY <2>1, AppendLast
  <2> QED BY <1>3, <1>4, <1>6, <2>2 DEF line
<1>8. ~(n + 1 <= from) /\ n + 1 > from + Len(m.diff)
      /\ \A k \in 1..Len(m.diff) : n + 1 # from + k
  BY <1>1
<1>9. InPlace(m, q, n + 1, from, label)
  BY <1>6, <1>7, <1>8 DEF InPlace
<1> QED BY <1>9 DEF q, line

LEMMA PlaceStep ==
  ASSUME Bodies, NEW m, Bodied(m), NEW from, NEW label, Written(m, from, label),
         NEW p \in Parsers, NEW n \in Nat, n < Len(m.lines), InPlace(m, p, n, from, label)
  PROVE  InPlace(m, Step(p, m.lines[n + 1]), n + 1, from, label)
<1>1. from \in Nat /\ Len(m.diff) \in Nat
  BY DEF Bodied, Written
<1>2. CASE n < from
  BY <1>2, BeforeTheDiff
<1>3. CASE from <= n /\ n < from + Len(m.diff)
  BY <1>3, AlongTheDiff
<1>4. CASE from + Len(m.diff) <= n
  BY <1>4, AfterTheDiff
<1> QED BY <1>1, <1>2, <1>3, <1>4

LEMMA PlaceInit ==
  ASSUME NEW m, Bodied(m), NEW from, NEW label, Written(m, from, label)
  PROVE  InPlace(m, Start, 0, from, label)
<1> DEFINE none == <<>> \o <<>>
<1>1. from \in Nat /\ Len(m.diff) \in Nat
  BY DEF Bodied, Written
<1>2. /\ Start.patch = <<>> /\ Start.hunks = 0 /\ Start.state = "Text" /\ Start.buf = <<>>
      /\ Start.comment \o Start.buf = none
  BY DEF Start
<1>3. SubSeq(m.lines, 1, 0) = <<>> /\ none = <<>>
  BY SubSeqEmpty
<1>4. /\ 0 <= from /\ ~(0 > from + Len(m.diff))
      /\ \A k \in 1..Len(m.diff) : 0 # from + k
  BY <1>1
<1>5. Start.comment \o Start.buf = SubSeq(m.lines, 1, 0)
  BY <1>2, <1>3
<1> QED BY <1>2, <1>4, <1>5 DEF InPlace

\* At the end the diff is whole, and the comment is all the rest.
LEMMA PlaceEnds ==
  ASSUME NEW m, Bodied(m), NEW from, NEW label, Written(m, from, label),
         NEW p \in Parsers, InPlace(m, p, Len(m.lines), from, label)
  PROVE  /\ p.patch = m.diff
         /\ p.comment \o p.buf
              = SubSeq(m.lines, 1, from)
                  \o SubSeq(m.lines, from + Len(m.diff) + 1, Len(m.lines))
<1> DEFINE all == Len(m.lines)
           next == from + Len(m.diff) + 1
<1>1. /\ from \in Nat /\ Len(m.diff) \in Nat /\ Len(m.diff) >= 1
      /\ from + Len(m.diff) <= all /\ all \in Nat
  BY EmptySeq DEF Bodied, Written
<1>2. CASE all > from + Len(m.diff)
  BY <1>2 DEF InPlace
<1>3. CASE all = from + Len(m.diff)
  <2>1. p.patch = m.diff /\ p.buf = <<>> /\ p.comment = SubSeq(m.lines, 1, from)
    BY <1>3, AtTheEnd
  <2>2. SubSeq(m.lines, next, all) = <<>>
    BY <1>1, <1>3, SubSeqEmpty
  <2> QED BY <2>1, <2>2
<1>4. all > from + Len(m.diff) \/ all = from + Len(m.diff)
  BY <1>1
<1> QED BY <1>2, <1>3, <1>4

DiffInvariant ==
  mail.diff # <<>> =>
    \E from, label : Written(mail, from, label) /\ InPlace(mail, parser, read, from, label)

LEMMA MailIsBodied ==
  ASSUME Bodies, Diffs, NEW m \in Mails, m.diff # <<>>
  PROVE  Bodied(m) /\ \E from, label : Written(m, from, label)
BY DEF Bodies, Diffs, Bodied

LEMMA DiffInit ==
  ASSUME Bodies, Diffs, Init
  PROVE  DiffInvariant
<1> SUFFICES ASSUME mail.diff # <<>> PROVE DiffInvariant
  BY DEF DiffInvariant
<1>1. mail \in Mails /\ read = 0 /\ parser = Start
  BY DEF Init
<1>2. Bodied(mail) /\ \E from, label : Written(mail, from, label)
  BY <1>1, MailIsBodied
<1> QED BY <1>1, <1>2, PlaceInit DEF DiffInvariant

LEMMA DiffStep ==
  ASSUME Bodies, Diffs, ParserInvariant, DiffInvariant, [Next]_vars
  PROVE  DiffInvariant'
<1>1. CASE UNCHANGED vars
  BY <1>1 DEF vars, DiffInvariant
<1>2. CASE ParseLine
  <2> SUFFICES ASSUME mail'.diff # <<>> PROVE DiffInvariant'
    BY DEF DiffInvariant
  <2>1. /\ mail' = mail /\ mail.diff # <<>> /\ mail \in Mails /\ parser \in Parsers
        /\ read < Len(mail.lines) /\ read' = read + 1
        /\ parser' = Step(parser, mail.lines[read + 1])
    BY <1>2 DEF ParseLine, ParserInvariant
  <2>2. Bodied(mail) /\ read \in Nat
    BY <2>1, MailIsBodied DEF ParserInvariant
  <2>3. PICK from, label : /\ Written(mail, from, label)
                           /\ InPlace(mail, parser, read, from, label)
    BY <2>1 DEF DiffInvariant
  <2>4. InPlace(mail, parser', read', from, label)
    BY <2>1, <2>2, <2>3, PlaceStep
  <2> QED BY <2>1, <2>3, <2>4 DEF DiffInvariant
<1> QED BY <1>1, <1>2 DEF Next

LEMMA DiffIsInvariant ==
  ASSUME Bodies, Diffs
  PROVE  Spec => [](ParserInvariant /\ DiffInvariant)
<1>1. Init => DiffInvariant
  BY DiffInit
<1>2. ParserInvariant /\ DiffInvariant /\ [Next]_vars => DiffInvariant'
  BY DiffStep
<1> QED BY <1>1, <1>2, ParserIsInvariant, PTL DEF Spec

\* The diff of every mail that git, svn or diff wrote is stored whole and in
\* order, whatever the lines of its hunks look like, and the signature is no
\* part of it (ParsePatch).  The message before the diff is as Written has it:
\* none of its lines begins with "diff " or "Index: ", and none that begins with
\* "--- " has one with "+++ " behind it.  Such lines would start the diff early.
THEOREM DiffsAreWhole ==
  ASSUME Bodies, Diffs
  PROVE  Spec => []DiffIsWhole
<1>1. ParserInvariant /\ DiffInvariant => DiffIsWhole
  <2> SUFFICES ASSUME ParserInvariant, DiffInvariant, Parsed, mail.diff # <<>>
               PROVE  parser.patch = mail.diff
    BY DEF DiffIsWhole
  <2>1. mail \in Mails /\ parser \in Parsers /\ read = Len(mail.lines)
    BY DEF ParserInvariant, Parsed
  <2>2. PICK from, label : /\ Written(mail, from, label)
                           /\ InPlace(mail, parser, read, from, label)
    BY DEF DiffInvariant
  <2> QED BY <2>1, <2>2, MailIsBodied, PlaceEnds
<1> QED BY <1>1, DiffIsInvariant, PTL

(***************************************************************************)
(* The mailbox.                                                            *)
(***************************************************************************)

\* What the proof assumes of the tags of the replies, that they are lines of
\* text, and of separators, that they are alike.
Replies ==
  /\ Tags \in Seq(Lines)
  /\ \A tag \in ToSet(Tags) : tag.kind = "text"
  /\ \A line \in Lines : line.kind = "sep" => line = Separator

\* The parser after each of the first n lines.
Trace(lines, f, n) ==
  f = [i \in 0..n |-> IF i = 0 THEN Start ELSE Step(f[i - 1], lines[i])]

LEMMA TraceExists ==
  ASSUME NEW lines, NEW all \in Nat
  PROVE  \E f : Trace(lines, f, all)
<1> DEFINE Missing == {n \in Nat : ~\E f : Trace(lines, f, n)}
<1>1. ASSUME NEW k \in Missing, \A j \in Missing : k <= j
      PROVE  FALSE
  <2>1. CASE k = 0
    <3> DEFINE g == [i \in 0..0 |-> Start]
    <3>1. g = [i \in 0..0 |-> IF i = 0 THEN Start ELSE Step(g[i - 1], lines[i])]
      <4>1. \A i \in 0..0 : i = 0
        OBVIOUS
      <4> QED BY <4>1
    <3>2. Trace(lines, g, 0)
      BY <3>1 DEF Trace
    <3> QED BY <1>1, <2>1, <3>2
  <2>2. CASE k # 0
    <3>1. k \in Nat /\ k - 1 \in Nat /\ k - 1 \notin Missing
      <4>1. k \in Nat /\ k - 1 \in Nat /\ ~(k <= k - 1)
        BY <2>2
      <4> QED BY <1>1, <4>1
    <3>2. PICK f : Trace(lines, f, k - 1)
      BY <3>1
    <3>3. /\ f = [i \in 0..(k - 1) |-> IF i = 0 THEN Start ELSE Step(f[i - 1], lines[i])]
      BY <3>2 DEF Trace
    <3> DEFINE g == [i \in 0..k |-> IF i = k THEN Step(f[k - 1], lines[k]) ELSE f[i]]
    <3>4. ASSUME NEW i \in 0..k
          PROVE  g[i] = IF i = 0 THEN Start ELSE Step(g[i - 1], lines[i])
      <4>1. CASE i = k
        <5>1. g[i] = Step(f[k - 1], lines[k]) /\ k - 1 \in 0..k /\ k - 1 # k
          BY <3>1, <4>1
        <5>2. g[k - 1] = f[k - 1]
          BY <5>1
        <5> QED BY <2>2, <4>1, <5>1, <5>2
      <4>2. CASE i # k /\ i # 0
        <5>1. i \in 0..(k - 1) /\ i - 1 \in 0..k /\ i - 1 # k
          BY <3>1, <4>2
        <5>2. g[i] = f[i] /\ g[i - 1] = f[i - 1]
          BY <4>2, <5>1
        <5>3. f[i] = Step(f[i - 1], lines[i])
          BY <3>3, <4>2, <5>1
        <5> QED BY <4>2, <5>2, <5>3
      <4>3. CASE i # k /\ i = 0
        <5>1. 0 \in 0..(k - 1)
          BY <3>1
        <5>2. g[0] = f[0] /\ f[0] = Start
          BY <3>3, <4>3, <5>1
        <5> QED BY <4>3, <5>2
      <4> QED BY <4>1, <4>2, <4>3
    <3>5. g = [i \in 0..k |-> IF i = 0 THEN Start ELSE Step(g[i - 1], lines[i])]
      <4>1. g = [i \in 0..k |-> g[i]]
        OBVIOUS
      <4> HIDE DEF g
      <4> QED BY <3>4, <4>1
    <3>6. Trace(lines, g, k)
      BY <3>5 DEF Trace
    <3> QED BY <1>1, <3>6
  <2> QED BY <2>1, <2>2
<1>2. Missing = {}
  <2> SUFFICES ASSUME Missing # {} PROVE FALSE
    OBVIOUS
  <2>1. Missing \in SUBSET Nat
    OBVIOUS
  <2>2. \E k \in Missing : \A j \in Missing : k <= j
    <3> HIDE DEF Missing
    <3> QED BY <2>1, LeastOf
  <2> QED BY <1>1, <2>2
<1> QED BY <1>2

LEMMA ParsePatchIs ==
  ASSUME NEW S, NEW lines \in Seq(S)
  PROVE  \E f : Trace(lines, f, Len(lines)) /\ ParsePatch(lines) = Ended(f[Len(lines)])
<1> DEFINE after == CHOOSE f : f = [n \in 0..Len(lines) |->
                      IF n = 0 THEN Start ELSE Step(f[n - 1], lines[n])]
<1>1. \E f : f = [n \in 0..Len(lines) |->
                      IF n = 0 THEN Start ELSE Step(f[n - 1], lines[n])]
  <2>1. Len(lines) \in Nat
    OBVIOUS
  <2>2. \E f : Trace(lines, f, Len(lines))
    BY <2>1, TraceExists
  <2> QED BY <2>2 DEF Trace
<1>2. after = [n \in 0..Len(lines) |->
                      IF n = 0 THEN Start ELSE Step(after[n - 1], lines[n])]
  BY <1>1
<1>3. ParsePatch(lines) = Ended(after[Len(lines)])
  BY Zenon DEF ParsePatch
<1> HIDE DEF after
<1>4. Trace(lines, after, Len(lines))
  BY <1>2 DEF Trace
<1> QED BY <1>3, <1>4

\* The function takes a mail apart as the loop does, line by line.
LEMMA Parsing ==
  ASSUME Bodies, NEW m, Bodied(m), NEW from, NEW label, Written(m, from, label)
  PROVE  ParsePatch(m.lines)
           = [patch |-> m.diff,
              comment |-> SubSeq(m.lines, 1, from)
                            \o SubSeq(m.lines, from + Len(m.diff) + 1, Len(m.lines))]
<1> DEFINE lines == m.lines
           all == Len(m.lines)
<1>1. lines \in Seq(Lines) /\ all \in Nat
  BY DEF Bodied
<1>2. PICK f : Trace(lines, f, all) /\ ParsePatch(lines) = Ended(f[all])
  BY <1>1, ParsePatchIs
<1> DEFINE Fine(n) == f[n] \in Parsers /\ InPlace(m, f[n], n, from, label)
           Bad == {n \in Nat : n <= all /\ ~Fine(n)}
<1>3. f[0] = Start /\ \A n \in 0..all : n # 0 => f[n] = Step(f[n - 1], lines[n])
  <2>1. f = [n \in 0..all |-> IF n = 0 THEN Start ELSE Step(f[n - 1], lines[n])]
    BY <1>2 DEF Trace
  <2>2. 0 \in 0..all
    BY <1>1
  <2> HIDE DEF all, lines
  <2>3. \A n \in 0..all : f[n] = IF n = 0 THEN Start ELSE Step(f[n - 1], lines[n])
    BY <2>1
  <2> QED BY <2>2, <2>3
<1>4. Fine(0)
  <2>1. Start \in Parsers
    BY DEF Start, Parsers, States
  <2> QED BY <1>3, <2>1, PlaceInit
<1>5. ASSUME NEW n \in Nat, n < all, Fine(n)
      PROVE  Fine(n + 1)
  <2>1. n + 1 \in 0..all /\ n + 1 # 0 /\ (n + 1) - 1 = n /\ n + 1 \in 1..all
    BY <1>1, <1>5
  <2>2. f[n + 1] = Step(f[n], lines[n + 1])
    BY <1>3, <2>1
  <2>3. lines[n + 1] \in Lines
    BY <1>1, <2>1
  <2>4. f[n + 1] \in Parsers
    <3> DEFINE p == f[n]
               line == lines[n + 1]
    <3>1. p \in Parsers /\ line \in Lines /\ f[n + 1] = Step(p, line)
      BY <1>5, <2>2, <2>3
    <3> HIDE DEF p, line
    <3> QED BY <3>1, StepGoes
  <2>5. InPlace(m, Step(f[n], lines[n + 1]), n + 1, from, label)
    BY <1>5, PlaceStep
  <2> QED BY <2>2, <2>4, <2>5
<1>6. Bad = {}
  <2> SUFFICES ASSUME Bad # {} PROVE FALSE
    OBVIOUS
  <2> HIDE DEF Fine
  <2>1. Bad \in SUBSET Nat
    OBVIOUS
  <2>2. PICK k \in Bad : \A j \in Bad : k <= j
    <3> HIDE DEF Bad
    <3> QED BY <2>1, LeastOf
  <2>3. k \in Nat /\ k <= all /\ ~Fine(k)
    OBVIOUS
  <2>4. k # 0
    BY <1>4, <2>3
  <2>5. k - 1 \in Nat /\ k - 1 < all /\ (k - 1) + 1 = k /\ ~(k <= k - 1)
    BY <1>1, <2>3, <2>4
  <2>6. Fine(k - 1)
    BY <1>1, <2>2, <2>5
  <2>7. Fine((k - 1) + 1)
    BY <1>5, <2>5, <2>6
  <2> QED BY <2>3, <2>5, <2>7
<1>7. Fine(all)
  <2> HIDE DEF Fine
  <2> QED BY <1>1, <1>6
<1>8. f[all].patch = m.diff
      /\ f[all].comment \o f[all].buf
           = SubSeq(m.lines, 1, from) \o SubSeq(m.lines, from + Len(m.diff) + 1, all)
  BY <1>7, PlaceEnds
<1> HIDE DEF all
<1>9. Ended(f[all]) = [patch |-> m.diff,
        comment |-> SubSeq(m.lines, 1, from) \o SubSeq(m.lines, from + Len(m.diff) + 1, all)]
  BY <1>8 DEF Ended
<1> QED BY <1>2, <1>9 DEF all

LEMMA LeastIs ==
  ASSUME NEW n \in Nat, NEW I \in SUBSET (1..n), I # {}
  PROVE  Min(I) \in I /\ \A j \in I : Min(I) <= j
<1>1. I \in SUBSET Nat
  OBVIOUS
<1>2. \E k \in I : \A j \in I : k <= j
  BY <1>1, LeastOf
<1> QED BY <1>2 DEF Min

(***************************************************************************)
(* Text in which no file of a diff begins.                                 *)
(***************************************************************************)

Calm(s) ==
  /\ s \in Seq(Lines)
  /\ \A i \in 1..Len(s) :
       /\ s[i].kind # "diff"
       /\ s[i].kind = "old" /\ i < Len(s) => s[i + 1].kind # "new"

LEMMA CalmPart ==
  ASSUME NEW s, Calm(s), NEW a \in Nat \ {0}, NEW b \in 0..Len(s)
  PROVE  Calm(SubSeq(s, a, b))
<1> DEFINE t == SubSeq(s, a, b)
<1>1. Len(s) \in Nat /\ \A i \in a..b : i \in 1..Len(s) /\ s[i] \in Lines
  BY DEF Calm
<1>2. /\ t \in Seq(Lines) /\ Len(t) = IF a <= b THEN b - a + 1 ELSE 0
      /\ \A i \in 1..(b - a + 1) : t[i] = s[a + i - 1]
  BY <1>1, SubSeqProperties
<1> HIDE DEF t
<1>3. ASSUME NEW i \in 1..Len(t)
      PROVE  /\ t[i].kind # "diff"
             /\ t[i].kind = "old" /\ i < Len(t) => t[i + 1].kind # "new"
  <2> DEFINE k == a + i - 1
  <2>1. k \in 1..Len(s) /\ t[i] = s[k]
    BY <1>1, <1>2
  <2>2. CASE i < Len(t)
    <3>1. i + 1 \in 1..(b - a + 1) /\ a + (i + 1) - 1 = k + 1 /\ k < Len(s)
      BY <1>1, <1>2, <2>2
    <3>2. t[i + 1] = s[k + 1]
      BY <1>2, <3>1
    <3> HIDE DEF k
    <3> QED BY <2>1, <3>1, <3>2 DEF Calm
  <2>3. CASE ~(i < Len(t))
    <3> HIDE DEF k
    <3> QED BY <2>1, <2>3 DEF Calm
  <2> QED BY <2>2, <2>3
<1>4. Calm(t)
  BY <1>2, <1>3 DEF Calm
<1> QED BY <1>4 DEF t

LEMMA CalmJoin ==
  ASSUME NEW s, Calm(s), NEW t, Calm(t), Len(t) > 0 => t[1].kind # "new"
  PROVE  Calm(s \o t)
<1> DEFINE u == s \o t
<1>1. Joined(Lines, u, s, t)
  BY LinesJoined DEF Calm
<1> HIDE DEF u
<1>2. /\ u \in Seq(Lines) /\ Len(u) = Len(s) + Len(t) /\ Len(s) \in Nat /\ Len(t) \in Nat
      /\ \A i \in 1..Len(s) : u[i] = s[i]
      /\ \A i \in 1..Len(t) : u[Len(s) + i] = t[i]
  BY ONLY <1>1 DEF Joined
<1>3. ASSUME NEW i \in 1..Len(u)
      PROVE  /\ u[i].kind # "diff"
             /\ u[i].kind = "old" /\ i < Len(u) => u[i + 1].kind # "new"
  <2>1. CASE i < Len(s)
    <3>1. i \in 1..Len(s) /\ i + 1 \in 1..Len(s)
      BY <1>2, <2>1
    <3>2. u[i] = s[i] /\ u[i + 1] = s[i + 1]
      BY <1>2, <3>1
    <3> QED BY <2>1, <3>1, <3>2 DEF Calm
  <2>2. CASE i = Len(s)
    <3>1. u[i] = s[i] /\ s[i].kind # "diff"
      BY <1>2, <2>2 DEF Calm
    <3>2. ASSUME i < Len(u) PROVE u[i + 1].kind # "new"
      <4>1. Len(t) > 0 /\ 1 \in 1..Len(t) /\ i + 1 = Len(s) + 1
        BY <1>2, <2>2, <3>2
      <4>2. u[i + 1] = t[1]
        BY <1>2, <4>1
      <4> QED BY <4>1, <4>2
    <3> QED BY <3>1, <3>2
  <2>3. CASE i > Len(s)
    <3> DEFINE k == i - Len(s)
    <3>1. k \in 1..Len(t) /\ Len(s) + k = i
      BY <1>2, <2>3
    <3>2. u[i] = t[k]
      BY <1>2, <3>1
    <3>3. CASE i < Len(u)
      <4>1. k < Len(t) /\ k + 1 \in 1..Len(t) /\ Len(s) + (k + 1) = i + 1
        BY <1>2, <2>3, <3>3
      <4>2. u[i + 1] = t[k + 1]
        BY <1>2, <4>1
      <4> HIDE DEF k
      <4> QED BY <3>1, <3>2, <4>1, <4>2 DEF Calm
    <3>4. CASE ~(i < Len(u))
      <4> HIDE DEF k
      <4> QED BY <3>1, <3>2, <3>4 DEF Calm
    <3> QED BY <3>3, <3>4
  <2>4. i < Len(s) \/ i = Len(s) \/ i > Len(s)
    BY <1>2
  <2> QED BY <2>1, <2>2, <2>3, <2>4
<1>4. Calm(u)
  BY <1>2, <1>3 DEF Calm
<1> QED BY <1>4 DEF u

\* What ParsePatch leaves of a mail as its comment is calm.
LEMMA CommentIsCalm ==
  ASSUME NEW m, Bodied(m), NEW from, NEW label, Written(m, from, label)
  PROVE  Calm(SubSeq(m.lines, 1, from)
                \o SubSeq(m.lines, from + Len(m.diff) + 1, Len(m.lines)))
<1> DEFINE lines == m.lines
           next == from + Len(m.diff) + 1
           start == SubSeq(lines, 1, from)
           rest == SubSeq(lines, next, Len(lines))
<1>1. /\ lines \in Seq(Lines) /\ Len(lines) \in Nat /\ Len(m.diff) \in Nat
      /\ from \in Nat /\ from <= Len(lines) /\ next \in Nat \ {0}
  BY DEF Bodied, Written
<1>2. /\ \A i \in 1..from :
           /\ lines[i].kind # "diff"
           /\ lines[i].kind = "old" => i < from /\ lines[i + 1].kind # "new"
      /\ \A i \in next..Len(lines) : lines[i].kind \in {"sig", "text"}
  BY DEF Written
<1> HIDE DEF lines, next
<1>3. Calm(start)
  <2>1. \A i \in 1..from : lines[i] \in Lines
    BY <1>1
  <2>2. start \in Seq(Lines) /\ Len(start) = from /\ \A i \in 1..from : start[i] = lines[i]
    BY <1>1, <2>1, SubSeqProperties
  <2> HIDE DEF start
  <2>3. ASSUME NEW i \in 1..from, i < from
        PROVE  start[i] = lines[i] /\ start[i + 1] = lines[i + 1]
    BY <1>1, <2>2, <2>3
  <2> QED BY <1>2, <2>2, <2>3 DEF Calm
<1>4. Calm(rest) /\ (Len(rest) > 0 => rest[1].kind # "new")
  <2>1. \A i \in next..Len(lines) : lines[i] \in Lines
    BY <1>1
  <2>2. /\ rest \in Seq(Lines) /\ Len(rest) = IF next <= Len(lines) THEN Len(lines) - next + 1 ELSE 0
        /\ \A i \in 1..(Len(lines) - next + 1) : rest[i] = lines[next + i - 1]
    BY <1>1, <2>1, SubSeqProperties
  <2> HIDE DEF rest
  <2>3. ASSUME NEW i \in 1..Len(rest)
        PROVE  rest[i].kind \in {"sig", "text"}
    <3>1. next + i - 1 \in next..Len(lines) /\ i \in 1..(Len(lines) - next + 1)
      BY <1>1, <2>2
    <3> QED BY <1>2, <2>2, <3>1
  <2>4. Len(rest) \in Nat
    BY <2>2
  <2>5. \A i \in 1..Len(rest) :
          rest[i].kind # "diff" /\ rest[i].kind # "old" /\ rest[i].kind # "new"
    BY ONLY <2>3
  <2>6. Len(rest) > 0 => 1 \in 1..Len(rest)
    BY ONLY <2>4
  <2>7. rest \in Seq(Lines)
    BY ONLY <2>2
  <2>8. Calm(rest)
    BY ONLY <2>5, <2>7 DEF Calm
  <2> QED BY ONLY <2>5, <2>6, <2>8
<1> HIDE DEF start, rest
<1>5. Calm(start \o rest)
  BY <1>3, <1>4, CalmJoin
<1> QED BY <1>5 DEF start, rest, lines, next

LEMMA Cleaned ==
  ASSUME NEW s, Calm(s)
  PROVE  Calm(CleanContent(s))
         /\ \A i \in 1..Len(CleanContent(s)) : CleanContent(s)[i].kind # "sig"
<1> DEFINE I == {i \in 1..Len(s) : IsSig(s[i])}
<1>1. s \in Seq(Lines) /\ Len(s) \in Nat /\ DOMAIN s = 1..Len(s)
  BY DEF Calm
<1>2. CASE I = {}
  <2>1. CleanContent(s) = s
    BY <1>1, <1>2 DEF CleanContent
  <2>2. \A i \in 1..Len(s) : s[i].kind # "sig"
    BY <1>2 DEF IsSig
  <2> QED BY <2>1, <2>2
<1>3. CASE I # {}
  <2> DEFINE at == Min(I)
  <2>1. at \in I /\ \A j \in I : at <= j
    <3>1. I \in SUBSET (1..Len(s))
      OBVIOUS
    <3> HIDE DEF I
    <3> QED BY <1>1, <1>3, <3>1, LeastIs
  <2>2. CleanContent(s) = SubSeq(s, 1, at - 1)
    BY <1>1, <1>3 DEF CleanContent, SelectInSeq
  <2>3. at \in 1..Len(s) /\ \A j \in 1..(at - 1) : s[j].kind # "sig"
    <3> HIDE DEF at
    <3>1. at \in 1..Len(s)
      BY <2>1
    <3>2. ASSUME NEW j \in 1..(at - 1), IsSig(s[j])
          PROVE  FALSE
      <4>1. j \in 1..Len(s) /\ ~(at <= j)
        BY <1>1, <3>1
      <4> QED BY <2>1, <3>2, <4>1
    <3> QED BY <3>1, <3>2 DEF IsSig
  <2> HIDE DEF at, I
  <2>4. at - 1 \in 0..Len(s) /\ \A j \in 1..(at - 1) : s[j] \in Lines
    BY <1>1, <2>3
  <2> DEFINE t == SubSeq(s, 1, at - 1)
  <2>5. Len(t) = at - 1 /\ \A i \in 1..(at - 1) : t[i] = s[i]
    BY <1>1, <2>3, <2>4, SubSeqProperties
  <2>6. Calm(t)
    BY <2>4, CalmPart
  <2> HIDE DEF t
  <2>7. \A i \in 1..Len(t) : t[i].kind # "sig"
    BY <2>3, <2>5
  <2> QED BY <2>2, <2>6, <2>7 DEF t
<1> QED BY <1>2, <1>3

\* The comment with the tags of the replies, and a separator after them.
LEMMA TaggedIs ==
  ASSUME Replies, NEW content, Calm(content),
         \A i \in 1..Len(content) : content[i].kind # "sig"
  PROVE  LET text == Tagged(content, Tags)
         IN \E head, tail :
              /\ Calm(head) /\ Calm(tail) /\ Len(tail) > 0 /\ tail[1].kind = "sep"
              /\ \A i \in 1..Len(head) : ~IsSep(head[i])
              /\ ToSet(content) \subseteq ToSet(head) \cup ToSet(tail)
              /\ text \o (IF ~HasSep(text) THEN <<Separator>> ELSE <<>>)
                   = head \o Tags \o tail
<1> DEFINE I == {i \in 1..Len(content) : IsSep(content[i])}
           text == Tagged(content, Tags)
<1>1. /\ content \in Seq(Lines) /\ Len(content) \in Nat /\ DOMAIN content = 1..Len(content)
      /\ Tags \in Seq(Lines) /\ Len(Tags) \in Nat
  BY DEF Calm, Replies
<1>2. \A i \in 1..Len(Tags) : Tags[i].kind = "text"
  BY DEF Replies, ToSet
<1>3. Calm(<<Separator>>) /\ <<Separator>> \in Seq(Lines)
  <2>1. Separator \in Lines
    BY Zenon DEF Lines
  <2> QED BY <2>1 DEF Calm, Separator
<1>4. ASSUME NEW head \in Seq(Lines), \A i \in 1..Len(head) : ~IsSep(head[i])
      PROVE  ~HasSep(head \o Tags)
  <2> DEFINE u == head \o Tags
  <2>1. /\ u \in Seq(Lines) /\ Len(u) \in Nat /\ Len(head) \in Nat
        /\ \A i \in 1..Len(head) : u[i] = head[i]
        /\ \A i \in 1..Len(u) : i > Len(head) =>
             i - Len(head) \in 1..Len(Tags) /\ u[i] = Tags[i - Len(head)]
    <3>1. Joined(Lines, u, head, Tags)
      BY <1>1, LinesJoined
    <3> HIDE DEF u
    <3> QED BY ONLY <3>1 DEF Joined
  <2> HIDE DEF u
  <2>2. ASSUME NEW i \in 1..Len(u)
        PROVE  ~IsSep(u[i])
    <3>1. CASE i <= Len(head)
      <4>1. i \in 1..Len(head)
        BY <2>1, <3>1
      <4> QED BY <1>4, <2>1, <4>1
    <3>2. CASE i > Len(head)
      BY <1>2, <2>1, <3>2 DEF IsSep
    <3> QED BY <2>1, <3>1, <3>2
  <2>3. DOMAIN u = 1..Len(u)
    BY <2>1
  <2>4. ~HasSep(u)
    BY <2>2, <2>3 DEF HasSep
  <2> QED BY <2>4 DEF u
<1>5. CASE I = {}
  <2>1. \A i \in 1..Len(content) : ~IsSep(content[i])
    BY <1>5
  <2>2. text = content \o Tags
    BY <1>1, <2>1 DEF Tagged
  <2>3. ~HasSep(text)
    BY <1>1, <1>4, <2>1, <2>2
  <2> HIDE DEF text
  <2>4. text \o (IF ~HasSep(text) THEN <<Separator>> ELSE <<>>) = content \o Tags \o <<Separator>>
    BY <2>2, <2>3
  <2> DEFINE tail == <<Separator>>
  <2>5. Len(tail) > 0 /\ tail[1].kind = "sep"
    BY DEF Separator
  <2>6. Calm(tail)
    BY <1>3
  <2> HIDE DEF tail
  <2> QED BY <2>1, <2>4, <2>5, <2>6 DEF text, tail
<1>6. CASE I # {}
  <2> DEFINE at == Min(I)
             head == SubSeq(content, 1, at - 1)
             tail == SubSeq(content, at, Len(content))
             more == SubSeq(content, at + 1, Len(content))
  <2>1. at \in I /\ \A j \in I : at <= j
    <3>1. I \in SUBSET (1..Len(content))
      OBVIOUS
    <3> HIDE DEF I
    <3> QED BY <1>1, <1>6, <3>1, LeastIs
  <2>2. text = head \o Tags
                 \o (IF at < Len(content) THEN <<Separator>> \o more ELSE <<>>)
    <3>1. \E i \in DOMAIN content : IsSep(content[i])
      BY <1>1, <1>6
    <3>2. SelectInSeq(content, IsSep) = at
      BY <1>6 DEF SelectInSeq
    <3> HIDE DEF at
    <3> QED BY <3>1, <3>2 DEF Tagged
  <2> HIDE DEF at
  <2>3. at \in 1..Len(content) /\ IsSep(content[at])
        /\ \A j \in 1..(at - 1) : ~IsSep(content[j])
    <3>1. at \in 1..Len(content) /\ IsSep(content[at])
      BY <2>1
    <3>2. ASSUME NEW j \in 1..(at - 1), IsSep(content[j])
          PROVE  FALSE
      <4>1. j \in 1..Len(content) /\ ~(at <= j)
        BY <1>1, <3>1
      <4> QED BY <2>1, <3>2, <4>1
    <3> QED BY <3>1, <3>2
  <2> HIDE DEF I
  <2>4. content[at] = Separator /\ at \in Nat \ {0} /\ at - 1 \in 0..Len(content)
    <3>1. content[at].kind = "sep" /\ content[at] \in Lines
      BY <1>1, <2>3 DEF IsSep
    <3> QED BY <1>1, <2>3, <3>1 DEF Replies
  <2>5. Calm(head) /\ Calm(tail)
    BY <1>1, <2>4, CalmPart
  <2>6. tail = <<Separator>> \o more
    <3>1. Len(content) \in at..Len(content)
      BY <1>1, <2>3
    <3>2. tail = <<content[at]>> \o more
      BY <1>1, <2>3, <3>1, SubSeqRecursiveFirst
    <3> QED BY <2>4, <3>2
  <2>7. more \in Seq(Lines)
    <3>1. \A i \in (at + 1)..Len(content) : content[i] \in Lines
      BY <1>1, <2>3
    <3> QED BY <1>1, <2>4, <3>1, SubSeqProperties
  <2>8. \A i \in 1..Len(head) : ~IsSep(head[i])
    <3>1. \A i \in 1..(at - 1) : content[i] \in Lines
      BY <1>1, <2>3
    <3>2. Len(head) = at - 1 /\ \A i \in 1..(at - 1) : head[i] = content[i]
      BY <2>3, <2>4, <3>1, SubSeqProperties
    <3> HIDE DEF head
    <3> QED BY <2>3, <3>2
  <2>9. content = head \o tail
    <3>1. /\ 1 \in 1..(Len(content) + 1) /\ at - 1 \in (1 - 1)..Len(content)
          /\ Len(content) \in (at - 1)..Len(content) /\ (at - 1) + 1 = at
      BY <1>1, <2>3
    <3>2. SubSeq(content, 1, at - 1) \o SubSeq(content, (at - 1) + 1, Len(content))
            = SubSeq(content, 1, Len(content))
      BY <1>1, <3>1, ConcatAdjacentSubSeq
    <3>3. SubSeq(content, 1, Len(content)) = content
      BY <1>1, SubSeqFull
    <3> QED BY <3>1, <3>2, <3>3
  <2> HIDE DEF head, tail
  <2>10. head \in Seq(Lines) /\ tail \in Seq(Lines)
    BY <2>5 DEF Calm
  <2>11. ToSet(content) = ToSet(head) \cup ToSet(tail)
    <3> HIDE DEF text, more
    <3>1. head \in Seq(Lines) /\ tail \in Seq(Lines)
      BY <2>10
    <3>2. Joined(Lines, content, head, tail)
      BY <2>9, <3>1, LinesJoined
    <3> QED BY <3>2 DEF Joined
  <2>12. Len(tail) > 0 /\ tail[1].kind = "sep"
    <3> HIDE DEF more
    <3>1. Len(<<Separator>>) = 1 /\ <<Separator>>[1] = Separator
      OBVIOUS
    <3> DEFINE one == <<Separator>>
    <3>2. one \in Seq(Lines) /\ tail = one \o more
      BY <1>3, <2>6
    <3> HIDE DEF one
    <3>4. Joined(Lines, one \o more, one, more)
      BY <2>7, <3>2, LinesJoined
    <3>3. Len(tail) = Len(one) + Len(more) /\ Len(more) \in Nat
          /\ \A i \in 1..Len(one) : tail[i] = one[i]
      BY ONLY <3>2, <3>4 DEF Joined
    <3> QED BY <3>1, <3>3 DEF one, Separator
  <2>13. text \o (IF ~HasSep(text) THEN <<Separator>> ELSE <<>>) = head \o Tags \o tail
    <3> HIDE DEF more, text
    <3>1. CASE at < Len(content)
      <4>1. text = head \o Tags \o tail
        BY <2>2, <2>6, <3>1
      <4> DEFINE front == head \o Tags
      <4>2. front \in Seq(Lines) /\ Len(front) \in Nat
        BY <1>1, <2>10
      <4>3. text = front \o tail
        BY <4>1
      <4> HIDE DEF front
      <4>4. /\ text \in Seq(Lines) /\ Len(text) = Len(front) + Len(tail)
            /\ \A i \in 1..Len(tail) : text[Len(front) + i] = tail[i]
            /\ Len(tail) \in Nat
        <5>1. Joined(Lines, front \o tail, front, tail)
          BY <2>10, <4>2, LinesJoined
        <5> QED BY ONLY <4>3, <5>1 DEF Joined
      <4>5. 1 \in 1..Len(tail) /\ Len(front) + 1 \in DOMAIN text
        BY <2>12, <4>2, <4>4
      <4>6. HasSep(text)
        BY <2>12, <4>4, <4>5 DEF HasSep, IsSep
      <4>7. text \o <<>> = text
        BY <4>4, ConcatEmptySeq
      <4> QED BY <4>1, <4>6, <4>7
    <3>2. CASE ~(at < Len(content))
      <4> DEFINE front == head \o Tags
      <4>1. front \in Seq(Lines)
        BY <1>1, <2>10
      <4>2. text = front \o <<>>
        BY <2>2, <3>2
      <4>3. ~HasSep(front)
        BY <1>4, <2>8, <2>10
      <4>4. more = <<>>
        BY <1>1, <2>3, <3>2, SubSeqEmpty DEF more
      <4>5. <<Separator>> \o <<>> = <<Separator>>
        OBVIOUS
      <4>6. tail = <<Separator>>
        BY <2>6, <4>4, <4>5
      <4> HIDE DEF front
      <4>7. text = front
        BY <4>1, <4>2, ConcatEmptySeq
      <4>8. text \o (IF ~HasSep(text) THEN <<Separator>> ELSE <<>>) = front \o tail
        BY <4>3, <4>6, <4>7
      <4> QED BY <4>8 DEF front
    <3> QED BY <3>1, <3>2
  <2> HIDE DEF text
  <2> QED BY <2>5, <2>8, <2>11, <2>12, <2>13 DEF text
<1> QED BY <1>5, <1>6

\* A mail before and after its diff, as Format writes it.
Formatted(content, diff, head, tail, trailer) ==
  /\ Calm(head) /\ Calm(tail) /\ Len(tail) > 0 /\ tail[1].kind = "sep"
  /\ \A i \in 1..Len(head) : ~IsSep(head[i])
  /\ ToSet(content) \subseteq ToSet(head) \cup ToSet(tail)
  /\ trailer \in Seq(Lines)
  /\ \A i \in 1..Len(trailer) : trailer[i].kind \in {"sig", "text"}
  /\ Format(content, Tags, diff)
       = (head \o Tags \o tail \o <<Blank>>) \o (diff \o trailer)

LEMMA FormatIs ==
  ASSUME Replies, NEW content, Calm(content),
         \A i \in 1..Len(content) : content[i].kind # "sig",
         NEW diff \in Seq(Lines), diff # <<>>
  PROVE  \E head, tail, trailer : Formatted(content, diff, head, tail, trailer)
<1> DEFINE text == Tagged(content, Tags)
           before == text \o (IF ~HasSep(text) THEN <<Separator>> ELSE <<>>)
           blank == <<Blank>>
           body == before \o (blank \o diff)
           trailer == IF \E i \in DOMAIN body : IsSig(body[i])
                      THEN <<>> ELSE <<Blank>> \o Signature
<1>1. PICK head, tail :
        /\ Calm(head) /\ Calm(tail) /\ Len(tail) > 0 /\ tail[1].kind = "sep"
        /\ \A i \in 1..Len(head) : ~IsSep(head[i])
        /\ ToSet(content) \subseteq ToSet(head) \cup ToSet(tail)
        /\ before = head \o Tags \o tail
  BY TaggedIs
<1>2. Format(content, Tags, diff) = body \o trailer
  BY DEF Format
<1>3. before \in Seq(Lines)
  <2>1. head \in Seq(Lines) /\ tail \in Seq(Lines) /\ Tags \in Seq(Lines)
    BY <1>1 DEF Calm, Replies
  <2> HIDE DEF before
  <2> DEFINE front == head \o Tags
  <2>2. front \in Seq(Lines)
    BY <2>1
  <2>3. before = front \o tail
    BY <1>1
  <2> HIDE DEF front
  <2> QED BY ONLY <2>1, <2>2, <2>3
<1>4. Blank \in Lines /\ Signature[1] \in Lines /\ Signature[2] \in Lines
  <2>1. Blank \in Lines
    BY Zenon DEF Lines
  <2>2. ToSet(Signature) \subseteq Lines
    BY Zenon DEF Lines
  <2>3. Signature[1] \in ToSet(Signature) /\ Signature[2] \in ToSet(Signature)
    <3>1. 1 \in DOMAIN Signature /\ 2 \in DOMAIN Signature
      BY DEF Signature
    <3> QED BY <3>1 DEF ToSet
  <2> QED BY <2>1, <2>2, <2>3
<1>5. blank \in Seq(Lines)
  BY <1>4
<1>6. trailer \in Seq(Lines)
      /\ \A i \in 1..Len(trailer) : trailer[i].kind \in {"sig", "text"}
  <2> DEFINE three == <<Blank>> \o Signature
  <2>1. three = <<Blank, Signature[1], Signature[2]>>
    <3> DEFINE x == Signature[1]
               y == Signature[2]
    <3>1. Signature = <<x, y>>
      BY DEF Signature
    <3>2. Blank \in Lines /\ x \in Lines /\ y \in Lines
      BY <1>4
    <3> HIDE DEF x, y
    <3>3. <<Blank>> \o <<x, y>> = <<Blank, x, y>>
      <4> HIDE DEF three
      <4> DEFINE b == Blank
                 v == <<b>>
                 w == <<x, y>>
                 z == <<b, x, y>>
      <4>1. b \in Lines /\ x \in Lines /\ y \in Lines
        BY <3>2
      <4> HIDE DEF b
      <4>2. /\ v \in Seq(Lines) /\ Len(v) = 1 /\ v[1] = b
            /\ w \in Seq(Lines) /\ Len(w) = 2 /\ w[1] = x /\ w[2] = y
            /\ z \in Seq(Lines) /\ Len(z) = 3 /\ z[1] = b /\ z[2] = x /\ z[3] = y
        BY <4>1
      <4> HIDE DEF v, w, z
      <4> DEFINE u == v \o w
      <4>3. Joined(Lines, u, v, w)
        BY <4>2, LinesJoined
      <4> HIDE DEF u
      <4>4. u \in Seq(Lines) /\ Len(u) = 3 /\ u[1] = b /\ u[2] = x /\ u[3] = y
        <5>1. 1 \in 1..1 /\ 1 \in 1..2 /\ 2 \in 1..2 /\ 1 + 1 = 2 /\ 1 + 2 = 3
          OBVIOUS
        <5> QED BY <4>2, <4>3, <5>1 DEF Joined
      <4>5. \A i \in 1..3 : i = 1 \/ i = 2 \/ i = 3
        OBVIOUS
      <4>6. u = z
        BY <4>2, <4>4, <4>5, SeqEqual
      <4> QED BY <4>6 DEF b, v, w, z, u
    <3> QED BY <3>1, <3>3 DEF x, y
  <2>2. /\ Blank.kind = "text" /\ Signature[1].kind = "sig" /\ Signature[2].kind = "text"
    BY DEF Blank, Signature
  <2>3. three \in Seq(Lines)
        /\ \A i \in 1..Len(three) : three[i].kind \in {"sig", "text"}
    <3> HIDE DEF three
    <3> QED BY <1>4, <2>1, <2>2
  <2>4. trailer = <<>> \/ trailer = three
    <3> HIDE DEF body
    <3> QED OBVIOUS
  <2>5. <<>> \in Seq(Lines) /\ Len(<<>>) = 0
    OBVIOUS
  <2> HIDE DEF trailer, three
  <2>6. CASE trailer = <<>>
    BY ONLY <2>5, <2>6
  <2>7. CASE trailer = three
    BY ONLY <2>3, <2>7
  <2> QED BY <2>4, <2>6, <2>7
<1>7. body \o trailer = (before \o blank) \o (diff \o trailer)
  <2> HIDE DEF before, blank, trailer
  <2>1. /\ before \in Seq(Lines) /\ blank \in Seq(Lines) /\ diff \in Seq(Lines)
        /\ trailer \in Seq(Lines)
    BY <1>3, <1>5, <1>6
  <2>2. body = (before \o blank) \o diff
    <3>1. Regroup(before, blank, diff)
      BY ONLY <2>1, Regrouped
    <3> QED BY ONLY <3>1 DEF Regroup
  <2> DEFINE front == before \o blank
  <2>4. front \in Seq(Lines)
    BY <2>1
  <2> HIDE DEF front
  <2>5. (front \o diff) \o trailer = front \o (diff \o trailer)
    <3>1. Regroup(front, diff, trailer)
      BY ONLY <2>1, <2>4, Regrouped
    <3> QED BY ONLY <3>1 DEF Regroup
  <2> QED BY <2>2, <2>5 DEF front
<1> HIDE DEF trailer, text
<1>8. Format(content, Tags, diff)
        = (head \o Tags \o tail \o <<Blank>>) \o (diff \o trailer)
  BY <1>1, <1>2, <1>7
<1> HIDE DEF before
<1>9. Formatted(content, diff, head, tail, trailer)
  BY <1>1, <1>6, <1>8 DEF Formatted
<1> QED BY <1>9

\* The mailbox is a mail as git writes them, with the diff of the mail it was
\* made of.
LEMMA MailboxIsWritten ==
  ASSUME NEW m, Bodied(m), NEW from, NEW label, Written(m, from, label),
         NEW before \in Seq(Lines), Calm(before), Len(before) > 0,
         before[Len(before)].kind # "old",
         NEW trailer \in Seq(Lines),
         \A i \in 1..Len(trailer) : trailer[i].kind \in {"sig", "text"},
         NEW again, again = [lines |-> before \o (m.diff \o trailer), diff |-> m.diff]
  PROVE  Bodied(again) /\ Written(again, Len(before), label)
<1> DEFINE diff == m.diff
           end == diff \o trailer
           lines == before \o end
           from2 == Len(before)
<1>1. again.lines = lines /\ again.diff = diff
  OBVIOUS
<1>2. diff \in Seq(Lines) /\ diff # <<>> /\ Len(diff) \in Nat
  BY DEF Bodied
<1> HIDE DEF diff
<1>3. /\ end \in Seq(Lines) /\ Len(end) = Len(diff) + Len(trailer)
      /\ Len(end) \in Nat /\ Len(trailer) \in Nat
      /\ \A i \in 1..Len(diff) : end[i] = diff[i]
      /\ \A i \in 1..Len(end) : i > Len(diff) =>
           i - Len(diff) \in 1..Len(trailer) /\ end[i] = trailer[i - Len(diff)]
  <2>1. Joined(Lines, end, diff, trailer)
    BY <1>2, LinesJoined
  <2> HIDE DEF end
  <2> QED BY <2>1 DEF Joined
<1> HIDE DEF end
<1>4. /\ lines \in Seq(Lines) /\ Len(lines) = from2 + Len(end) /\ from2 \in Nat
      /\ \A i \in 1..from2 : lines[i] = before[i]
      /\ \A i \in 1..Len(end) : lines[from2 + i] = end[i]
  <2>1. Joined(Lines, lines, before, end)
    BY <1>3, LinesJoined
  <2> HIDE DEF lines
  <2> QED BY <2>1 DEF Joined
<1> HIDE DEF lines, from2
<1>5. Bodied(again)
  BY <1>1, <1>2, <1>4 DEF Bodied
<1>6. from2 + Len(diff) <= Len(lines)
  BY <1>2, <1>3, <1>4
<1>7. ASSUME NEW k \in 1..Len(diff)
      PROVE  lines[from2 + k] = diff[k]
  <2>1. k \in 1..Len(end)
    BY <1>2, <1>3
  <2> QED BY <1>3, <1>4, <2>1
<1>8. Labelled(diff, label)
  BY DEF Written, diff
<1>9. ASSUME NEW i \in 1..from2
      PROVE  /\ lines[i].kind # "diff"
             /\ lines[i].kind = "old" => i < from2 /\ lines[i + 1].kind # "new"
  <2>1. lines[i] = before[i] /\ before[i].kind # "diff"
    BY <1>4 DEF Calm, from2
  <2>2. CASE i < from2
    <3>1. i + 1 \in 1..from2
      BY <1>4, <2>2
    <3>2. lines[i + 1] = before[i + 1]
      BY <1>4, <3>1
    <3> QED BY <2>1, <2>2, <3>2 DEF Calm, from2
  <2>3. CASE i = from2
    BY <2>1, <2>3 DEF from2
  <2>4. i < from2 \/ i = from2
    BY <1>4
  <2> QED BY <2>2, <2>3, <2>4, <2>1
<1>10. ASSUME NEW i \in (from2 + Len(diff) + 1)..Len(lines)
       PROVE  lines[i].kind \in {"sig", "text"}
  <2> DEFINE k == i - from2
  <2>1. k \in 1..Len(end) /\ k > Len(diff) /\ from2 + k = i
    BY <1>2, <1>3, <1>4
  <2> HIDE DEF k
  <2>2. lines[i] = end[k]
    BY <1>4, <2>1
  <2>3. k - Len(diff) \in 1..Len(trailer) /\ end[k] = trailer[k - Len(diff)]
    BY <1>3, <2>1
  <2> QED BY <2>2, <2>3
<1>11. Written(again, from2, label)
  BY <1>1, <1>4, <1>6, <1>7, <1>8, <1>9, <1>10 DEF Written
<1> QED BY <1>5, <1>11 DEF from2

\* What git am makes of the mailbox.
LEMMA MailboxIs ==
  ASSUME Bodies, Replies,
         NEW m, Bodied(m), NEW from, NEW label, Written(m, from, label),
         NEW content, Calm(content),
         \A i \in 1..Len(content) : content[i].kind # "sig",
         NEW again, again = ParsePatch(Format(content, Tags, m.diff))
  PROVE  /\ again.patch = m.diff
         /\ ToSet(content) \subseteq ToSet(again.comment)
         /\ \E n \in 0..(Len(again.comment) - Len(Tags)) :
              /\ SubSeq(again.comment, n + 1, n + Len(Tags)) = Tags
              /\ \A j \in DOMAIN again.comment :
                   IsSep(again.comment[j]) => j > n + Len(Tags)
<1>1. m.diff \in Seq(Lines) /\ m.diff # <<>> /\ Len(m.diff) \in Nat
  BY DEF Bodied
<1>2. PICK head, tail, trailer :
        /\ Calm(head) /\ Calm(tail) /\ Len(tail) > 0 /\ tail[1].kind = "sep"
        /\ \A i \in 1..Len(head) : ~IsSep(head[i])
        /\ ToSet(content) \subseteq ToSet(head) \cup ToSet(tail)
        /\ trailer \in Seq(Lines)
        /\ \A i \in 1..Len(trailer) : trailer[i].kind \in {"sig", "text"}
        /\ Format(content, Tags, m.diff)
             = (head \o Tags \o tail \o <<Blank>>) \o (m.diff \o trailer)
  <2>1. PICK head, tail, trailer : Formatted(content, m.diff, head, tail, trailer)
    BY <1>1, FormatIs
  <2> QED BY <2>1 DEF Formatted
<1> DEFINE one == head \o Tags
           two == one \o tail
           blank == <<Blank>>
           before == two \o blank
           end == m.diff \o trailer
           lines == before \o end
<1>3. /\ head \in Seq(Lines) /\ tail \in Seq(Lines) /\ Tags \in Seq(Lines)
      /\ \A i \in 1..Len(Tags) : Tags[i].kind = "text"
      /\ Len(Tags) \in Nat
  BY <1>2 DEF Calm, Replies, ToSet
<1>4. Calm(Tags) /\ (Len(Tags) > 0 => Tags[1].kind # "new")
  <2>1. ASSUME NEW i \in 1..Len(Tags), i < Len(Tags)
        PROVE  i + 1 \in 1..Len(Tags)
    BY <1>3, <2>1
  <2> QED BY <1>3, <2>1 DEF Calm
<1>5. /\ blank \in Seq(Lines) /\ Len(blank) = 1 /\ blank[1].kind = "text" /\ Calm(blank)
  <2>1. Blank \in Lines
    BY Zenon DEF Lines
  <2>2. blank \in Seq(Lines) /\ Len(blank) = 1 /\ blank[1] = Blank
    BY <2>1
  <2>3. Blank.kind = "text"
    BY DEF Blank
  <2> HIDE DEF blank
  <2>4. \A i \in 1..Len(blank) : i = 1
    BY <2>2
  <2> QED BY <2>2, <2>3, <2>4 DEF Calm
<1>6. Calm(one) /\ one \in Seq(Lines) /\ Len(one) = Len(head) + Len(Tags)
      /\ Len(one) \in Nat /\ Len(head) \in Nat
      /\ (\A i \in 1..Len(head) : one[i] = head[i])
      /\ (\A i \in 1..Len(Tags) : one[Len(head) + i] = Tags[i])
      /\ (\A i \in 1..Len(one) : i > Len(head) =>
            i - Len(head) \in 1..Len(Tags) /\ one[i] = Tags[i - Len(head)])
      /\ ToSet(one) = ToSet(head) \cup ToSet(Tags)
  <2>1. Calm(one)
    BY <1>2, <1>4, CalmJoin
  <2>2. Joined(Lines, one, head, Tags)
    BY <1>3, LinesJoined
  <2> HIDE DEF one
  <2> QED BY <2>1, <2>2 DEF Joined
<1> HIDE DEF one, blank
<1>7. Calm(two) /\ two \in Seq(Lines) /\ Len(two) = Len(one) + Len(tail)
      /\ Len(two) \in Nat /\ Len(tail) \in Nat
      /\ (\A i \in 1..Len(one) : two[i] = one[i])
      /\ ToSet(two) = ToSet(one) \cup ToSet(tail)
  <2>1. Calm(two)
    BY <1>2, <1>6, CalmJoin
  <2>2. Joined(Lines, two, one, tail)
    BY <1>3, <1>6, LinesJoined
  <2> HIDE DEF two
  <2> QED BY <2>1, <2>2 DEF Joined
<1> HIDE DEF two
<1>8. Calm(before) /\ before \in Seq(Lines) /\ Len(before) = Len(two) + 1
      /\ (\A i \in 1..Len(two) : before[i] = two[i])
      /\ before[Len(two) + 1] = blank[1]
      /\ ToSet(two) \subseteq ToSet(before)
  <2>1. Calm(before)
    BY <1>5, <1>7, CalmJoin
  <2>2. /\ before \in Seq(Lines) /\ Len(before) = Len(two) + Len(blank)
        /\ (\A i \in 1..Len(two) : before[i] = two[i])
        /\ (\A i \in 1..Len(blank) : before[Len(two) + i] = blank[i])
        /\ ToSet(before) = ToSet(two) \cup ToSet(blank)
    <3>1. Joined(Lines, before, two, blank)
      BY <1>5, <1>7, LinesJoined
    <3> HIDE DEF before
    <3> QED BY <3>1 DEF Joined
  <2> HIDE DEF before
  <2>3. 1 \in 1..Len(blank)
    BY <1>5
  <2> QED BY <1>5, <2>1, <2>2, <2>3
<1>9. Format(content, Tags, m.diff) = lines
  BY <1>2 DEF one, two, blank
<1> HIDE DEF before
<1> DEFINE mbox == [lines |-> lines, diff |-> m.diff]
<1>10. Bodied(mbox) /\ Written(mbox, Len(before), label)
  <2>1. before \in Seq(Lines) /\ Calm(before) /\ Len(before) > 0
        /\ before[Len(before)].kind # "old" /\ trailer \in Seq(Lines)
    BY <1>2, <1>5, <1>7, <1>8
  <2> QED BY <1>2, <2>1, MailboxIsWritten
<1>11. mbox.lines = lines /\ mbox.diff = m.diff
  OBVIOUS
<1> DEFINE start == SubSeq(lines, 1, Len(before))
           rest == SubSeq(lines, Len(before) + Len(m.diff) + 1, Len(lines))
           comment == start \o rest
<1>12. again.patch = m.diff /\ again.comment = comment
  <2> HIDE DEF mbox, lines
  <2>1. ParsePatch(mbox.lines)
          = [patch |-> mbox.diff,
             comment |-> SubSeq(mbox.lines, 1, Len(before))
                           \o SubSeq(mbox.lines, Len(before) + Len(mbox.diff) + 1, Len(mbox.lines))]
    BY <1>10, Parsing
  <2>2. again = [patch |-> m.diff, comment |-> comment]
    BY <1>9, <1>11, <2>1
  <2> HIDE DEF comment
  <2> QED BY <2>2
<1>13. start = before
  <2>1. before \in Seq(Lines) /\ end \in Seq(Lines)
        /\ 1 \in 1..Len(before) /\ Len(before) \in 1..Len(before)
    <3>1. end \in Seq(Lines)
      BY <1>1, <1>2
    <3> QED BY <1>7, <1>8, <3>1
  <2> HIDE DEF end
  <2>2. SubSeq(before \o end, 1, Len(before)) = SubSeq(before, 1, Len(before))
    BY <2>1, SubSeqOfConcat1
  <2>3. SubSeq(before, 1, Len(before)) = before
    BY <2>1, SubSeqFull
  <2> QED BY <2>2, <2>3
<1>14. rest \in Seq(Lines)
  <2>1. lines \in Seq(Lines) /\ Len(lines) \in Nat
    BY <1>10, <1>11 DEF Bodied
  <2> DEFINE next == Len(before) + Len(m.diff) + 1
  <2>2. next \in Nat \ {0}
    <3>1. Len(before) \in Nat
      BY <1>7, <1>8
    <3> QED BY <1>1, <3>1
  <2> HIDE DEF lines, next
  <2>3. \A i \in next..Len(lines) : lines[i] \in Lines
    BY <2>1, <2>2
  <2> QED BY <2>1, <2>2, <2>3, SubSeqProperties DEF next
<1> HIDE DEF lines, start, rest, mbox
<1>15. /\ comment \in Seq(Lines) /\ Len(comment) = Len(before) + Len(rest)
       /\ Len(rest) \in Nat /\ Len(comment) \in Nat
       /\ \A i \in 1..Len(before) : comment[i] = before[i]
       /\ ToSet(comment) = ToSet(before) \cup ToSet(rest)
  <2>1. Joined(Lines, before \o rest, before, rest) /\ comment = before \o rest
    BY <1>8, <1>13, <1>14, LinesJoined
  <2> HIDE DEF comment
  <2> QED BY <2>1 DEF Joined
<1> HIDE DEF comment
<1>16. ToSet(content) \subseteq ToSet(comment)
  BY ONLY <1>2, <1>6, <1>7, <1>8, <1>15
<1> DEFINE n == Len(head)
<1>17. n \in 0..(Len(comment) - Len(Tags)) /\ n + Len(Tags) <= Len(before)
       /\ n + Len(Tags) = Len(one) /\ Len(one) <= Len(two) /\ Len(two) <= Len(before)
  BY ONLY <1>3, <1>6, <1>7, <1>8, <1>15
<1>18. \A i \in 1..Len(one) : comment[i] = one[i]
  <2>1. ASSUME NEW i \in 1..Len(one) PROVE comment[i] = one[i]
    <3>1. i \in 1..Len(two) /\ i \in 1..Len(before)
      BY <1>6, <1>7, <1>8
    <3> QED BY <1>7, <1>8, <1>15, <3>1
  <2> QED BY <2>1
<1>19. SubSeq(comment, n + 1, n + Len(Tags)) = Tags
  <2> DEFINE found == SubSeq(comment, n + 1, n + Len(Tags))
  <2>1. \A i \in (n + 1)..(n + Len(Tags)) : comment[i] \in Lines
    BY <1>3, <1>6, <1>15, <1>17
  <2>2. /\ found \in Seq(Lines)
        /\ Len(found) = IF n + 1 <= n + Len(Tags) THEN (n + Len(Tags)) - (n + 1) + 1 ELSE 0
        /\ \A i \in 1..((n + Len(Tags)) - (n + 1) + 1) : found[i] = comment[(n + 1) + i - 1]
    BY <1>3, <1>6, <2>1, SubSeqProperties
  <2> HIDE DEF found
  <2>3. Len(found) = Len(Tags)
    BY <1>3, <1>6, <2>2
  <2>4. ASSUME NEW i \in 1..Len(Tags)
        PROVE  found[i] = Tags[i]
    <3>1. /\ i \in 1..((n + Len(Tags)) - (n + 1) + 1) /\ (n + 1) + i - 1 = n + i
          /\ n + i \in 1..Len(one)
      BY <1>3, <1>6
    <3> QED BY <1>6, <1>18, <2>2, <3>1
  <2>5. found = Tags
    BY <1>3, <2>2, <2>3, <2>4, SeqEqual
  <2> QED BY <2>5 DEF found
<1>20. ASSUME NEW j \in DOMAIN comment, IsSep(comment[j])
       PROVE  j > n + Len(Tags)
  <2> SUFFICES ASSUME ~(j > n + Len(Tags)) PROVE FALSE
    OBVIOUS
  <2>1. j \in 1..Len(one)
    BY <1>6, <1>15, <1>17
  <2>2. comment[j] = one[j]
    BY <1>18, <2>1
  <2>3. CASE j <= n
    <3>1. j \in 1..Len(head)
      BY <1>6, <2>1, <2>3
    <3> QED BY <1>2, <1>6, <1>20, <2>2, <3>1
  <2>4. CASE j > n
    <3>1. one[j].kind = "text"
      BY <1>3, <1>6, <2>1, <2>4
    <3> QED BY <1>20, <2>2, <3>1 DEF IsSep
  <2>5. j <= n \/ j > n
    BY <1>6, <2>1
  <2> QED BY <2>3, <2>4, <2>5
<1> HIDE DEF n
<1>21. \E k \in 0..(Len(comment) - Len(Tags)) :
         /\ SubSeq(comment, k + 1, k + Len(Tags)) = Tags
         /\ \A j \in DOMAIN comment : IsSep(comment[j]) => j > k + Len(Tags)
  BY <1>17, <1>19, <1>20
<1> QED BY <1>12, <1>16, <1>21

\* The mailbox that is made of a stored mail holds the diff as it came and all of
\* the comment, with the tags of the replies together and before any separator,
\* for every mail that is as Written has it and tags that are plain text (Format,
\* read again by ParsePatch).
THEOREM MailboxesKeepPatches ==
  ASSUME Bodies, Diffs, Replies
  PROVE  Spec => []MailboxKeepsThePatch
<1>1. ParserInvariant /\ DiffInvariant => MailboxKeepsThePatch
  <2> SUFFICES ASSUME ParserInvariant, DiffInvariant, Parsed, mail.diff # <<>>
               PROVE  MailboxKeepsThePatch
    BY DEF MailboxKeepsThePatch
  <2>1. mail \in Mails /\ parser \in Parsers /\ read = Len(mail.lines)
    BY DEF ParserInvariant, Parsed
  <2>2. Bodied(mail)
    BY <2>1, MailIsBodied
  <2>3. PICK from, label : /\ Written(mail, from, label)
                           /\ InPlace(mail, parser, read, from, label)
    BY DEF DiffInvariant
  <2> DEFINE comment == SubSeq(mail.lines, 1, from)
                          \o SubSeq(mail.lines, from + Len(mail.diff) + 1, Len(mail.lines))
  <2>4. parser.patch = mail.diff /\ parser.comment \o parser.buf = comment
    BY <2>1, <2>2, <2>3, PlaceEnds
  <2>5. Calm(comment)
    BY <2>2, <2>3, CommentIsCalm
  <2>6. Ended(parser).comment = comment
    BY <2>4 DEF Ended
  <2> HIDE DEF comment
  <2> DEFINE content == CleanContent(comment)
             again == ParsePatch(Format(content, Tags, mail.diff))
  <2>7. Calm(content) /\ \A i \in 1..Len(content) : content[i].kind # "sig"
    BY <2>5, Cleaned
  <2> HIDE DEF content
  <2>8. /\ again.patch = mail.diff
        /\ ToSet(content) \subseteq ToSet(again.comment)
        /\ \E n \in 0..(Len(again.comment) - Len(Tags)) :
             /\ SubSeq(again.comment, n + 1, n + Len(Tags)) = Tags
             /\ \A j \in DOMAIN again.comment :
                  IsSep(again.comment[j]) => j > n + Len(Tags)
    BY <2>2, <2>3, <2>7, MailboxIs
  <2> HIDE DEF again
  <2>9. /\ content = CleanContent(Ended(parser).comment)
        /\ again = ParsePatch(Format(content, Tags, parser.patch))
    BY <2>4, <2>6 DEF content, again
  <2> QED BY <2>4, <2>8, <2>9 DEF MailboxKeepsThePatch
<1> QED BY <1>1, DiffIsInvariant, PTL

(***************************************************************************)
(* Titles.                                                                 *)
(***************************************************************************)

\* What the proof assumes of the titles: they are sequences of characters.
Titled == Titles \subseteq Seq(Characters)

LEMMA GreatestOf ==
  ASSUME NEW n \in Nat, NEW S \in SUBSET (0..n), S # {}
  PROVE  Max(S) \in S /\ \A k \in S : k <= Max(S)
<1> DEFINE U == {n - k : k \in S}
<1>1. U \in SUBSET Nat /\ U # {}
  <2>1. \A k \in S : n - k \in Nat
    OBVIOUS
  <2> QED BY <2>1
<1>2. PICK u \in U : \A v \in U : u <= v
  <2> HIDE DEF U
  <2> QED BY <1>1, LeastOf
<1>3. PICK k \in S : u = n - k
  OBVIOUS
<1>4. \A j \in S : k >= j
  <2> SUFFICES ASSUME NEW j \in S PROVE k >= j
    OBVIOUS
  <2>1. n - k <= n - j
    BY <1>2, <1>3
  <2>2. k \in Nat /\ j \in Nat
    OBVIOUS
  <2> QED BY <2>1, <2>2
<1>5. Max(S) \in S /\ \A j \in S : Max(S) >= j
  BY <1>4 DEF Max
<1>6. \A j \in S : j \in Nat
  OBVIOUS
<1> QED BY <1>5, <1>6

(***************************************************************************)
(* The matchings of two prefixes.                                          *)
(***************************************************************************)

Cells(m, n) == (1..m) \X (1..n)

\* The first m characters of s against the first n of t.
Matched(s, t, m, n) ==
  {M \in SUBSET Cells(m, n) :
     /\ \A p \in M : s[p[1]] = t[p[2]]
     /\ \A p, q \in M : p[1] < q[1] <=> p[2] < q[2]}

Best(s, t, m, n) == Max({Cardinality(M) : M \in Matched(s, t, m, n)})

LEMMA PrefixMatchings ==
  ASSUME NEW C, NEW s \in Seq(C), NEW t \in Seq(C), NEW m \in 0..Len(s), NEW n \in 0..Len(t)
  PROVE  Longest(SubSeq(s, 1, m), SubSeq(t, 1, n)) = Best(s, t, m, n)
<1> DEFINE u == SubSeq(s, 1, m)
           v == SubSeq(t, 1, n)
<1>1. Len(s) \in Nat /\ Len(t) \in Nat
  BY LenProperties
<1>2. u \in Seq(C) /\ Len(u) = m /\ \A k \in 1..m : u[k] = s[k]
  <2>1. \A k \in 1..m : s[k] \in C
    BY <1>1, ElementOfSeq
  <2> QED BY <1>1, <2>1, SubSeqProperties
<1>3. v \in Seq(C) /\ Len(v) = n /\ \A k \in 1..n : v[k] = t[k]
  <2>1. \A k \in 1..n : t[k] \in C
    BY <1>1, ElementOfSeq
  <2> QED BY <1>1, <2>1, SubSeqProperties
<1> HIDE DEF u, v
<1>4. DOMAIN u = 1..m /\ DOMAIN v = 1..n
  BY <1>2, <1>3, LenProperties
<1>5. \A p \in Cells(m, n) : u[p[1]] = s[p[1]] /\ v[p[2]] = t[p[2]]
  BY <1>2, <1>3 DEF Cells
<1>6. Equal(u, v) = {p \in Cells(m, n) : s[p[1]] = t[p[2]]}
  BY <1>4, <1>5 DEF Equal, Cells
<1>7. Matchings(u, v) = Matched(s, t, m, n)
  BY <1>6 DEF Matchings, Matched
<1>8. Longest(u, v) = Best(s, t, m, n)
  BY <1>7 DEF Longest, Best
<1> QED BY <1>8 DEF u, v

LEMMA BestIs ==
  ASSUME NEW s, NEW t, NEW m \in Nat, NEW n \in Nat
  PROVE  /\ Best(s, t, m, n) \in Nat
         /\ \A M \in Matched(s, t, m, n) :
              IsFiniteSet(M) /\ Cardinality(M) \in Nat /\ Cardinality(M) <= Best(s, t, m, n)
         /\ \E M \in Matched(s, t, m, n) : Cardinality(M) = Best(s, t, m, n)
<1> DEFINE all == Matched(s, t, m, n)
           S   == {Cardinality(M) : M \in all}
<1>1. IsFiniteSet(Cells(m, n)) /\ Cardinality(Cells(m, n)) \in Nat
  <2>1. IsFiniteSet(1..m) /\ IsFiniteSet(1..n)
    BY FS_Interval
  <2> QED BY <2>1, FS_Product, FS_CardinalityType DEF Cells
<1>2. ASSUME NEW M \in all
      PROVE  /\ IsFiniteSet(M) /\ Cardinality(M) \in Nat
             /\ Cardinality(M) <= Cardinality(Cells(m, n))
  <2>1. M \in SUBSET Cells(m, n)
    BY DEF Matched
  <2> QED BY <1>1, <2>1, FS_Subset, FS_CardinalityType
<1>3. {} \in all
  BY DEF Matched
<1> DEFINE most == Cardinality(Cells(m, n))
<1>4. most \in Nat /\ S \in SUBSET (0..most) /\ S # {}
  BY <1>1, <1>2, <1>3
<1> HIDE DEF most, S
<1>5. Max(S) \in S /\ \A k \in S : k <= Max(S)
  BY <1>4, GreatestOf
<1>6. Max(S) = Best(s, t, m, n)
  BY DEF Best, S
<1> QED BY <1>2, <1>4, <1>5, <1>6 DEF S

LEMMA BestOfNothing ==
  ASSUME NEW s, NEW t, NEW m \in Nat, NEW n \in Nat, m = 0 \/ n = 0
  PROVE  Best(s, t, m, n) = 0
<1>1. PICK M \in Matched(s, t, m, n) : Cardinality(M) = Best(s, t, m, n)
  BY BestIs
<1>2. M = {}
  BY DEF Matched, Cells
<1> QED BY <1>1, <1>2, FS_EmptySet

\* Where the next characters are equal they may as well be matched.
LEMMA BestOfEqual ==
  ASSUME NEW s, NEW t, NEW m \in Nat, NEW n \in Nat, s[m + 1] = t[n + 1]
  PROVE  Best(s, t, m + 1, n + 1) = Best(s, t, m, n) + 1
<1> DEFINE corner == <<m + 1, n + 1>>
<1>0. m + 1 \in Nat /\ n + 1 \in Nat
  OBVIOUS
<1>1. Best(s, t, m + 1, n + 1) >= Best(s, t, m, n) + 1
  <2>1. PICK M \in Matched(s, t, m, n) : Cardinality(M) = Best(s, t, m, n)
    BY BestIs
  <2>2. IsFiniteSet(M) /\ M \in SUBSET Cells(m, n)
    <3>1. IsFiniteSet(M)
      BY BestIs
    <3> QED BY <3>1 DEF Matched
  <2>3. corner \notin M
    BY <2>2 DEF Cells
  <2>4. M \cup {corner} \in Matched(s, t, m + 1, n + 1)
    <3> DEFINE N == M \cup {corner}
    <3>1. \A p \in M : p[1] \in 1..m /\ p[2] \in 1..n /\ p \in Cells(m + 1, n + 1)
      BY <2>2 DEF Cells
    <3>2. corner \in Cells(m + 1, n + 1) /\ corner[1] = m + 1 /\ corner[2] = n + 1
      BY DEF Cells
    <3> HIDE DEF corner
    <3>3. \A p, q \in M : p[1] < q[1] <=> p[2] < q[2]
      BY DEF Matched
    <3>4. \A p \in M : /\ p[1] < corner[1] /\ p[2] < corner[2]
                       /\ ~(corner[1] < p[1]) /\ ~(corner[2] < p[2])
      BY <3>1, <3>2
    <3>5. ~(corner[1] < corner[1]) /\ ~(corner[2] < corner[2])
      BY <3>2
    <3>6. \A p, q \in N : p[1] < q[1] <=> p[2] < q[2]
      BY <3>3, <3>4, <3>5
    <3>7. \A p \in N : s[p[1]] = t[p[2]]
      BY <3>2 DEF Matched
    <3> QED BY <3>1, <3>2, <3>6, <3>7 DEF Matched
  <2>5. Cardinality(M \cup {corner}) = Cardinality(M) + 1
    BY ONLY <2>2, <2>3, FS_AddElement
  <2> DEFINE N == M \cup {corner}
  <2>6. Cardinality(N) <= Best(s, t, m + 1, n + 1)
    <3> HIDE DEF N
    <3>1. N \in Matched(s, t, m + 1, n + 1)
      BY <2>4 DEF N
    <3> QED BY <1>0, <3>1, BestIs
  <2>7. Best(s, t, m, n) \in Nat /\ Best(s, t, m + 1, n + 1) \in Nat
    BY <1>0, BestIs
  <2> QED BY <2>1, <2>5, <2>6, <2>7
<1>2. Best(s, t, m + 1, n + 1) <= Best(s, t, m, n) + 1
  <2>1. PICK M \in Matched(s, t, m + 1, n + 1) : Cardinality(M) = Best(s, t, m + 1, n + 1)
    BY <1>0, BestIs
  <2>2. IsFiniteSet(M) /\ M \in SUBSET Cells(m + 1, n + 1)
    <3>1. IsFiniteSet(M)
      BY <1>0, BestIs
    <3> QED BY <3>1 DEF Matched
  <2> DEFINE N == M \cap Cells(m, n)
  <2>3. N \in Matched(s, t, m, n)
    BY DEF Matched
  <2>4. \E p : M \subseteq N \cup {p}
    <3>1. ASSUME NEW p \in M, NEW q \in M, p \notin N, q \notin N PROVE p = q
      <4>1. /\ p[1] \in 1..(m + 1) /\ p[2] \in 1..(n + 1) /\ p = <<p[1], p[2]>>
            /\ q[1] \in 1..(m + 1) /\ q[2] \in 1..(n + 1) /\ q = <<q[1], q[2]>>
        BY <2>2 DEF Cells
      <4>2. (p[1] = m + 1 \/ p[2] = n + 1) /\ (q[1] = m + 1 \/ q[2] = n + 1)
        BY <3>1, <4>1 DEF Cells
      <4>3. (p[1] < q[1] <=> p[2] < q[2]) /\ (q[1] < p[1] <=> q[2] < p[2])
        BY DEF Matched
      <4>4. p[1] = q[1] /\ p[2] = q[2]
        BY <4>1, <4>2, <4>3
      <4> QED BY <4>1, <4>4
    <3> HIDE DEF N
    <3> QED BY <3>1
  <2>5. PICK p : M \subseteq N \cup {p}
    BY <2>4
  <2>6. IsFiniteSet(N) /\ Cardinality(N) \in Nat /\ Cardinality(N) <= Best(s, t, m, n)
    <3> HIDE DEF N
    <3> QED BY <2>3, BestIs
  <2> HIDE DEF N
  <2>7. IsFiniteSet(N \cup {p}) /\ Cardinality(N \cup {p}) <= Cardinality(N) + 1
    <3>1. /\ IsFiniteSet(N \cup {p})
          /\ Cardinality(N \cup {p}) =
               IF p \in N THEN Cardinality(N) ELSE Cardinality(N) + 1
      BY ONLY <2>6, FS_AddElement
    <3> QED BY <2>6, <3>1
  <2>8. Cardinality(M) <= Cardinality(N \cup {p}) /\ Cardinality(M) \in Nat
        /\ Cardinality(N \cup {p}) \in Nat
    BY <2>2, <2>5, <2>7, FS_Subset, FS_CardinalityType
  <2>9. Best(s, t, m, n) \in Nat
    BY BestIs
  <2> QED BY <2>1, <2>6, <2>7, <2>8, <2>9
<1>3. Best(s, t, m, n) \in Nat /\ Best(s, t, m + 1, n + 1) \in Nat
  BY <1>0, BestIs
<1> QED BY <1>1, <1>2, <1>3

\* Where they differ one of the two is left out.
LEMMA BestOfDifferent ==
  ASSUME NEW s, NEW t, NEW m \in Nat, NEW n \in Nat, s[m + 1] # t[n + 1]
  PROVE  Best(s, t, m + 1, n + 1) =
           IF Best(s, t, m, n + 1) > Best(s, t, m + 1, n)
           THEN Best(s, t, m, n + 1) ELSE Best(s, t, m + 1, n)
<1>0. m + 1 \in Nat /\ n + 1 \in Nat
  OBVIOUS
<1>1. /\ Best(s, t, m, n + 1) \in Nat /\ Best(s, t, m + 1, n) \in Nat
      /\ Best(s, t, m + 1, n + 1) \in Nat
  BY <1>0, BestIs
<1>2. Best(s, t, m, n + 1) <= Best(s, t, m + 1, n + 1)
  <2>1. PICK M \in Matched(s, t, m, n + 1) : Cardinality(M) = Best(s, t, m, n + 1)
    BY <1>0, BestIs
  <2>2. M \in Matched(s, t, m + 1, n + 1)
    BY DEF Matched, Cells
  <2> QED BY <1>0, <2>1, <2>2, BestIs
<1>3. Best(s, t, m + 1, n) <= Best(s, t, m + 1, n + 1)
  <2>1. PICK M \in Matched(s, t, m + 1, n) : Cardinality(M) = Best(s, t, m + 1, n)
    BY <1>0, BestIs
  <2>2. M \in Matched(s, t, m + 1, n + 1)
    BY DEF Matched, Cells
  <2> QED BY <1>0, <2>1, <2>2, BestIs
<1>4. \/ Best(s, t, m + 1, n + 1) <= Best(s, t, m, n + 1)
      \/ Best(s, t, m + 1, n + 1) <= Best(s, t, m + 1, n)
  <2>1. PICK M \in Matched(s, t, m + 1, n + 1) : Cardinality(M) = Best(s, t, m + 1, n + 1)
    BY <1>0, BestIs
  <2>2. \A p \in M : /\ p[1] \in 1..(m + 1) /\ p[2] \in 1..(n + 1)
                     /\ p = <<p[1], p[2]>> /\ s[p[1]] = t[p[2]]
    BY DEF Matched, Cells
  <2>3. (\A p \in M : p[1] # m + 1) \/ (\A q \in M : q[2] # n + 1)
    <3> SUFFICES ASSUME NEW p \in M, p[1] = m + 1, NEW q \in M, q[2] = n + 1 PROVE FALSE
      OBVIOUS
    <3>1. (p[1] < q[1] <=> p[2] < q[2]) /\ (q[1] < p[1] <=> q[2] < p[2])
      BY DEF Matched
    <3>2. p[2] = n + 1
      BY <2>2, <3>1
    <3> QED BY <2>2, <3>2
  <2>4. CASE \A p \in M : p[1] # m + 1
    <3>1. \A p \in M : p[1] \in 1..m
      BY <2>2, <2>4
    <3>2. M \in Matched(s, t, m, n + 1)
      BY <2>2, <3>1 DEF Matched, Cells
    <3> QED BY <1>0, <2>1, <3>2, BestIs
  <2>5. CASE \A q \in M : q[2] # n + 1
    <3>1. \A p \in M : p[2] \in 1..n
      BY <2>2, <2>5
    <3>2. M \in Matched(s, t, m + 1, n)
      BY <2>2, <3>1 DEF Matched, Cells
    <3> QED BY <1>0, <2>1, <3>2, BestIs
  <2> QED BY <2>3, <2>4, <2>5
<1> QED BY <1>1, <1>2, <1>3, <1>4

(***************************************************************************)
(* The rows.                                                               *)
(***************************************************************************)

RowOf(m) == [j \in 0..Len(other) |-> Best(title, other, m, j)]

\* What the recursion over a row computes.
NextEntry(c, row, j) ==
  IF j = 0 THEN current[0]
  ELSE IF other[j] = c THEN previous[j - 1] + 1
  ELSE IF previous[j] > row[j - 1] THEN previous[j] ELSE row[j - 1]

RowInvariant ==
  /\ title \in Titles /\ other \in Titles
  /\ computed \in 0..Len(title)
  /\ previous = RowOf(computed)
  /\ current = [j \in 0..Len(other) |-> 0]
  /\ computed > 0 => total = previous[Len(other)]

LEMMA NextRowIs ==
  ASSUME RowInvariant, Titled, computed < Len(title)
  PROVE  Row(title[computed + 1]) = RowOf(computed + 1)
<1> DEFINE n    == Len(other)
           c    == title[computed + 1]
           best == RowOf(computed + 1)
           row  == Row(c)
<1>1. n \in Nat /\ computed \in Nat
  BY LenProperties DEF RowInvariant, Titled
<1>2. ASSUME NEW j \in 0..n PROVE best[j] = NextEntry(c, best, j)
  <2>1. CASE j = 0
    BY <1>1, <2>1, BestOfNothing DEF RowOf, NextEntry, RowInvariant
  <2>2. CASE j # 0
    <3> DEFINE k == j - 1
    <3>1. k \in Nat /\ k \in 0..n /\ j = k + 1
      BY <1>1, <2>2
    <3>2. /\ best[j] = Best(title, other, computed + 1, k + 1)
          /\ best[k] = Best(title, other, computed + 1, k)
          /\ previous[j] = Best(title, other, computed, k + 1)
          /\ previous[k] = Best(title, other, computed, k)
      BY <3>1 DEF RowOf, RowInvariant
    <3> HIDE DEF k, best
    <3>3. CASE other[k + 1] = c
      BY <1>1, <2>2, <3>1, <3>2, <3>3, BestOfEqual DEF NextEntry, k
    <3>4. CASE other[k + 1] # c
      BY <1>1, <2>2, <3>1, <3>2, <3>4, BestOfDifferent DEF NextEntry, k
    <3> QED BY <3>3, <3>4
  <2> QED BY <2>1, <2>2
<1>3. best = [j \in 0..n |-> NextEntry(c, best, j)]
  BY <1>2 DEF RowOf
<1>4. row = CHOOSE r : r = [j \in 0..n |-> NextEntry(c, r, j)]
  BY DEF Row, NextEntry
<1> HIDE DEF best, c
<1>5. row = [j \in 0..n |-> NextEntry(c, row, j)]
  BY <1>3, <1>4
<1> HIDE DEF row
<1>6. \A j \in 0..n : row[j] = best[j]
  <2> DEFINE wrong == {j \in 0..n : row[j] # best[j]}
  <2> SUFFICES ASSUME wrong # {} PROVE FALSE
    OBVIOUS
  <2>1. wrong \in SUBSET Nat
    BY <1>1
  <2>2. PICK j \in wrong : \A k \in wrong : j <= k
    <3> HIDE DEF wrong
    <3> QED BY <2>1, LeastOf
  <2>3. j \in 0..n /\ j \in Nat /\ row[j] # best[j]
    BY <1>1
  <2>4. j # 0 => row[j - 1] = best[j - 1]
    <3> SUFFICES ASSUME j # 0, row[j - 1] # best[j - 1] PROVE FALSE
      OBVIOUS
    <3>1. j - 1 \in wrong /\ ~(j <= j - 1)
      BY <1>1, <2>3
    <3> QED BY <2>2, <3>1
  <2>5. NextEntry(c, row, j) = NextEntry(c, best, j)
    BY <2>4 DEF NextEntry
  <2> QED BY <1>3, <1>5, <2>3, <2>5
<1> QED BY <1>3, <1>5, <1>6 DEF c, row, best

LEMMA RowsInit ==
  ASSUME Titled, TitlesInit
  PROVE  RowInvariant
<1>1. Len(title) \in Nat /\ Len(other) \in Nat
  BY LenProperties DEF Titled, TitlesInit
<1>2. \A j \in 0..Len(other) : Best(title, other, 0, j) = 0
  BY <1>1, BestOfNothing
<1>3. previous = RowOf(0)
  BY <1>2 DEF TitlesInit, Zeros, RowOf
<1> QED BY <1>1, <1>3 DEF TitlesInit, Zeros, RowInvariant

LEMMA RowsNext ==
  ASSUME Titled, RowInvariant, [TitlesNext]_titleVars
  PROVE  RowInvariant'
<1>1. CASE UNCHANGED titleVars
  BY <1>1 DEF RowInvariant, RowOf, titleVars
<1>2. CASE NextRow
  <2>1. /\ computed < Len(title) /\ computed' = computed + 1
        /\ title' = title /\ other' = other
        /\ previous' = Row(title[computed + 1])
        /\ total' = previous'[Len(other)]
        /\ current' = [j \in 0..Len(other) |-> 0]
    BY <1>2 DEF NextRow, Zeros
  <2>2. previous' = RowOf(computed + 1)
    BY <2>1, NextRowIs
  <2>3. computed + 1 \in 0..Len(title)
    BY <2>1, LenProperties DEF RowInvariant, Titled
  <2> QED BY <2>1, <2>2, <2>3 DEF RowInvariant, RowOf
<1> QED BY <1>1, <1>2 DEF TitlesNext

\* The two rows of nameSimilarity hold the lengths of the longest common
\* subsequences of the prefixes, and the total is that of the two titles, for
\* titles of any length (pkg/mail/similarity.go).
THEOREM RowsAreRight ==
  ASSUME Titled
  PROVE  TitlesSpec => []RowsAreLongest
<1>1. RowInvariant => RowsAreLongest
  <2> SUFFICES ASSUME RowInvariant PROVE RowsAreLongest
    OBVIOUS
  <2>1. /\ title \in Seq(Characters) /\ other \in Seq(Characters)
        /\ Len(title) \in Nat /\ Len(other) \in Nat
    BY LenProperties DEF RowInvariant, Titled
  <2>2. \A j \in 0..Len(other) :
          previous[j] = Longest(SubSeq(title, 1, computed), SubSeq(other, 1, j))
    BY <2>1, PrefixMatchings DEF RowInvariant, RowOf
  <2>3. SubSeq(title, 1, Len(title)) = title /\ SubSeq(other, 1, Len(other)) = other
    BY <2>1
  <2>4. Len(other) \in 0..Len(other)
    BY <2>1
  <2> QED BY <2>2, <2>3, <2>4 DEF RowInvariant, RowsAreLongest
<1>2. TitlesInit => RowInvariant
  BY RowsInit
<1>3. RowInvariant /\ [TitlesNext]_titleVars => RowInvariant'
  BY RowsNext
<1> QED BY <1>1, <1>2, <1>3, PTL DEF TitlesSpec
=============================================================================
