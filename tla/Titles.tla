-------------------------------- MODULE Titles --------------------------------
(***************************************************************************)
(* How alike two titles are (pkg/mail/similarity.go): the length of their  *)
(* longest common subsequence, computed row by row with two rows that      *)
(* change places.  One step computes one row.                              *)
(***************************************************************************)
EXTENDS Naturals, Sequences, FiniteSets, FiniteSetsExt

CONSTANT Titles    \* titles, sequences of characters in lower case, and their parts

VARIABLES
  title, other,        \* the titles compared
  computed,            \* the rows computed
  previous, current,   \* the two rows, indexed from 0 to Len(other)
  total                \* the last entry of the last row

titleVars == <<title, other, computed, previous, current, total>>

Zeros == [j \in 0..Len(other) |-> 0]

\* Mutant: a match extends the entry above, not the one before it.
MutantRow(c) ==
  LET row[j \in 0..Len(other)] ==
        IF j = 0 THEN current[0]
        ELSE IF other[j] = c THEN previous[j] + 1
        ELSE IF previous[j] > row[j - 1] THEN previous[j] ELSE row[j - 1]
  IN row

\* The row of a character of the first title.
Row(c) ==
  LET row[j \in 0..Len(other)] ==
        IF j = 0 THEN current[0]
        ELSE IF other[j] = c THEN previous[j - 1] + 1
        ELSE IF previous[j] > row[j - 1] THEN previous[j] ELSE row[j - 1]
  IN row

TitlesInit ==
  /\ title \in Titles
  /\ other \in Titles
  /\ computed = 0
  /\ previous = Zeros
  /\ current = Zeros
  /\ total = 0

NextRow ==
  /\ computed < Len(title)
  /\ computed' = computed + 1
  /\ previous' = Row(title[computed + 1])
  /\ total' = previous'[Len(other)]
  /\ current' = Zeros
  /\ UNCHANGED <<title, other>>

TitlesNext == NextRow

TitlesSpec == TitlesInit /\ [][TitlesNext]_titleVars

-----------------------------------------------------------------------------
(* The reference: the most characters that the two have in common, taken   *)
(* in the order of both.                                                   *)

Equal(s, t) == {p \in (DOMAIN s) \X (DOMAIN t) : s[p[1]] = t[p[2]]}

\* Pairs of equal characters, no character twice and none across another.
Matchings(s, t) ==
  {M \in SUBSET Equal(s, t) : \A p, q \in M : p[1] < q[1] <=> p[2] < q[2]}

Longest(s, t) == Max({Cardinality(M) : M \in Matchings(s, t)})

\* Where s and t have the same n characters in a row.
Blocks(s, t, n) ==
  {p \in (0..(Len(s) - n)) \X (0..(Len(t) - n)) :
     \A i \in 1..n : s[p[1] + i] = t[p[2] + i]}

\* What Python's difflib counts: the longest block, the first in s and then in t,
\* and what it counts to the left and to the right of it.
Difflib[s \in Titles, t \in Titles] ==
  LET n == Max({m \in 0..Len(s) : Blocks(s, t, m) # {}})
      p == CHOOSE q \in Blocks(s, t, n) :
             \A r \in Blocks(s, t, n) : q[1] < r[1] \/ (q[1] = r[1] /\ q[2] <= r[2])
  IN IF n = 0 THEN 0
     ELSE Difflib[SubSeq(s, 1, p[1]), SubSeq(t, 1, p[2])] + n
          + Difflib[SubSeq(s, p[1] + n + 1, Len(s)), SubSeq(t, p[2] + n + 1, Len(t))]

\* After every row, the entries of the row are the lengths for the two prefixes,
\* and at the end the total is that of the two titles.
RowsAreLongest ==
  /\ \A j \in 0..Len(other) :
       previous[j] = Longest(SubSeq(title, 1, computed), SubSeq(other, 1, j))
  /\ computed = Len(title) /\ computed > 0 => total = Longest(title, other)

\* A title that difflib finds alike enough for another version of a series is
\* found alike here: the total is never below what difflib counts.  It may be
\* above: sequenceMatcherRatio is not "equivalent to" the ratio of difflib, as
\* its comment has it ("zxyx" and "xxxz" have two characters in the same order,
\* and difflib counts one).
AlikeForDifflib ==
  /\ RowsAreLongest
  /\ computed = Len(title) /\ computed > 0 => total >= Difflib[title, other]
=============================================================================
