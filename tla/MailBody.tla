------------------------------- MODULE MailBody -------------------------------
(***************************************************************************)
(* The body of a mail on its way in and out: ParsePatch (pkg/mail/diff.go) *)
(* parts the lines of a text into a diff and a comment, HashDiff names the *)
(* change a diff makes, and Format (pkg/mbox/mbox.go) puts comment, tags   *)
(* and diff together again for git am.                                     *)
(*                                                                         *)
(* A line is a record of its kind, a text that tells it from other lines   *)
(* of its kind and, for a hunk header, its two line counts.  The kinds are *)
(* the prefixes the code looks for, the strings in Kinds; every other line *)
(* is "text".  One step of the specification parses one line.              *)
(***************************************************************************)
EXTENDS Integers, SequencesExt

CONSTANTS
  Mails,     \* the bodies that may arrive: their lines, the diff git wrote
             \* into them, what it edits, and whether each of its lines that
             \* looks like a file header has a first component that says
             \* nothing, as a/ and b/ do; without a diff any lines
  Tags       \* the lines of comments that Format repeats, a sequence

VARIABLES
  mail,      \* the body being parsed
  read,      \* how many of its lines are parsed
  parser     \* the locals of ParsePatch

vars == <<mail, read, parser>>

Kinds == {
  "diff",    \* "diff " and "Index: "
  "ext",     \* an extended header, as "index " or "rename from "
  "old",     \* "--- " and a file name
  "new",     \* "+++ " and a file name
  "hunk",    \* "@@ -n,old +n,new @@"
  "del", "add", "ctx",
  "nonl",    \* "\ No newline at end of file"
  "binary",  \* "GIT binary patch"
  "sep",     \* "---" alone
  "sig",     \* "-- " alone
  "text" }

Start ==
  [state |-> "Text", old |-> 0, new |-> 0, hunks |-> 0,
   patch |-> <<>>, comment |-> <<>>, buf |-> <<>>]

-----------------------------------------------------------------------------
(* Where a line goes                                                       *)

\* It waits for what follows it.
Hold(p, line, state) == [p EXCEPT !.buf = Append(@, line), !.state = state]

\* It belongs to the diff, and so does all that waited.
TakeAs(p, line, state) ==
  [p EXCEPT !.patch = @ \o p.buf \o <<line>>, !.buf = <<>>, !.state = state]

\* It was no diff after all.
GiveUp(p, line) ==
  [p EXCEPT !.comment = @ \o p.buf \o <<line>>, !.buf = <<>>, !.state = "Text"]

-----------------------------------------------------------------------------
(* A line in each state                                                    *)

InText(p, line) ==
  CASE line.kind = "diff" -> Hold(p, line, "DiffHeader")
    [] line.kind = "old"  -> Hold(p, line, "FileOld")
    [] OTHER              -> [p EXCEPT !.comment = Append(@, line)]

InDiffHeader(p, line) ==
  Hold(p, line, CASE line.kind = "old" -> "FileOld"
                  [] line.kind = "ext" -> "ExtHeader"
                  [] OTHER             -> "DiffHeader")

InFileOld(p, line) ==
  CASE line.kind = "new" -> Hold(p, line, "FileNew")
    [] line.kind # "new" /\ p.hunks > 0 -> Hold(p, line, "DiffHeader")
    [] OTHER             -> GiveUp(p, line)

\* Also where the parser waits for the next hunk, or the next file.
InFileNew(p, line) ==
  CASE line.kind = "hunk" ->
         [TakeAs(p, line, "Hunk") EXCEPT !.old = line.old, !.new = line.new]
    [] line.kind = "old"  -> TakeAs(p, line, "FileOld")
    [] line.kind = "nonl" /\ p.hunks > 0 -> [p EXCEPT !.patch = Append(@, line)]
    [] line.kind \notin {"hunk", "old", "nonl"} /\ p.hunks > 0 ->
         Hold(p, line, "DiffHeader")
    [] OTHER              -> GiveUp(p, line)

Minus(line) == line.kind \in {"del", "old", "sep", "sig"}
Plus(line)  == line.kind \in {"add", "new"}

\* Mutant: the line that says there is no newline is counted.
MutantCounts(line) ==
  [old |-> IF Plus(line) THEN 0 ELSE 1, new |-> IF Minus(line) THEN 0 ELSE 1]

\* How many lines of the old and of the new file a line of a hunk stands for.
Counts(line) ==
  CASE Minus(line) -> [old |-> 1, new |-> 0]
    [] Plus(line)  -> [old |-> 0, new |-> 1]
    [] line.kind = "nonl" -> [old |-> 0, new |-> 0]
    [] OTHER       -> [old |-> 1, new |-> 1]

\* A hunk ends by its counts: its lines may look like headers.
InHunk(p, line) ==
  LET old  == p.old - Counts(line).old
      new  == p.new - Counts(line).new
      more == [p EXCEPT !.patch = Append(@, line), !.old = old, !.new = new]
  IN IF old <= 0 /\ new <= 0
     THEN [more EXCEPT !.state = "FileNew", !.hunks = @ + 1]
     ELSE more

InExtHeader(p, line) ==
  CASE line.kind = "ext"    -> TakeAs(p, line, "ExtHeader")
    [] line.kind = "old"    -> TakeAs(p, line, "FileOld")
    [] line.kind = "binary" -> TakeAs(p, line, "Binary")
    [] OTHER                -> Hold(p, line, "DiffHeader")

InBinary(p, line) ==
  IF line.kind = "diff" THEN Hold(p, line, "Text") ELSE TakeAs(p, line, "Binary")

\* Mutant: what waited is dropped when the diff goes on.
MutantStep(p, line) ==
  CASE p.state = "Text"       -> InText(p, line)
    [] p.state = "DiffHeader" -> InDiffHeader(p, line)
    [] p.state = "FileOld"    -> InFileOld(p, line)
    [] p.state = "FileNew"    -> InFileNew(p, line)
    [] p.state = "Hunk"       -> InHunk(p, line)
    [] p.state = "ExtHeader"  -> InExtHeader([p EXCEPT !.buf = <<>>], line)
    [] p.state = "Binary"     -> InBinary(p, line)

Step(p, line) ==
  CASE p.state = "Text"       -> InText(p, line)
    [] p.state = "DiffHeader" -> InDiffHeader(p, line)
    [] p.state = "FileOld"    -> InFileOld(p, line)
    [] p.state = "FileNew"    -> InFileNew(p, line)
    [] p.state = "Hunk"       -> InHunk(p, line)
    [] p.state = "ExtHeader"  -> InExtHeader(p, line)
    [] p.state = "Binary"     -> InBinary(p, line)

\* What still waits at the end is comment.
Ended(p) == [patch |-> p.patch, comment |-> p.comment \o p.buf]

ParsePatch(lines) ==
  LET after[n \in 0..Len(lines)] ==
        IF n = 0 THEN Start ELSE Step(after[n - 1], lines[n])
  IN Ended(after[Len(lines)])

IsSig(line) == line.kind = "sig"

\* CleanContent: the signature, and what follows it, is no comment.
CleanContent(comment) ==
  IF \E i \in DOMAIN comment : IsSig(comment[i])
  THEN SubSeq(comment, 1, SelectInSeq(comment, IsSig) - 1)
  ELSE comment

-----------------------------------------------------------------------------
(* The name of a change, and the mail made of it                           *)

\* A line as HashDiff reads it: a hunk header without its line numbers; a file
\* name, or what looks like one, without its first component, which for a name
\* with no directory is all of it.
Hashed(line) ==
  CASE line.kind \in {"old", "new"} -> [line EXCEPT !.text = Tail(@)]
    [] line.kind = "hunk"           -> [line EXCEPT !.text = <<>>]
    [] OTHER                        -> line

\* Mutant: no line is left out.
MutantHashable(line) == TRUE

Hashable(line) ==
  line.kind \in {"old", "new", "hunk", "del", "add", "ctx", "sep", "sig"}

HashDiff(diff) ==
  LET kept == SelectSeq(diff, Hashable)
  IN [i \in DOMAIN kept |-> Hashed(kept[i])]

Separator == [kind |-> "sep", text |-> <<"---">>]
Blank     == [kind |-> "text", text |-> <<"">>]
Signature == <<[kind |-> "sig", text |-> <<"-- ">>],
               [kind |-> "text", text |-> <<"patchwork">>]>>

IsSep(line) == line.kind \in {"sep", "sig"}

\* Mutant: the tags follow the postscript.
MutantTagged(content, tags) == content \o tags

\* The tags go before the separator, or at the end if there is none.
Tagged(content, tags) ==
  IF \E i \in DOMAIN content : IsSep(content[i])
  THEN LET at == SelectInSeq(content, IsSep)
       IN SubSeq(content, 1, at - 1) \o tags
            \o (IF at < Len(content)
                THEN <<Separator>> \o SubSeq(content, at + 1, Len(content))
                ELSE <<>>)
  ELSE content \o tags

HasSep(lines) == \E i \in DOMAIN lines : IsSep(lines[i])

\* What git am reads: the comment with the tags of the replies, the diff, and
\* a signature unless the body has one.
Format(content, tags, diff) ==
  LET text == Tagged(content, tags)
      body == text \o (IF diff # <<>> /\ ~HasSep(text) THEN <<Separator>> ELSE <<>>)
                   \o (IF diff # <<>> THEN <<Blank>> \o diff ELSE <<>>)
  IN body \o (IF \E i \in DOMAIN body : IsSig(body[i])
              THEN <<>> ELSE <<Blank>> \o Signature)

-----------------------------------------------------------------------------
(* The diffs that git, svn and diff write, as the proofs assume them: the  *)
(* label of a line is the part of the diff it is and how many lines of the *)
(* old and of the new file its hunk still has after it.                    *)

Parts == {"diff", "ext", "info", "old", "new", "hunk", "body"}

Successions == {
  <<"diff", "ext">>, <<"diff", "info">>, <<"diff", "old">>, <<"info", "old">>,
  <<"ext", "ext">>, <<"ext", "old">>, <<"ext", "diff">>,
  <<"old", "new">>, <<"new", "hunk">>, <<"hunk", "body">>,
  <<"body", "body">>, <<"body", "hunk">>, <<"body", "old">>, <<"body", "diff">> }

Removed == {"del", "old", "sep", "sig"}
Added   == {"add", "new"}

MayBe(line, part) ==
  CASE part = "info" -> line.kind = "text"
    [] part = "body" -> line.kind \in Removed \cup Added \cup {"ctx", "nonl"}
    [] OTHER         -> line.kind = part

\* A hunk has the lines that its header announces, and ends with the last of them
\* or the line that says there is no newline.
Follows(was, line, now) ==
  /\ <<was.part, now.part>> \in Successions
  /\ now.part = "body" =>
       /\ was.old = now.old + (IF line.kind \in Removed \cup {"ctx"} THEN 1 ELSE 0)
       /\ was.new = now.new + (IF line.kind \in Added \cup {"ctx"} THEN 1 ELSE 0)
  /\ was.part = "body" /\ now.part # "body" => was.old + was.new = 0

\* A file without a hunk has two extended headers at least.
Labelled(diff, label) ==
  LET last == Len(diff)
  IN /\ label \in [1..last -> [part: Parts, old: Nat, new: Nat]]
     /\ label[1].part \in {"diff", "old"}
     /\ \A k \in 1..last :
          /\ MayBe(diff[k], label[k].part)
          /\ label[k].part = "hunk" =>
               /\ label[k].old = diff[k].old /\ label[k].new = diff[k].new
               /\ label[k].old + label[k].new > 0
          /\ k > 1 => Follows(label[k - 1], diff[k], label[k])
          /\ label[k].part = "ext" /\ (k = last \/ label[k + 1].part = "diff") =>
               k > 1 /\ label[k - 1].part = "ext"
     /\ label[last].part \in {"ext", "body"}
     /\ label[last].part = "body" => label[last].old + label[last].new = 0

\* The diff comes after a text that has no file headers of its own, and before
\* the signature.
Written(m, from, label) ==
  /\ from \in Nat /\ from + Len(m.diff) <= Len(m.lines)
  /\ \A k \in 1..Len(m.diff) : m.lines[from + k] = m.diff[k]
  /\ Labelled(m.diff, label)
  /\ \A i \in 1..from :
       /\ m.lines[i].kind # "diff"
       /\ m.lines[i].kind = "old" => i < from /\ m.lines[i + 1].kind # "new"
  /\ \A i \in (from + Len(m.diff) + 1)..Len(m.lines) : m.lines[i].kind \in {"sig", "text"}

-----------------------------------------------------------------------------
Init ==
  /\ mail \in Mails
  /\ read = 0
  /\ parser = Start

\* The loop over the lines.
ParseLine ==
  /\ read < Len(mail.lines)
  /\ read' = read + 1
  /\ parser' = Step(parser, mail.lines[read + 1])
  /\ UNCHANGED mail

Next == ParseLine

Spec == Init /\ [][Next]_vars

-----------------------------------------------------------------------------
(* Properties                                                              *)

\* Every line that was read is in exactly one of the diff, the comment and
\* the buffer, once, whatever a mail looks like.
NothingIsLost ==
  /\ ToSet(parser.patch) \cup ToSet(parser.comment) \cup ToSet(parser.buf)
       = ToSet(SubSeq(mail.lines, 1, read))
  /\ Len(parser.patch) + Len(parser.comment) + Len(parser.buf) = read

Parsed == read = Len(mail.lines)

\* The diff of a mail that git wrote, from its first file on to the signature,
\* is stored whole and in order, however much the lines of its hunks look like
\* headers, and the trailer is left out.  (Without binary files: what follows
\* one is taken apart; and without lines of the message that begin with "diff "
\* or "Index: ": the parser takes them for the start of the diff.)
DiffIsWhole == Parsed /\ mail.diff # <<>> => parser.patch = mail.diff

\* The hash of a stored diff finds the same edit in another version of the
\* mail, made on another revision of the files, with other renames beside it.
\* It finds no other edit where only prefixes are dropped from names; otherwise
\* edits of files in the top directory, or of lines such as "-- comment", may
\* share a hash.
HashFindsTheEdit ==
  Parsed /\ mail.diff # <<>> =>
    \A other \in Mails : other.diff # <<>> =>
      LET found == HashDiff(other.diff) = HashDiff(parser.patch)
      IN /\ other.edit = mail.edit => found
         /\ found /\ other.prefixed /\ mail.prefixed => other.edit = mail.edit

\* The mailbox made of a stored mail holds the same diff, all of the comment,
\* and the tags of the replies together and before any separator, where git am
\* keeps them.
MailboxKeepsThePatch ==
  Parsed /\ mail.diff # <<>> =>
    LET content == CleanContent(Ended(parser).comment)
        again   == ParsePatch(Format(content, Tags, parser.patch))
    IN /\ again.patch = parser.patch
       /\ ToSet(content) \subseteq ToSet(again.comment)
       /\ \E n \in 0..(Len(again.comment) - Len(Tags)) :
            /\ SubSeq(again.comment, n + 1, n + Len(Tags)) = Tags
            /\ \A j \in DOMAIN again.comment :
                 IsSep(again.comment[j]) => j > n + Len(Tags)
=============================================================================
