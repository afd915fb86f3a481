-------------------------------- MODULE MCMail --------------------------------
(***************************************************************************)
(* Instances of MailBody and Titles, of which an initial state takes one:  *)
(* mails as git writes them, as the cfg has it, bodies of five lines of    *)
(* any kind, and titles of up to four characters.                          *)
(***************************************************************************)
EXTENDS MailBody, Titles, TLC

VARIABLE part

Line(kind, text) == [kind |-> kind, text |-> text]
Hunk(text, old, new) ==
  [kind |-> "hunk", text |-> text, old |-> old, new |-> new]

\* The hunks of an edit, the headers with a line number of the revision.
Hunks(edit, rev) ==
  CASE edit = "fix" -> <<Hunk(<<rev, 1>>, 2, 2), Line("ctx", <<"c">>),
                         Line("del", <<"d">>), Line("add", <<"e">>)>>
    [] edit = "sql" -> <<Hunk(<<rev, 1>>, 2, 1), Line("old", <<"s", "x">>),
                         Line("sig", <<"g">>), Line("new", <<"t", "y">>)>>
    [] edit = "doc" -> <<Hunk(<<rev, 1>>, 1, 0), Line("old", <<"s">>)>>
    [] edit = "rem" -> <<Hunk(<<rev, 1>>, 1, 0), Line("old", <<"t">>)>>
    [] edit = "eof" -> <<Hunk(<<rev, 1>>, 1, 0), Line("del", <<"u">>),
                         Hunk(<<rev, 2>>, 1, 1), Line("del", <<"v">>),
                         Line("nonl", <<1>>), Line("add", <<"w">>),
                         Line("nonl", <<2>>)>>

\* The diff of a file of the top directory as git, as svn and as plain diff of
\* two directories write it: svn writes the name alone.
Styles == {"git", "svn", "plain"}

Name(style, f) == IF style = "svn" THEN <<f>> ELSE <<"prefix", f>>

File(style, f, edit, rev) ==
  (CASE style = "git"   -> <<Line("diff", <<f>>), Line("ext", <<f, rev>>)>>
     [] style = "svn"   -> <<Line("diff", <<f>>), Line("text", <<"=", f>>)>>
     [] style = "plain" -> <<>>)
  \o <<Line("old", Name(style, f)), Line("new", Name(style, f))>> \o Hunks(edit, rev)

Rename(f) == <<Line("diff", <<f>>), Line("ext", <<f, 1>>), Line("ext", <<f, 2>>)>>

Befores == {<<Line("text", <<"m">>)>>,
            <<Line("text", <<"m">>), Line("sep", <<"---">>), Line("text", <<"s">>)>>,
            <<Line("old", <<"q", "r">>), Line("text", <<"m">>)>>}
Afters == {<<>>, <<Line("sig", <<"-- ">>), Line("text", <<"2.39">>)>>}

\* Mails of one or two files, with a file renamed before, between or after.
Diff(diff, edit) ==
  [diff |-> diff, edit |-> edit,
   prefixed |-> \A i \in DOMAIN edit : Len(edit[i][1]) > 1 /\ edit[i][2] \in {"fix", "eof"}]

GitDiffs ==
  {Diff(r1 \o File(style, f, edit, rev) \o r2, <<<<Name(style, f), edit>>>>) :
     r1 \in {<<>>, Rename("g")}, r2 \in {<<>>, Rename("h")}, f \in {"f", "k"},
     style \in Styles, edit \in {"fix", "sql", "doc", "rem", "eof"}, rev \in {1, 2}}
  \cup
  {Diff(File(style, "f", e1, rev) \o File(style, "k", e2, rev),
        <<<<Name(style, "f"), e1>>, <<Name(style, "k"), e2>>>>) :
     style \in Styles, e1 \in {"fix", "eof"}, e2 \in {"fix", "sql"}, rev \in {1, 2}}

GitMails ==
  {[lines |-> before \o d.diff \o after] @@ d :
     before \in Befores, d \in GitDiffs, after \in Afters}

\* The label of a line, after those of the lines before it.
WithLabel(labels, line) ==
  LET was  == IF labels = <<>> THEN [part |-> "diff", old |-> 0, new |-> 0]
              ELSE Last(labels)
      rest == [part |-> "body",
               old  |-> was.old - (IF line.kind \in Removed \cup {"ctx"} THEN 1 ELSE 0),
               new  |-> was.new - (IF line.kind \in Added \cup {"ctx"} THEN 1 ELSE 0)]
  IN Append(labels,
       CASE was.old + was.new > 0 \/ line.kind = "nonl" -> rest
         [] was.old + was.new = 0 /\ line.kind = "hunk" ->
              [part |-> "hunk", old |-> line.old, new |-> line.new]
         [] OTHER -> [part |-> IF line.kind = "text" THEN "info" ELSE line.kind,
                      old |-> 0, new |-> 0])

\* What the proofs assume of these mails, the tags and the separators.
ASSUME WrittenAssumption ==
  \A m \in GitMails : \E from \in 0..3 : Written(m, from, FoldLeft(WithLabel, <<>>, m.diff))

ASSUME RepliesAssumption ==
  /\ \A tag \in ToSet(Tags) : tag.kind = "text"
  /\ \A m \in GitMails : \A line \in ToSet(m.lines) : line.kind = "sep" => line = Separator

AnyLine(n) ==
  {Line(kind, <<n>>) : kind \in {"diff", "ext", "old", "new", "del", "add",
                                 "nonl", "binary", "text"}}
  \cup {Hunk(<<n>>, 1, 1), Hunk(<<n>>, 0, 2)}

AnyMails ==
  {[lines |-> <<l1, l2, l3, l4, l5>>, diff |-> <<>>, edit |-> <<>>, prefixed |-> TRUE] :
     l1 \in {l \in AnyLine(1) : l.kind \in {"diff", "old", "text"}},
     l2 \in AnyLine(2), l3 \in AnyLine(3), l4 \in AnyLine(4), l5 \in AnyLine(5)}

MCTags == <<Line("text", <<"Acked-by">>)>>

Free == INSTANCE MailBody WITH Mails <- AnyMails, Tags <- <<>>

MCTitles == UNION {[1..n -> {"x", "y", "z"}] : n \in 0..4}

NoMail == /\ mail = [lines |-> <<>>, diff |-> <<>>, edit |-> <<>>, prefixed |-> TRUE]
          /\ read = 0 /\ parser = Start
NoTitles == title = <<>> /\ other = <<>> /\ TitlesInit

MCInit ==
  \/ part = "git" /\ Init /\ NoTitles
  \/ part = "any" /\ Free!Init /\ NoTitles
  \/ part = "titles" /\ TitlesInit /\ NoMail

MCNext ==
  /\ UNCHANGED part
  /\ \/ part = "git" /\ Next /\ UNCHANGED titleVars
     \/ part = "any" /\ Free!Next /\ UNCHANGED titleVars
     \/ part = "titles" /\ TitlesNext /\ UNCHANGED vars

MCVars == <<part, vars, titleVars>>

MCSpec == MCInit /\ [][MCNext]_MCVars
=============================================================================
