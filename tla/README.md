# Patchwork in TLA+

Patchwork watches mailing lists: it stores the patches, cover letters and comments it
receives by mail, groups patches into series, links the versions of a series, and lets
maintainers triage patches through a web interface and a REST API. Changes are logged as
events and posted to webhooks. This directory holds TLA+ specifications of the program, the
TLC configurations that model-check them, and proofs of their main properties for TLAPS.

Contents: [components](#components), [modules](#modules), [runs](#runs),
[proofs](#proofs),
[where the code and its documentation differ](#where-the-code-and-its-documentation-differ),
[not modelled](#not-modelled).

Run everything from this directory, for example

    tlc -workers 2 -config MCIngest.cfg MCIngest
    tlc -workers 2 -config MCRequests_missed_completion.cfg MCRequests
    tlapm OverlapProofs.tla

## Components

All state that outlives a request is in one SQL database (PostgreSQL or SQLite, and MySQL)
that the SMTP daemon, the HTTP daemon and the commands of `pw` share. They share no
memory. Inside a daemon every connection has a goroutine, and every mail and every request
that is not a GET has a transaction; no isolation level is asked for.

| Component | State | Operations | Hard behaviour | Correct when | Modules |
|---|---|---|---|---|---|
| Mail ingestion (`pkg/mail`) | tables series, patch, cover, series_reference, comments | `ParseMail` and its handlers | any order of arrival, duplicates, losses, cross-posts, overlapping transactions | a thread is one series, a place holds one patch, completion is announced once, versions form chains | `Ingest`, `Overlap` |
| Project, state and delegate of a mail (`pkg/mail/project.go`, `diff.go`) | tables project, state, delegation_rule | `resolveProject`, `FindDelegateByFilename` | patterns and rules that overlap and change between mails | a patch goes where its subject says, a rule of higher priority wins | `Projects` |
| Diffs, comments, mboxes (`pkg/mail/diff.go`, `pkg/mbox`) | none | `ParsePatch`, `HashDiff`, `Format` | lines of a hunk that look like headers | a diff keeps its lines, the hash names the edit | `MailBody` |
| Title similarity | none | `nameSimilarity` | two rows that change places | the length of the longest common subsequence, never below what difflib counts | `Titles` |
| Transactions and event bus (`pkg/db/db.go`, `pkg/events/bus.go`) | buffered events, table event, a channel of 512 items, 4 workers | `Commit`, `Rollback`, `Enqueue`, `worker`, `Shutdown` | full channel, workers that end, shutdown during a send | an event comes from a commit, a subscriber hears of it at most once, shutdown ends | `EventBus`, `EventDelivery` |
| Daemons (`cmd/pw/ingress`, `cmd/pw/http`) | running or shutting down | `Run` | signals during transactions, migrations at the start | the process ends, and drains if it can | `EventBus`, `Migrations` |
| Patches by API and forms (`pkg/api/patches.go`, `util.go`, `comments.go`, `pkg/web/patches.go`) | columns of patch, patch_relation, addressed | `UpdatePatch`, `updateRelated`, `PatchUpdate`, `PatchListAction`, … | read, check and write as separate statements; rollback after events were queued | rights, truth of events, what is listed ends in one relation | `Triage` |
| Checks (`pkg/api/checks.go`) | table ci_check | `CreateCheck`, `UpdateCheck` | two requests that both find nothing | a check is announced once | `Checks` |
| Bundles (`pkg/api/bundles.go`, `pkg/web/bundles.go`) | tables bundle, bundle_patch | creation, change, reordering, removal | two interfaces on one list, in overlapping requests | places are distinct | `Bundles` |
| Lists by page (`pkg/api`, `pkg/web`) | the reader's page | count and page | rows that come, go and change places between pages, and between count and rows | a reader misses only what another row let slip | `Paging` |
| Accounts (`pkg/web/auth.go`, `session.go`, `profile.go`, `cmd/pw/admin`) | tables auth_user, email_confirmation, session, auth_token, person | register, confirm, link, log in, change, delete, collect | links without a transaction, log-in across statements | a used link has done its work, a new password ends the sessions | `Accounts` |
| Administration, webhooks | tables project, state, maintainers, rules, webhook | `pw admin`, the webhook API | deletion of what others refer to | no dangling reference | `Projects` |
| Schema and migrations (`pkg/db/migrations`) | schema_migrations, indexes | `RunMigrations`, `Check`, bootstrap | daemons that migrate at once, crashes, restarts | who serves does so on the models' schema | `Schema`, `Migrations` |
| Export and import (`pkg/db/export.go`, `cmd/pw/db/import_.go`) | a dump | `pw db export`, `pw db import` | export of a live instance, cutting into statements | a dump loads | `Dump` |
| Notifications, address filter, configuration, logging | none that is read back | | | | in part `Triage` |

`PROJECT.json` lists the source files of each component with its status, the lines every
definition translates, and the hazards of the code at their lines.

The components meet in the tables and in the events. The event sequence a session emits in
`EventBus` is what one transaction of `Ingest`, `Triage` or `Checks` publishes.
`Overlap` is `HandlePatch` of `Ingest` taken apart into statements. `Patchwork` has the patches, accounts and sessions
that `Triage`, `Checks`, `Bundles` and `Paging` share. `Migrations` and `Dump` share the tables of `Schema`.

## Modules

A transaction that is refused or rolled back without an effect is a stuttering step in every
module. A query with `LIMIT 1` and no total order is a choice among the rows it may
return. Names are those of the code where TLA+ allows it.

**Ingest** (one mail at a time). The variables are the tables: `series[s]` is the row with id
`s`; a patch, a cover letter or a comment is the mail it was made from, so `patches` and
`covers` are sets of mails and later columns are functions on mails (`inSeries`,
`superseded`, `tagged`); `reference` is `series_reference`; `events` are the events of
committed transactions. A mail is the record of what headers and content say after parsing. The
actions are `HandlePatch`, `HandleCoverLetter`, `CommentOnPatch` and `CommentOnCover`, each a
whole transaction of `ParseMail` with its trailing steps. `AssignSeries` keeps the path on
which the place is taken (no series, references saved, no completion).

**Overlap** (the patches of one mailing at the same time). Every statement of `handlePatch`
that other transactions may notice is an action; `Visible` says what READ COMMITTED lets a
statement see, `GetOrCreatePerson` takes the lock on the sender's row (`ON CONFLICT DO
UPDATE`), `CreateSeriesReference` waits for an open transaction with the same key,
`UpdatePatchSeries` meets the unique key, and `Rollback` covers deadlocks, failures and
refused keys. After it the mail comes again (SMTP 451). This is PostgreSQL at its default
level: SQLite serialises writers, which is `Ingest`, and MySQL's REPEATABLE READ is not
modelled. `Commit` of a transaction that PostgreSQL has aborted returns an error, so its
events are dropped and the mail is answered with 451, as `Rollback` says.

**Triage**. An update by the API is a transaction of a session, and each of its statements an action: `Load` (the patch
is read and the right checked), `WritePatch` (the columns), then those of `updateRelated`: `Leave`, `CountRemaining`, `Dissolve` for an
empty list, `LookAt`, `Adopt`, `Create`, `Put` for one with patches, and at last `CommitUpdate` or `AbortUpdate`, which may come at any
moment. As in `Overlap`, this is READ COMMITTED: a statement reads what is committed and what its transaction has written (`RowOf`);
written rows stay locked to the end (`LockedBy`), and the foreign key of `related_id` lets a row refer only to a relation that exists
or that the transaction has inserted itself (`Referable`), and a deletion wait for those that refer to it (`Droppable`). SQLite
serialises writers, which is a run of these actions without overlap. Forms and comments are one action: one statement after the
checks. `last` records who made the last request and what it published and mailed.
What updates of relations do when they overlap is what the code does: two that each take one patch out of a relation of three both
count two that remain, and leave a relation of one; two that both find a patch in no relation put it first into one and then into the other.

**Checks**: `Look` finds the check, `CreateCheck` inserts or overwrites it later, `Refused` is the unique
key. **Bundles**: every operation of the API, of the bundle pages and of the list actions. Requests that place patches
are several steps: `StartAdding` reads the largest order (or `StartReplacing` the rows that are to go, which `DeleteRows` deletes), and
`Place` inserts later, so two of them may take the same places; `raced` remembers the bundles in which that may have happened.
**Paging**: `Count` and `Show` of a page, with `Insert`, `CommitRow`, `RollbackRow`, `Depart` and `Move` of rows in between,
for thirteen lists with their orders. Events and the sorted lists of the web interface are ordered by a column that is not unique and without a tie-break, so
`Swap` lets two rows of one key change places between any two statements. `slipped` are the rows that left or moved, and
those that one such step let slip past the reader.

**Accounts**. A POST is one action. The link of a confirmation is a GET without a transaction:
`ConfirmHandler`, `Activate`, `Link` and `UseUp` are steps between which anything runs, the server stops or a
statement fails (`Stop`). A log-in compares the password (`LoginSubmit`) and inserts the session
(`CreateSession`) outside of the request's transaction. `UserCreate`, `UserPasswd` and `UserDelete` are `pw admin user`; the password that
`passwd` sets ends no session, and `web` is the last one that the web interface set. `Gc` is `pw admin gc`, which a
forbidden deletion aborts as a whole.

**Projects**. Projects, states, maintainers, rules, webhooks and users as `pw admin` and the API change them, and
the patches that arrive meanwhile with their project, state and delegate.

**MailBody, Titles**. `ParsePatch` with one step per line, `HashDiff` and `Format` as operators;
`nameSimilarity` with one step per row, and `Difflib`, which is what its comment compares it to.

**EventBus, EventDelivery**. The processes are the sessions, the workers and the main goroutine. A session
commits or rolls back; after the commit every event is logged (`Log`, or lost in `LogFails`) and, if
the project has an active webhook, sent through the channel (`Send`). A worker receives,
loads (`Load`), posts (`Post`); a failed query ends it for good (`Fail`). `Signal` cancels the context, `Close` is the
return of `Run` and the start of `Shutdown`, and `Exit` the end of the process. Which process was started, a server or the reader of
an mbox, and what its transactions emit, is chosen from `Processes` at the start and kept in `process`. `Enqueue` takes no lock, so a session may find the channel closed
(`Panic`). A mail that is refused (a duplicate, one that cannot be parsed) lets the reader of an mbox go on; one that fails for any other reason ends its loop, and the
mails behind it stay unread (`Unread`). `EventDelivery` is the abstract promise: events promised by commits, then logged, then
posted to subscribers at most once.

**Schema, Migrations**. `Schema` has the foreign keys of `models.go` and the orders of creation and copying. In `Migrations`
daemons with and without auto-sync and `pw db sync` run on a database of any version; every statement
that others may interleave with is a step, `Crash` and `Restart` are systemd's.

**Dump**. The export reads table after table outside a transaction while the old instance may still
write; the dump is a sequence of statements that a client of the dialect, or `pw db import`, applies one by one, for each of the three dialects.
A row carries what the unique keys of the new schema see of it (`keys`; `Clash`), and a database checks foreign keys if its dialect and client do (`ForeignKeysOn`).

## Runs

Deadlock is not checked: mail may stop, clients may leave, processes end, and bounds are reached.
Each MC module puts several small instances into one state space: the initial state chooses a part,
and the variables of the others do not change.

| Run | Instance and bounds | Properties |
|---|---|---|
| `ingest` | four mailings in every order, with duplicates and losses: three versions in one thread; two threads with several senders; two mailings with the same markers, a patch sent twice and a pull request; a cross-posted series with a dependency and its discussion | `TypeOK`, `SeriesIsHomogeneous`, `PreviousIsPriorVersion`, `SupersededByNextVersion`, `ThreadsStayTogether`, `PatchCompletedExactlyOnce`, `EveryNumberedPatchHasItsSlot`, `SeriesCompletedWhenAllArrived`, `ReferencesStayInProject`, `TagsCountEveryComment` |
| `bus` | two handlers of a server, and the reader of an mbox of two mails, any of which may fail; 5 events, 2 webhooks, 2 workers of which a failing query may cost one, a channel of one place | `TypeOK`, `ReaderDrains`, `PromisesKept`, `ServerStops`, `ServerIsHeard`, `ReaderReads` |
| `requests` | nine parts: relations of three patches through one session, and through two whose statements interleave; overlapping updates by two sessions and a form; forms and comments; checks by two sessions; two bundles; one bundle with overlapping requests; a list of up to four rows on pages of two, with two sort keys; the three places of a mailing, sent by one person and in part by two others | `RightsRespected`, `EventsTellTheTruth`, `RelatedTogether`, `LoneUpdatesKeepRelations`, `CreatedOnce`, `OrdersDistinct`, `NothingIsMissed`, `AnnouncedOnce`, `OneSenderIsServed` |
| `admin` | five parts: links (two workers, an address in two spellings); passwords and sessions; routing of mails while projects come and go; rules; webhooks of two projects | `UsedUpMeansDone`, `NoSessionOutlivesAChange`, `PendingIsSpared`, `ReferencesHold`, `PatchesWellRouted`, `DelegatesByTheRules` |
| `mail` | mails of one or two files as git, svn and diff write them, with renames, names with and without a directory, and lines that look like headers; bodies of five lines of any kind; all pairs of titles of up to four of three characters | `NothingIsLost`, `DiffIsWhole`, `HashFindsTheEdit`, `MailboxKeepsThePatch`, `AlikeForDifflib` |
| `storage` | two daemons that migrate, one that only checks and `pw db sync` with two crashes, from databases of every version; the dump of an instance in use into each dialect, read by its own client and by `pw db import`, with batches of two rows, users of one name and checks of one date | `ServesModelSchema`, `DaemonsComeUp`, `LoadsEverything`, `FailsForKnownReasons` |

What the properties say is written above each definition. The remaining six runs end with a counterexample, see
[below](#where-the-code-and-its-documentation-differ).

Why the bounds are enough. In `ingest`, one unit of date is ten minutes, so `Delay = 2` and dates
lie inside, at and outside of the window; every branch of `FindSeries` needs at most two series that compete, a
completion a gap of at most two, a middle version three, a cross-post two projects. `ThreadsStayTogether` is about
mailings that the code can tell apart: sent within the delay, all patches numbered and no number twice, one cover letter at most, by
one sender or as a thread that no other mail replies to. Without that, `OneSeriesPerThread` is violated
(`split_thread`). In `bus`, one place
fills the channel with two events, and two workers are the least of which one may be lost. In `requests`, a relation dissolves when it shrinks from two, and three
patches are the least that can form two relations that conflict (one new and one that exists); an overlap takes
two sessions. `RelatedTogether` holds however updates overlap; `LoneUpdatesKeepRelations` is about an update with which no other update of relations overlaps (`alone`), since
those that overlap do leave relations of one and move patches: without `alone`, the part `races` violates it. In the same way
`OrdersDistinct` is about bundles in which no request was overtaken while it placed patches (`raced`), which the part `placing` violates otherwise;
a page of two and four rows give a full page, a last page and one more than was counted, and two keys for four rows give equals on both sides of a page's edge; a mailing of three has a gap that two
transactions close together. In `admin`, two workers may follow one link or two for one address;
two passwords are replaced; the three parts of `Projects` are one instance with different rows (`Within`), each begun where deletions lead from `ProjectsInit`; three rules overlap in paths and priorities; keys of links and of sessions are random, which makes them symmetric. In `storage`, batches of two split the series, whose rows refer to each other.
In `mail`, `HashFindsTheEdit` says that the hash of an edit finds it everywhere, and that it finds no other edit among mails whose names have a prefix to drop and whose hunks have no
line that looks like a file header (`prefixed`): the others are in the run as well, and do share hashes.

The passing runs have 1.0 (`admin`), 2.2 (`requests`), 0.35 (`mail`), 0.14 (`storage`) and 0.05 (`bus`) million distinct states; the longest takes under three minutes with two workers.

### Fairness

`EventBus`: weak fairness of each session, each worker, `Close` and `Exit`. The Go scheduler
runs every goroutine that can run, and nothing disables an action again and again: a post ends after
10 seconds whatever the receiver does, and only `Send` waits for the channel. Signals are not fair.
`ServerIsHeard` and `ReaderReads` hold with fewer failing events than workers; `ServerStops` needs no such assumption.

`Migrations`: weak fairness of the steps and restarts of the daemons, which systemd
starts again (`Restart=on-failure`, `etc/pw-http.service`); nobody has to run `pw db sync`, and crashes are bounded.
`DaemonsComeUp` says that both migrating daemons serve in the end.

## Proofs

Each theorem holds for every value of the constants under the assumptions named. An assumption
that is not an `ASSUME` of the module is an operator of the proof module and a hypothesis of the theorem; it says
only what the constants stand for.

| Module | Theorem | States | Assumes |
|---|---|---|---|
| `IngestProofs` | `TypeCorrect` | `TypeOK` | the assumptions of `Ingest` |
| | `SlotsAreKept` | `EveryNumberedPatchHasItsSlot` | |
| | `SeriesStayHomogeneous` | `SeriesIsHomogeneous` | |
| | `ReferencesKeepProjects` | `ReferencesStayInProject` | |
| | `PreviousSeriesIsPrior` | `PreviousIsPriorVersion` | |
| | `SupersededHasSuccessor` | `SupersededByNextVersion` | |
| | `MailingsStayTogether` | `ThreadsStayTogether` | |
| | `PatchesCompleteOnce` | `PatchCompletedExactlyOnce` | |
| | `SeriesCompletionsAreRight` | `SeriesCompletedWhenAllArrived` | |
| | `TagsAreComplete` | `TagsCountEveryComment` | |
| `OverlapProofs` | `OverlapTypes` | `OverlapTypeOK` | `Mailing`: finitely many patches, numbers within the total |
| | `AnnouncementsAreUnique` | `AnnouncedOnce` | |
| | `OneSenderIsSafe` | `OneSenderIsServed` | |
| `EventBusProofs` | `BusTypes` | `TypeOK` | the assumptions of `EventBus` |
| | `BusKeepsPromises` | `PromisesKept`: `EventBus` implements `EventDelivery` | |
| | `ReaderDrainsTheChannel` | `ReaderDrains` | `FewFailures`: fewer failing events than workers |
| `RequestProofs` (`Triage`) | `TriageTypes` | `TriageTypeOK`, with the foreign key of relations | `Tracker`: the fields of bodies and forms have the types of their columns, finitely many patches |
| | `ChangesNeedRights` | `RightsRespected` | |
| | `EventsAreTrue` | `EventsTellTheTruth` | |
| | `ListedPatchesEndTogether` | `RelatedTogether` | |
| | `LoneUpdatesAreSafe` | `LoneUpdatesKeepRelations` | |
| (`Checks`) | `CheckTypes` | `ChecksTypeOK` | `Reporting`: a state is not `Null` |
| | `ReportsAreAnnouncedOnce` | `CreatedOnce` | |
| (`Bundles`) | `BundleTypes` | `BundlesTypeOK` | `Collecting`: lists are not empty and fit the bound |
| | `PositionsAreDistinct` | `OrdersDistinct` | |
| (`Paging`) | `NoRowIsMissed` | `NothingIsMissed` | `Paged`: a page has a row at least |
| `AccountsProofs` | `AccountTypes` | `TypeOK`, with the foreign keys | `Registry`: rows, ids and `Null` differ |
| | `ChangesEndSessions` | `NoSessionOutlivesAChange` | |
| | `LinksDoTheirWork` | `UsedUpMeansDone` | |
| | `PendingAccountsAreSpared` | `PendingIsSpared` | |
| `ProjectsProofs` | `ReferencesAreKept` | `ReferencesHold` | `Columns`: webhooks and rules have the types of their columns, finitely many users |
| | `MailsReachTheirProject` | `PatchesWellRouted` | |
| | `DelegatesFollowTheRules` | `DelegatesByTheRules` | `Columns` |
| `MailBodyProofs` | `LinesAreKept` | `NothingIsLost` | `Bodies`: a mail is a sequence of lines, a hunk header has its two counts |
| | `DiffsAreWhole` | `DiffIsWhole` | and `Diffs`: a diff has the grammar of `Written` (`MailBody`), which TLC finds in every mail of the run; no line of the message before it begins a diff |
| | `MailboxesKeepPatches` | `MailboxKeepsThePatch` | and `Replies`: tags are lines of text, separators are alike (also evaluated by TLC) |
| (`Titles`) | `RowsAreRight` | `RowsAreLongest`, the first part of `AlikeForDifflib` | `Titled`: titles are sequences of characters |
| `StorageProofs` (`Migrations`) | `DatabaseIsAtOneVersion` | `AtOneVersion`: the recorded versions have no gap, and the indexes are those of the last | |
| | `ServersHaveTheModelSchema` | `ServesModelSchema` | |
| (`Dump`) | `ImportsLoadEverything` | `LoadsEverything` | `OldInstance`, of `Dump`: finitely many rows, of tables that are copied, and foreign keys hold among them, before and after each transaction; TLC evaluates it (`MCStorage`) |
| | `ImportsFailForKnownReasons` | `FailsForKnownReasons` | |

The arguments:

- **Ingest.** None of the properties is inductive alone: a series found for a patch is known to fit by its markers only if every reference
  leads to an existing series of its project, and a superseded patch only has a successor if links lead to
  the version before. `SeriesInvariant` is their conjunction with the types and `OnlyPatchesArePlaced`. Actions are first reduced to what it
  can see of them (`PatchStep`, `CoverStep`). `EventInvariant` adds what completions are about. The code compares the
  *number* of patches below `n` with `n - 1`, the property says *which* have arrived; `CountTellsFull` shows that they agree since
  places are taken once, and the mail that closes a gap is the only one to announce what follows it.
- **Mailings.** Every series has a founder: a patch or cover letter in it whose sender and date it took over
  (`EverySeriesHasAFounder`), and a reference is only ever entered by a mail that mentions its message id
  (`ReferencesAreMentioned`). So the first mail of a mailing cannot be drawn into another series by a message id or by markers
  and founds one; each later mail finds that series, by its thread or by its markers, and no other that fits
  (`MailingsAreGathered`, which names the series).
- **Overlap.** Two transactions that announce one patch must each have seen all up to it, so each has seen the other,
  and what is seen is committed or one's own: `SawAll` keeps that fact, and `PlacesDistinct` (the unique key) makes the
  count of patches tell which there are. For one sender, `SendersApart` (the lock on the person's row) orders the transactions, so the last of those that
  fill `1..n` sees all others: `PatchesTold` and `SeriesTold`. And one that opens a series next to another of the same sender has seen that one and found its place there taken:
  `Joined` says that what is filed and joined was committed, and `OpenersApart` is the claim.
- **EventBus.** An event is in its session's buffer, in the channel or with one worker, in this order and in one place at a time
  (`InOnePlace`); it is logged before it leaves the session, and a worker posts to a hook once (`WorkersInOrder`). So each step of the bus is a step of `EventDelivery` or none.
  For draining, every event of a commit is on its way or heard of as long as no signal comes, and a worker is
  gone because the channel is empty or because of an event of its own that failed (`WorkersEnd`); with fewer failures than workers one is left to the end.
- **Triage.** Each request has a record, and the invariant says what its record may hold by the statement it is at (`Sound`), and what two records may hold together
  (`Apart`: locks, relations inserted and deleted): that it holds only patches its user maintains, refers to relations that are committed or its own, and that
  the listed patches it has passed are rows it has written, which are locked, and so are still in its relation when it commits. So `RelatedTogether` needs no assumption on overlaps.
  For `LoneUpdatesKeepRelations`, what a request read at a statement is still so at its commit if it is alone, since forms change no `related_id`; then the row count decides.
- **Checks.** What a request found is still there when it writes, since no request deletes a check; so it overwrites without an event, and only the insertion publishes one.
- **Bundles.** A patch that is appended gets a place after the greatest (`MaxOfBounded`), and while a request is fresh, all rows that stay are before its first place (`InPlace`); a list gives distinct places.
- **Paging.** A row that was there at the beginning has slipped, has been shown or is on a page to come (`Reached`). A row that comes in pushes
  others towards later pages only (`InsertAhead`), one that goes or moves, or two equals that change places, pull at most one over the reader's place (`RemoveAhead`), and after the count of the last page
  at most one is pushed out of it. So nothing that has not slipped is left after the last page (`LastPageIsLast`).
- **Accounts.** A worker about to use a link up has done its work (`DoneBeforeUsed`), and ids are never given out twice (`IdsAreSpent`), or a session could come to belong to a new account. A change or a reset by the web deletes the sessions and makes the new password the one of `web`; `passwd` leaves `web` alone. `Gc` takes
  inactive accounts without a link that is still valid, `pw admin user delete` active ones, and nothing else deletes an account.
- **Projects.** Each kind of reference has its conjunct (`HooksHold`, `PatchesHold`, `RulesHold`), and each deletion
  either removes what refers to the row, sets it to null, or is refused.
- **MailBody.** A line that was read is in the buffer, the diff or the comment: a step moves the buffer as a whole or takes one line more.
  For a diff that has the grammar of unified diffs (`Labelled`: the part each line is and what its hunk still has, independent of the parser) the state of the parser is the one
  that the label of the last line asks for (`At`), and diff and buffer together are what was read of it (`InPlace`); the grammar ends where the buffer is empty.
  `ParsePatch` as a function does what the loop does (`Parsing`, with the least line where it would not). What it leaves as the comment has no
  file header of its own (`Calm`), nor has the part of it before the signature, nor that with the tags and a separator put in (`FormatIs`); so what `Format` makes
  is again a mail as `Written` has it, with the same diff (`MailboxIsWritten`), and the parser finds it whole a second time.
- **Migrations.** A process that migrates has itself read or recorded the version it builds on, and the primary key of `schema_migrations` lets
  one process record a version; so whoever records version `n + 1` does so on indexes of version `n` (`SchemaInvariant`).
- **Titles.** A longest matching of two prefixes takes their last characters when they agree (`BestOfEqual`) and leaves one of them out
  when they do not (`BestOfDifferent`): the recurrence of the code. The inner loop is a recursive function, which the prover
  cannot reason about by induction; the least place where it would differ is a contradiction (`LeastOf`).
- **Dump.** The statements of a table hold what its query selects and nothing else (`StatementsFacts`), and a foreign key leads to a row that is selected with its table or an
  earlier one (`KeysAreSelected`, from the order of the tables); so the statements so far hold what the tables so far give, with the rows it refers to
  (`ExportInvariant`), and the transaction sees the statements executed (`ImportInvariant`). A series may refer to another one, which is why a
  statement can be refused when there is more than one of them for `series`. A refusal is traced to its reason when it happens (`RefusedForReasons`). Where foreign keys are checked they hold of what is staged after every statement (`KeysHold`),
  whatever the old instance wrote in between.

Only model-checked: liveness, which is out of the prover's reach; `OneSeriesPerThread`, which is
false in general; `Difflib`, whose recursion is over data; and `HashFindsTheEdit` of `MailBody`, which compares what a selection of lines leaves of two diffs
of any length, for an induction over data, and the edit a diff makes, which only the instance knows.

## Where the code and its documentation differ

Each of these is a run that TLC ends with a counterexample.

| Run | What happens |
|---|---|
| `split_thread` | A second version sent in reply to the first and delivered before it takes the first thread's message ids, because `CreateSeriesReference` keeps the first entry. Patches of the first version sent by two people then fall into two series; `series.go:63` saves the references "so later patches find this series". |
| `other_project` | A reply posted to a second list becomes a comment of the first project's patch, and its event names the second project; the documentation says project is "The project this event belongs to". |
| `mbox_stuck` | A failed query ends a worker. After four of them nobody receives, the channel fills up and the reader of `--mbox`, which is to "Read all emails in mbox format from stdin", waits for ever. |
| `silent_forms` | The forms change states without `patch-state-changed`, "Sent when a patch's state is changed". |
| `missed_completion` | The last two patches of a series, by two people, are handled at the same time: neither transaction sees the other's, and `series-completed`, "Sent when a series is completed", is not sent. |
| `import_cuts_lines` | `pw db import` takes any line that ends in a semicolon for the end of a statement, texts included, and the import of a valid dump fails. (The run uses MySQL, where nothing else can make it fail.) |

Met while reading, and not the subject of a run:

- Automatic supersession (`pkg/mail/series.go:271`) sends no `patch-state-changed` either, and overwrites whatever state a maintainer had set.
- A new cover letter that no series refers to joins another series by its markers (`pkg/db/series.go:119`), where `pkg/mail/cover.go:41` says "via reference, or create a new one".
- After a signal the workers query with a cancelled context and leave items in the channel, though `Shutdown` "waits for the worker to drain all pending events" (`pkg/events/bus.go:58`).
- `delegation.rst` documents paths in `fnmatch` format, the code uses `filepath.Match`, in which `*` does not match `/`. It says that higher priorities win, as the code has it; `management.rst:436` and the help text at `cmd/pw/admin/delegate_rules.go:77` say that lower ones do.
- `pw admin gc` has no option `--event-max-age` (`management.rst:556`).
- The filter of bundles by owner (`pkg/api/bundles.go`) selects from a table `user` that does not exist.
- `sequenceMatcherRatio` is "equivalent to Python's difflib.SequenceMatcher.ratio()" by its comment (`pkg/mail/similarity.go:19`). It counts the longest common subsequence, difflib the blocks it finds by taking the longest first: for "zxyx" and "xxxz" the code counts two characters and difflib one. It is never below (`AlikeForDifflib`), so a title that was alike enough for the old version still is.
- `pw db import` is "Used to load data previously exported with pw db export" (`management.rst:64`), but a PostgreSQL dump has `COPY … FROM stdin` with its data behind it (`pkg/db/export.go:505`), which cannot be executed as a statement (`cmd/pw/db/import_.go:33`): it always fails.
- "Foreign key constraints are disabled during the import" (`management.rst`): not in a PostgreSQL dump, and in an SQLite dump the PRAGMA stands inside of the transaction, where it has no effect; `pw db import` opens SQLite with foreign keys on.
- The export "only reads known columns" (`migration.rst`), but tables without a list of columns are read with `SELECT *` (`buildQuery`).
- The reader of `--mbox` is to "Read all emails" (`cmd/pw/ingress/main.go:33`); it stops at the first one that fails for any other reason than being a duplicate or unreadable (`main.go:66`).
- `HashDiff` reduces a name without a slash to nothing (`pkg/mail/diff.go:56`), so one edit of two top-level files in an svn diff has one hash, and a removed line `-- x` is taken for such a name.
- `ParsePatch` takes lines of the message that begin with "diff " or "Index: " for the beginning of the diff.
- Updates of relations that overlap may leave a relation of one patch or move a patch between relations (`pkg/api/util.go:199`), requests that add to a bundle may give out one place twice (`pkg/web/patches.go:272`), and a page may miss rows when equals change places (`pkg/web/patches.go:722`, `ListEvents`). Nothing documented says otherwise; the models do the same.
- `pw admin user passwd` (`cmd/pw/admin/users.go:168`) leaves sessions, tokens and links as they are, where a change by the web interface ends the sessions.
- The `Link` header of paged lists drops the filters of the request.
- `UpdateWebhook` does not check event names, as the creation does.
- `TestSchemaDrift` compares two bootstraps: the incremental migrations are not part of it (`ServesModelSchema` covers them).

## Not modelled

- Of ingestion: dependencies by URL; overlapping comments (whose recounts of tags may miss each other) and overlapping versions; states between supersession and maintainers.
- Decoding of MIME and charsets, the regular expressions of subjects and tags, templates, filters, JSON views, listings, the From escapes of mboxes: text without state.
- The combined state of checks, the metadata of a series, settings of projects and profiles, opt-out of mail, who may read a bundle.
- The part of `pw admin gc` that deletes old events; `Rollback` of migrations, which no command calls; the seed.
- Retries of a webhook and of a query: the code has none. An event lost by a crash between commit and log is lost in the model as well.
- MySQL's isolation level and its commits inside a migration; PostgreSQL with any other level than its default.
- Of export and import: the columns in which the schemas differ, and limits of sizes (a line of more than 16 MiB ends the scanner of `pw db import`).
- The filter of webhook addresses (a predicate without state), configuration, logging, query hooks.
