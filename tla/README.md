# A verification of mail-shadow-mcp in TLA+

mail-shadow-mcp keeps a local SQLite copy ("shadow") of IMAP mailboxes and offers it
to an agent through MCP tools. These modules model the parts of it whose mistakes
would be silent: a message that never gets into the database, a row that shows another
message, a deleted mail that comes back, a folder that is never synced again, a
download link that works twice. TLC checks the models on small instances, TLAPS proves
the most important safety properties for every value of the constants.

Paths below are relative to the repository; `sync.go`, `runner.go`, `server.go`,
`fileserver.go` and `db.go` stand for the files of these names under `src/internal/`.

## 1. The system

| Part | State it keeps | Operations | Who else touches its state |
|---|---|---|---|
| Folder sync (`sync.go`, `SyncFolder`) | a run: last UID, selected UIDVALIDITY, FETCH stream, batch | check/purge, fetch, batch import, record validity | the server, delete_mail (no lock), a second process, a crash |
| Backfill (`sync.go`, `backfillFlags`, `backfillEnvelope`) | lists of UIDs, a batch | SELECT, FETCH, UPDATE for flags and then for envelope columns | the server, delete_mail, a crash |
| Shadow database (`db.go`) | `mail_entries`, `mail_content`, `mail_content_fts`, `sync_state` | the statements of sync and delete_mail | every other part, through one connection of each process |
| Migration (`db.go`, `Migrate`) | the schema | statements one by one | a second process; a stop between two of them |
| delete_mail (`server.go`, `handleDeleteMail`) | one call: id, progress | look-up, MOVE, three DELETEs | syncs of the folder it deletes from, and of the trash folder |
| Scheduling and locks (`runner.go`, `RunAll`, `syncAccount`, `syncOneFolder`) | a round's WaitGroup, account and folder mutexes | rounds at start-up and at every tick, single-folder syncs | each other, the IDLE goroutines |
| IDLE (`runner.go`, `idleLoop`, `runIdleSession`) | a session, `existsCh`, the backoff | connect, initial sync, wait, sync after a wake-up, restart | the server, the rounds (folder locks) |
| Read tools (`server.go`, `cmd_query.go`) | a cursor on the only connection | search, recent activity, thread, content, the query command | read what syncs write, wait for each other |
| Email id (`server.go`, `sync.go`, `cmd_attachments.go`) | none | format, parse | |
| Attachments (`attachment.go`, `cmd_attachments.go`) | files of a download | BODYSTRUCTURE walk, fetch, save | concurrent downloads |
| Download server (`fileserver.go`) | tokens with their expiry | CreateLink, HTTP handler, purge | concurrent handlers, downloads that rewrite its files |
| Configuration, command line | none after start-up | load, validate, dispatch | |

How they meet: `serve` starts a goroutine for the first `RunAll`, a ticker goroutine for
the next ones, one goroutine for every IDLE folder, the MCP server whose handlers call
delete_mail, the queries and the downloads, and the download server. Rounds and IDLE
goroutines share the in-memory mutexes; syncs, backfills, delete_mail and the queries share
the tables; downloads and the download server share the files; the IMAP server is shared
with every other mail client of the user. `sync`, `query` and `attachments` are further
processes on the same database and files, with mutexes of their own. Nothing but the
database and the saved files outlives a process.

The behaviours that are hard:

- *interleavings*: a sync of a folder with a delete_mail in it; two rounds, and rounds
  with IDLE goroutines; the runs of two processes; two requests for one link; the purge of
  links with new ones; a download that rewrites the file a link is sending; imports between
  two pages of a search;
- *failures*: a connection that breaks while a FETCH streams (the loop ends as if the
  stream were complete), a `Collect` error of one message, a MOVE whose reply is lost, a
  DELETE that fails, a panic, a stop of the process between any two statements, those of
  the migration included;
- *ordering*: `last_uid` is set, not raised, by each batch; the validity is recorded after
  the rows; the purge is two statements; a page and its count are two statements;
- *staleness*: the UIDVALIDITY of a SELECT used at the end of the run; a UID used under
  whatever validity the folder has now; flags read once;
- *liveness*: busy accounts and folders are skipped, not queued; notifications are merged;
  one connection for all handlers.

What makes each part correct, and where it is stated:

| Part | It is correct when | Property |
|---|---|---|
| Folder sync | it is a cache of its folder: emptied when the folder is renumbered, without holes, true | `ShadowIsCache` |
| | no message up to `last_uid` is missing, whatever stops the run | `NoGap`, `NoGapStrict` |
| | no row shows a message of an older numbering | `RowsAreCurrent` |
| | a lower `last_uid` passes over nothing | `LastUidFallsOverNothing` |
| | a run that ends without a fault has what was there when it began | `RunsKeepTheirWord` |
| | every message that stays is copied in the end | `EventuallyShadowed` |
| | all that also holds of the runs of two processes | `NoGapOfTwo`, `EventuallyShadowedByOne` |
| Backfill | nothing is invented, nothing known is lost, a blank is true, every row settles | `FlagsNotInvented`, `IdsAreKept`, `BlankMeansNoHeader`, `FlagsArrive`, `EnvelopesSettle` |
| Migration | who works, works on a whole schema, and every file can be opened again | `UpMeansMigrated`, `StartsAgain` |
| delete_mail | it moves the message the caller meant | `MovesWhatWasAsked` |
| | it hides no message that is still in its folder | `RowsOutliveMessages` |
| | it leaves no row without its index and body | `RowsAreIndexed` |
| Locks | one run for a folder, one goroutine for an account | `FolderExclusive`, `AccountExclusive` |
| | runs of a folder come one after the other, each ending as a run may | `RunsComeOneByOne` |
| | every way out of a run unlocks, but for a panic | `OnlyPanicsLeaveLocked` |
| | every round returns, every folder gets its turn | `RoundsReturn`, `EveryFolderCatchesUp` |
| IDLE | no notification is lost, alone or across lost connections | `QuietMeansServed`, `PushServes` |
| Read tools | pages that are followed to the end miss nothing | `PagingMissesNothing` |
| | a thread is what is linked to the mail, and nothing else | `ThreadIsComponent` |
| | no call waits for its own connection | `CallsReturn` |
| Ids and attachments | an id comes apart into what it was made of | `IdsComeApart` |
| | what the database lists can be had | `ListedAreSaved` |
| Download server | a link works, once, sends its own part, and then goes away | `LinkWorks`, `SingleUse`, `LinkSendsItsPart`, `ExpiredArePurged` |

PROJECT.json lists the hazards at their lines with the properties that watch them.

## 2. The modules

```
MailServer <- ShadowDB <- SyncFolder <- DeleteMail <- MailShadow <- MailShadowInv
MailServer <- ShadowCache  ................................ (refined by) ..^
MailShadowInv <- MailShadowTypes <- MailShadowSafety
MailShadowInv <- MailShadowRuns ;  MailShadowSafety, MailShadowRuns <- MailShadowProofs
FolderRuns  ......................... (refined by) MailShadowRuns, Runner
Migrate, ShadowDB <- Processes (two instances of SyncFolder) <- ProcessesProofs
Runner <- IdleLoop <- RunnerProofs
Backfill <- BackfillProofs
FileServer <- Downloads <- DownloadsProofs
ReadTools <- ReadToolsProofs
MCMailShadow, MCMailShadowRuns, MCProcesses, MCRunner, MCIdleLoop, MCBackfill, MCDownloads, MCReadTools: instances for TLC
```

**MailServer** is the IMAP server as far as the program uses it (external). A message
of a folder is named by (UIDVALIDITY, UID): `minted[f][v][u]` remembers for ever which
message got UID `u` under validity `v`, so that a stale UID can be compared with what it
stood for. `FetchRange` is the answer to `UID FETCH last+1:*`: `*` is the highest UID, a
range may be given in either order, hence the highest message is always in it. `Renumber`
gives a folder a new UIDVALIDITY and numbers what it keeps from 1, in any order.

**ShadowDB** has one operator for each SQL statement. Rows are abstracted to the message
they were copied from. What the schema does is kept: `ON CONFLICT(id) DO NOTHING`,
`INSERT OR IGNORE` on `mail_content`, no key on the FTS table, no foreign key that makes
the purge reach `mail_content` or the FTS table. db.Open allows one connection, so
a statement, and an import transaction, is one step.

**SyncFolder** is one run of `SyncFolder` for each folder:
`SyncBegin` (sync_state, SELECT, comparison), `SyncPurge` and `SyncReset` (the two
statements of `checkAndResetUIDValidity`), `SyncFetch`, `SyncCollect` for one response,
`SyncFlush` for one transaction, `SyncStreamEnd`, `SyncFinish` (`persistUIDValidity`).
`SyncBreak` is the broken stream, `SyncAbort` every error the function returns. The reads
of sync_state are joined with the SELECT because only this run writes this folder's
row. The history variable `forgone` notes the UIDs the program knowingly gave up: left out
after a `Collect` error or for want of an envelope, or their row deleted by
delete_mail while the folder has a message there.

**DeleteMail** is `handleDeleteMail`: `DeleteLookup`, then the MOVE with its outcomes (done;
done but the reply lost; nothing there, confirmed all the same; refused), then
`DeleteRows` three times, each of which may fail and be logged. `asked` and `moved`
remember what the caller saw and what was moved.

**MailShadow** composes them for one account, with `Crash`, and states the properties.
`MailShadowInv` holds the inductive invariants, checked with the runs that extend it and
proved in the proof modules, and the refinement mapping.

**ShadowCache** is the abstract specification: a cache of each folder with no runs, calls
or two-step purges in it. It is emptied in the very step in which the folder is renumbered,
loads messages without leaving out a lower one, and drops entries one at a time, and only
of messages that left or are given up. The mapping shows the rows of a folder while the
recorded validity is the server's, and nothing otherwise (`Shown`).

**FolderRuns** is the contract between scheduling and syncing, one folder at a time. A run begins
where none is, and notes what is there; mail comes and goes and the database forgets only what has
left; a run that ends has put what it noted and what still is there into the database, unless there
was a fault. **MailShadowRuns** adds to MailShadow the history variable `undertaken`, the UIDs that
were in the folder at a run's SELECT (`HistorySpec`; it restrains no step), and maps its runs to
those of FolderRuns; a message is named by its validity and UID there, so a run on a folder that is
renumbered meanwhile owes nothing. Runner maps its own two-step runs to the same module.

**Migrate** is `db.Open` and `db.Migrate`: the seventeen statements as data (what each
creates, and on what), executed one by one on whatever the file holds. A duplicate column is
no error, a missing table or column is. **Processes** has two processes, each with its
start, its migration and its own runs of SyncFolder, which it instantiates twice on one
database. Here reading `last_uid` and SELECT are two steps, since the other process writes
in between.

**Runner** has the rounds of `RunAll` ("initial", "ticker"), a worker for each round and
configuration entry (`syncAccount`), and callers of `syncOneFolder`. Two entries may have the
same account id, an entry may list a folder twice: nothing in the configuration forbids
it. A Go mutex has no owner, so a lock is a Boolean. A SyncFolder run is two steps here:
what it saw of the folder when it started, and what it left in the database. SyncFolder has
the inside, and assumes that a folder has one run. Either is what FolderRuns says of a run:
MailShadowRuns shows that a run of SyncFolder leaves what Runner takes it to leave, and Runner that a
folder's runs come one by one, as SyncFolder takes for granted. A panic unlocks what is unlocked by `defer`, and nothing else.

**IdleLoop** extends Runner: each caller becomes a goroutine of `RunIDLE` with its session.
`exists` is `existsCh` (capacity one), `owed` an EXISTS the server has still to send. It
includes the polling of servers without IDLE, lost connections, panics and the growing
pause. `ServeSpec` is the IDLE goroutines beside the rounds.

**Backfill** has the nullable columns of one folder: `is_read` and `message_id`, rows of an
old build that have neither, the two SELECTs, the batches, their FETCHes (complete, without
one message, broken off, without a connection) and UPDATEs. The empty string and NULL are
different values, as in the code. `flagInts` of an empty flag list may be NULL or 0 (the
library may return a nil list); both are possible in the model.

**FileServer** has the tokens, the handlers (claim, then check of the expiry) and the
purge goroutine, which reads the time before it takes the mutex. **Downloads** extends it
with what comes before a link: the id as a sequence of characters, taken apart by
`ParseEmailID` as the handlers do; the walk over the leaves of a BODYSTRUCTURE, and the
other walk that lists attachments at import (a part is the place of its leaf in the walk); the cleaning of directory and file names; the
file that is emptied and then filled; `ServeFile`, which sends what the file holds at that
time.

**ReadTools** has the reading calls statement by statement between imports and deletions:
a page, its count and the next page; the rows of get_thread's recursive query, one taken from
its queue at a time; get_email_content with its attachments; the `query` command, which is
a process of its own. `conn` is the one connection: an open cursor keeps it.

## 3. The runs

Nine runs pass:

| Run | Question | Bounds | States |
|---|---|---|---|
| `sync_delete` | Do syncs and a delete_mail, with renumbering and faults, stay a cache that loses and confuses nothing? | 2 messages, 2 UIDs, 2 validities, batches of 1, 2 faults of any kind | 530 000 |
| `delete_race` | Two delete_mail calls against syncs of inbox *and* trash, one IMAP fault | 2 messages, 2 UIDs, 1 validity | 1 490 000 |
| `eventually` | Does a run do what it began for, and every message that stays get its row? | 2 messages, 2 UIDs, 2 validities, batches of 1, 3 faults of any kind, no delete_mail | 79 000 |
| `processes` | Do `serve` and `sync` beside each other migrate and sync one file of any age? | 2 processes, 3 schema ages, 2 messages, 2 UIDs, 1 validity, 1 fault of any kind | 207 000 |
| `runner_locks` | Do rounds and callers exclude each other, and does everyone get on? | 2 entries of one id, 2 folders, 3 callers, 1 failure or panic, 1 message a folder | 119 000 |
| `idle_push` | Are notifications lost between rounds? | 3 goroutines (2 on one folder, 1 polling), 1 lost connection, 1 panic | 266 000 |
| `backfill` | Do columns get their values, and only those? | 2 old rows (one without header), 1 new message, batches of 1, 1 flag change, 1 fault of any kind | 532 000 |
| `downloads` | Does a link send the part its id names, once? | 3 mails, 2 calls, 2 links, 2 handlers, a tick longer than a link lives, 1 fault | 314 000 |
| `read_tools` | Do pages, threads and content agree with the table beside writers? | 3 mails, 2 calls (one of any tool, one get_email_content), pages of 1, 1 failing read | 375 000 |

Why these bounds: two UIDs and two messages are the least with which one message
can be passed over, or two be confused; two validities let a run select under one and end
under the other, and let a row of the first be found under the second; batches of
one put a commit between any two messages; with two faults the second can hit the repair
of the first, with three (`eventually`, which has no delete_mail) the repair of the repair. Two entries of one id and a folder listed twice are every way two workers can
meet; two goroutines on one folder let one wake up while the other syncs. In `backfill`
with batches of one, the first old row may be the one that never gets an answer, so what
comes after a dead batch is reached, and the new message runs into both lists.
In `processes` the file is new, of the first release, or has some of the columns, and either
process may be killed at any statement and start again on what it left.
In `downloads` the mails are chosen so that things come together: folder `b:c` of account
`a` has colons in its id, cleans to the same directory as folder `c` of account `a_b`, and
has a part of the same file name as the third mail, whose directory is its own; one part
has no name, so that no file can be written for it, another has a directory in
its name, one is called `index.html`, and there is a text attachment and a message that is
one attachment. A tick of the clock is longer than a link lives (`Ttl = 0`: a link expires with
the next tick), and a purge may still read its time before a tick and delete after it. In `read_tools` three mails are a mail, its answer, and an answer to that in
the trash; rows of equal contents are possible, so dates may tie; pages of one row
put an import or a deletion between any two rows.

`delete_race` and `processes` forbid renumbering on purpose: with it delete_mail does move and
hide other messages, and the purge of one process beside the import of another leaves old rows
(section 6). `sync_delete`, `eventually` and the theorems on `NoGap` set
`RenumberUnrecorded = FALSE`: a folder is renumbered only once its validity
is recorded. The assumption is needed; see section 6.

Deadlock is checked in every run but `read_tools` and `thread_blank_headers`, which end when
every call is answered and nothing is left to import or delete.

Three runs show that the program does not do what its documentation says. TLC finds each
counterexample from what the code does:

| Run | What happens |
|---|---|
| `body_after_renumber` | The purge deletes `mail_entries` only, and `mail_content` is `INSERT OR IGNORE`: after a UIDVALIDITY change a new row has the body of the message that had its UID before, and its FTS row beside the old one |
| `deleted_returns` | delete_mail takes no folder lock: a run that fetched the message before the MOVE imports it after the DELETE, and nothing removes that row |
| `thread_blank_headers` | The backfill writes the empty string for a missing header, and get_thread joins on equal strings that are not NULL: backfilled mails without headers are in each other's threads |

Every property of a passing run has a mutant: a changed definition (marked *Mutant* in the
modules) that is the bug the property is for, and that TLC finds with the same
configuration.

## 4. Fairness

`FairSpec` (MailShadow; `HistoryFairSpec` with the history of the runs): weak fairness of the steps of a run on each synced folder. The ticker of
`serve` calls `RunAll` again and again (cmd_serve.go:140-147), and Runner shows that a round gets to
every folder (`EveryFolderCatchesUp`), so a run always starts; the time-outs of the IMAP library end
a call without an answer, so it goes on. Faults are never fair, and bounded: a server that fails for
ever is owed nothing.
`ProcFairSpec`: the same for `serve`, which is also started again when it is down (a service manager
or the user does it), and whose migration goes on. The command is owed nothing: it may never be
called, or hang.
`RunnerFairSpec`: weak fairness of each round's begin and end (ticks come, the goroutine runs), of
each worker's step and of a call under way. Callers need not call.
`PushFairSpec`: weak fairness of each session's step and of the server sending what it owes; the
initial state has no message, connections are lost a bounded number of times.
`BackfillFairSpec`: as FairSpec.
`DlFairSpec`: the purge ticker goes on. No handler and no download is fair: a client, or an IMAP
server, may hang.
`ReadFairSpec`: strong fairness of each call's step. `database/sql` keeps its waiters in a queue and
hands them a connection that comes free, so a call that wants the connection again and again while
others use it gets it; weak fairness would let the writers take it every time.

## 5. What is proved

All theorems hold for every value of the constants that satisfies the named assumptions, and every
assumption is one of the ASSUMEs TLC evaluates in the runs, or stated in the theorem.

**The composition** (MailShadowTypes, MailShadowSafety, MailShadowProofs). `TypeCorrect` is
`TypeOK`, strengthened by two facts the types need: a run that is under way selected a validity, a
call that moves has a trash folder. `NoMessageIsLost` (`NoGap`), `RowsStayCurrent`
(`RowsAreCurrent`) and `LastUidFallsSafely` (`LastUidFallsOverNothing`) rest on `SyncInv`. `NoGap`
is not inductive: between FETCH and import the messages are in the run's hands. `SyncInv` says of
each folder that validities are in order (recorded <= selected <= the server's, unknown only under
the first), that a run purges exactly when recorded and selected differ, that rows and `last_uid`
come from UIDs that were given out under the recorded numbering, and, `StreamInOrder`, that a run
under way has its batch below its stream, everything below either known or in its hands, and no
message above them already passed by `last_uid`. The last conjunct is why a falling `last_uid` is
harmless. Each action's effect is one lemma (`CollectKeeps`, `FlushKeeps`, `RenumberKeeps`, ...),
`QuietStep` covers everything that happens beside a run. They assume `~RenumberUnrecorded`.
`DeletedRowsHadLeft` (`RowsOutliveMessages`) adds that a call past its MOVE has seen its message
leave; `MovedAsAsked` (`MovesWhatWasAsked`) that a call's UID still stands for what the caller saw;
`NothingIsMissing` (`NoGapStrict`) that nothing is forgone, which needs that no `Collect` fails. The
three assume one validity: with renumbering they are false. `RowsStayIndexed` (`RowsAreIndexed`)
needs neither, but that no statement fails and the process is not stopped: the three DELETEs, cut
off after the second, leave a row without body.

**The cache** (MailShadowProofs). `ShadowImplementsCache`: under `~RenumberUnrecorded`, `Spec`
implies `ShadowIsCache`, that is `ShadowCache!CacheSpec` under the mapping of MailShadowInv. Each
action is one lemma. A run's purge and reset are a stutter, for the folder is shown empty from the
renumbering on, and the reset shows it when it is empty; recording the validity is one, too, since
it is written over itself or over none. `SyncFlush` is `Load`, because `StreamInOrder` puts
everything below the batch into the cache or among the waived; a `Collect` error is `Waive`, the
last DELETE `Drop`.

**The contract of a run** (MailShadowProofs, RunnerProofs; FolderRuns). `EveryRunKeepsItsWord`
(`RunsKeepTheirWord`): under `~RenumberUnrecorded` each step of `HistorySpec` is, for each synced
folder, one of FolderRuns. It rests on `SyncInv` and on `RunsInv`: while a run streams, each message
it began for that is still there is known or in its hands (`UndertakenIsHad`), which the FETCH
establishes because what it leaves out is at most `last_uid` and therefore known (`NoGap`), each
import and each `Collect` keeps, and the end of the stream turns into the promise.
`HistoryAddsNothing` says that a step with the history is a step of MailShadow. `RunsOfRoundsAndCalls`
(`RunsComeOneByOne`) is the other side: for any rounds, entries and callers every step of Runner is
one of FolderRuns, by `LockInv`. So what each of the two models takes from the other is proved of the other. Runner counts
the messages of a folder and has no renumbering; that a renumbered folder owes its run nothing is
said on the side of MailShadowRuns only. TLC checks `RunsKeepTheirWord` in `eventually`, without
delete_mail; the theorem has any number of calls.

**The locks** (RunnerProofs). `OneRunForAFolder` and `OneWorkerForAnAccount` rest on `LockInv`:
whoever is past a lock holds it, and no two are. `BusyFolderIsSynced` is the converse, that a held
lock has a holder, if nothing panics; `LocksLeftByPanics` (`OnlyPanicsLeaveLocked`) says which step
breaks it when something does. `ServeImplementsRunner` is a refinement: the IDLE goroutines beside
the rounds do only what Runner allows its callers, so `IdleAndRoundsExclude` follows.
`NoWakeUpIsLost` (`QuietMeansServed`) rests on `PushInv`: a message a session's folder lacks is told
of, by what the server owes, by the channel, or by a sync that has not looked at the folder yet. It
assumes that no sync fails ("imap"), since a failed one is not repeated before the next
notification; panics are allowed, for a session that ends begins with a sync.

**Two processes** (ProcessesProofs). `MigratedWhenUp` (`UpMeansMigrated`) and `EveryFileStarts`
(`StartsAgain`) rest on `MigrateInv`: the file is empty or has the first release's tables, and
everything the statements before a process's place create is there (`ExecutedIsThere`), because the
schema only grows. The list of seventeen statements is a constant, so `StatementOrder`, that each
names only what an earlier one creates, is a lemma, and so no statement is refused for good.
`TwoImportsLeaveNoGap` (`NoGapOfTwo`) rests on `TwoRunsInv`. What one process knows of the other is
only the database, so the invariant is about values, not about who wrote them: below the `last_uid`
of the file, below the one a process has read, and below the one a run started from, nothing is
missing (`Safe`), and a run that streams has in its hands whatever is unknown below any of its
messages (`Streaming`). Then a `last_uid` that goes up, down or back is always a safe one. Both
instances of SyncFolder take the same four kinds of steps (`Fetches`, `Collects`, `Flushes`,
`Ends`), which are proved to keep the invariant of either run once. `ProcessAssumption` has the one
validity of section 6; the processes, their number of folders, messages, faults and the batch size
are free.

**Downloads** (DownloadsProofs). `DownloadsAreSingleUse` and `DownloadLinksWork` follow from
FileServer's invariants through the refinement `DlImplementsFs`: a token is in the table, or in one
handler's hands, or served, and never two of these; the time the purge works with is not later than
the clock. `IdsNameTheirMail` (`IdsComeApart`) is about sequences: the first colon of an id ends the
account and the last begins the UID, for any characters, if the UID has no colon (it is a number)
and the account none. `DownloadsTyped` (`DlTypeOK`), `NothingListedIsLeftOut` (`ListedAreSaved`) and
`LinksSendTheirPart` (`LinkSendsItsPart`) rest on `DlInv`. `CallsOK` says that what the import lists
is saved, still to save, or lost to a fault, the property itself being about finished calls only;
`FilesOK`, that what a call has saved is in its file while no other part of any call has the same
directory and name, and torn only while a second call writes it; `LinksOK`, that a link's part is
one a call has saved, so that a file, once there, is never missing again. `DownloadsAssumption` says
of the constants only what they are: any mails with any leaves.

**The backfill** (BackfillProofs). `FlagsAreNotInvented` and `IdsStay` rest on `BackfillInv`: what a
FETCH returned the server had shown (`Witnessed`); the rows whose envelopes are under way have no
`message_id` yet (`WithoutId`), which needs that a UID is given once (`Arrived`), or a row deleted
and imported again in between could have one. `BlanksAreTrue` (`BlankMeansNoHeader`) adds what a
batch holds before and after its FETCH, as long as no FETCH failed.

**Read tools** (ReadToolsProofs). `ReadTypes` includes that the connection belongs to the call whose
cursor is open. `ThreadsAreComponents` (`ThreadIsComponent`): while the query runs, everything found
is in every closed set with the start, and whatever joins something found is found or that something
is still in the queue. `PagesMissNothing` (`PagingMissesNothing`) rests on `PagingInv`: what is owed
and not seen is in the open page or ranks at or behind the next offset; an import only raises ranks,
a deletion lowers those of mails that are not owed any more. A tool ends when its offset reaches the
count, above every rank (`RankBelowCount`). The `query` command ends at a page that is not full,
which is the last because no two mails have one rank and every rank below their number is taken
(`RankInjective`, `EveryRank`, `ShortPageIsLast`): were there a mail behind the page, each of the
page's places would have its own mail.

What stays with TLC: the liveness properties (`EventuallyShadowed`, `EventuallyShadowedByOne`,
`RoundsReturn`, `EveryFolderCatchesUp`, `PushServes`, `ExpiredArePurged`, `FlagsArrive`,
`EnvelopesSettle`, `CallsReturn`), for the provers handle neither fairness with ENABLED nor
induction over data. Every safety property of a passing run is a theorem.

## 6. Assumptions, and what breaks without them

- *FETCH responses come in ascending order of UID.* Servers do so, the protocol does not demand it.
  With another order a run that stops half way leaves a gap below `last_uid` (the mutant
  `NewestOf`).
- *A folder is renumbered only after its validity was recorded.* `uid_validity` is written at the
  end of a run that imported something (sync.go:260). A first run that is cut short leaves rows and
  `last_uid` with validity 0, which compares as unchanged (sync.go:283): a renumbering before the
  next run is then recorded over the old rows, and messages up to the old `last_uid` are never
  fetched. Set `RenumberUnrecorded = TRUE` in `sync_delete` to see it.
- *Two processes see no renumbering* (`Processes`). With it the run of one process, which selected
  the old validity, imports rows and records that validity after the other has purged: stale rows
  under a numbering that compares as changed, or as current, depending on who is last.
- *One connection to the database of each process*, hence atomic statements and no reader between
  the statements of a transaction. A statement that finds the file locked by the other process
  fails, a fault of Processes.
- *The bound on UIDs* turns a MOVE into a full folder into a refusal, an outcome the code has
  anyway.
- *Tokens are unique* (128 random bits).
- *The library's time-outs end a call that gets no answer*: for liveness only.

Other differences between documentation and code, or traps of the code, that modelling showed,
without a run of their own.

Syncs and scheduling:

- A `Collect` error skips a message while `last_uid` moves past it (sync.go:216): it is never
  fetched again. `NoGap` allows it by `forgone`; `NoGapStrict` is violated as soon as "collect" is
  among the faults.
- `last+1:*` always names the highest message (sync.go:146), so each run of an unchanged folder
  downloads it again, against "only fetches messages newer than the last known UID" (README.md:240),
  and sets `last_uid` back to it when higher ones are gone.
- A panic in `SyncFolder` on a round is recovered and the account released, but the folder is
  unlocked by a statement after the call (runner.go:130), not by `defer`: every round and IDLE call
  skips it as busy until a restart. This is the one exception in `OnlyPanicsLeaveLocked` and
  `EveryFolderCatchesUp`.
- A wake-up that finds the folder locked by a round is used up (runner.go:282), though the round
  fetched before the message came: it waits for the next tick, against "a sync is triggered
  immediately" (README.md:350).
- The pause before a reconnect goes to eight minutes, not five (runner.go:189), and is set back only
  by a session that returns without an error, which none does.
- `is_read` is never read again once it is known (sync.go:454).
- A batch of envelopes is blank before its FETCH and written whatever that returned: after a lost
  connection or a failed FETCH the rest of the batches is marked as having no Message-ID for ever
  (sync.go:603-612), against "resumable" (sync.go:548) and the comment that means expunged messages
  only (sync.go:603). Hence the premise of `BlankMeansNoHeader`.
- Account ids may repeat in the configuration (config.go:123): two entries then share rows, locks
  and ids.

delete_mail:

- It does not compare UIDVALIDITY: in a folder renumbered since the last sync it moves whichever
  message has the UID now (server.go:1079-1085). Hence the single validity of `MovesWhatWasAsked`.
- A DELETE that fails after the MOVE is logged and success reported (server.go:1098).

Reading:

- get_email_content shows a mail in the trash, against "permanently excluded from all MCP query
  results" (README.md:214). The `query` command excludes nothing, and ends with an error at a row
  without a date.
- A count that fails is logged and `total_count` is 0 beside a full page (server.go:375).
- A deletion between two pages moves the rows behind it one place up, past the caller's offset;
  `PagingMissesNothing` does not owe them.
- list_accounts shows only folders that have a row in `sync_state`.

Attachments and ids:

- The comment at server.go:779 lets accounts contain colons; the account ends at the first one, and
  nothing in the configuration forbids it.
- `filepath.Base("")` is `"."`, which names a directory, as `".."` does, so the fall-back
  `part_1_2` (attachment.go:141-147) is never used: a part without a name is written to a directory,
  fails, and is never saved, though it may be listed. Hence the premise of `ListedAreSaved`.
- A message that is one attachment has an empty part path: the whole raw message is fetched, does
  not decode as base64 and is stored as it came.
- Names and directories that become equal by cleaning share a file; the last one written is what all
  their links send.
- A file called `index.html` is redirected by `http.ServeFile` after its token was used up.

## 7. What is not modelled

Of the modelled parts: the extraction of text, the decoding of transfer encodings, the FTS switches
(automerge, optimize: cost only), SQLite's pragmas, logging, the formatting of answers, the URL,
`is_replied` and `in_reply_to` (written by the same statements as `is_read` and `message_id`). Which
columns a filter compares is one attribute of a mail, `match`. list_accounts is one statement. Not
at all: the validation of the configuration file (pure; what it does not forbid is in the constants
of Runner), flag parsing, the MCP transport.

## 8. Plan

Done: the core (MailServer to MailShadow), its cache refinement and its proofs; Runner and IdleLoop;
FileServer and Downloads; Backfill; Migrate and Processes; ReadTools; the proofs of all their safety
properties; the contract of a run between Runner and SyncFolder. Left: Processes with renumbering,
to say exactly what is stale afterwards and which run repairs it.
