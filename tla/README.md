# VaultBack in TLA+

VaultBack is a self-hosted backup manager for MySQL and MariaDB: a NestJS process
that dumps databases on a schedule, verifies, encrypts and uploads the artifacts to
storage targets, rotates old ones, rehearses their restore and reports on all of it.
This directory holds TLA+ models of its server, of its update scripts and of the part
of its web page that follows the server, the TLC configurations that check them, and
proofs that TLAPS checks. Paths below are those of the repository.

## The system and its parts

One Node process owns one data directory. Handlers run to completion one at a time;
whatever is awaited in between (a dump, an upload, a provider) is where other
handlers get in. All durable state is one SQLite database that sql.js keeps in memory
and that every outermost transaction writes to disk as a whole. Outside it stand the
files beside the database (lock, claims, staged imports, tools), the storage targets,
the recovery servers, the update scripts, and browsers that hold an event stream.

| part | source | state | hard behaviour | module |
|---|---|---|---|---|
| durable execution queue | `src/backup/execution.store.ts` | executions, pairs, attempts | four transactions derive one status | `ExecutionStore` |
| execution coordinator | `src/backup/execution.service.ts` | workers, timer, stop flag | workers, cancel, drain, recovery interleave | `Execution` |
| backup run, retention | `src/backup/backup.service.ts:689-749` | run rows, artifacts | failing after the artifact exists | `BackupRuns` |
| storage targets | `src/storage/storage.service.ts` | folders, settings, tokens | listings by pages, settings that change meanwhile | `Destinations` |
| schedules | `runDue`, `saveJobV2` | `next_run_at` | missed occurrences, overlap, catch-up | `Schedule` |
| connections, schedules, plans | `backup.service.ts`, `recovery.service.ts` | rows that refer to each other | no foreign keys | `Catalog` |
| database file | `src/database/database.service.ts:16-73` | memory image, file | nested transactions, failing writes, crashes | `DatabaseFile` |
| data directory owner | `src/database/data-owner.ts` | lock, gate | two starting processes, reused process ids | `DataOwner` |
| import of a configuration | `database.service.ts:200-260` | two pending files | crash between two copies | `ConfigImport` |
| notification outbox | `src/system/notification-outbox.service.ts` | outbox, event cursor | at-least-once delivery, supersession | `Outbox` |
| protection policy | `src/backup/protection.service.ts` | incidents | evidence that changes or goes | `Protection` |
| work claims | `backup.service.ts:96-143` | claim files | stale claims | `WorkClaim` |
| point-in-time recovery | `backup.service.ts:1035-1330` | captured logs, gaps | capture races, continuity | `PointInTime` |
| rewriting of dumps | `pitr.utils.ts`, `backup.service.ts:1330-1390` | a text cut into chunks | two scanners that must agree | `SqlStream` |
| recovery assurance | `src/recovery/`, rehearsals of `backup.service.ts` | rows, scratch databases | crashes and failing cleanup | `Rehearsals` |
| restore | `backup.service.ts:500-690` | databases of a destination | others create databases meanwhile | `Restore` |
| downloads | `backup.service.ts:420-500`, transfer slots | preparations, copies, timers | expiry during a transfer | `Downloads` |
| sessions and set-up | `src/auth/auth.service.ts` | accounts, sessions, claim | what was read before bcrypt | `Sessions` |
| realtime stream | `src/system/realtime.service.ts` | clients, throttles, fingerprints | lost and late events | `LiveView`, `Panels`, `Sessions` |
| web interface | `public/live.js`, `app.js`, `operations.js` | what a page shows | answers out of order | `LiveView`, `Panels` |
| updates | `src/system/system.service.ts`, `scripts/` | managed paths, rollback copy | a kill between two paths | `Update` |
| tool installer | `src/backup/tool-installer.service.ts` | programs, jobs | failure half-way | `Tools` |
| asset cache | `src/system/asset-cache.service.ts`, `main.ts` | manifest, caches | files of two releases | `WebAssets` |
| application shell | `main.ts`, controllers, DTOs | none | | |

They interact through the database (a schedule inserts what the queue holds, the queue
leaves the events that the outbox reads, runs leave the evidence that the protection
policy judges), through calls (the coordinator runs `BackupService.run`, which calls the
storage service; the cron of the recovery service starts captures), and through the end
of the process, which each part meets at whatever step it is.

## Modules

* `ExecutionStore` is the queue as a value: one record with the status of every
  execution and pair, the number and status of its latest attempt, retry delays,
  groups and queue order. Each transaction of `execution.store.ts`, and the inserts
  of `execution.service.ts`, is an operator from stores to stores.
* `Execution` EXTENDS it with the process. `db`, `limit`, `cap`, `alias` and `host` are
  stored; `stage` (the map of workers), `abort` (their AbortControllers) and
  `dispatchError` are memory and vanish in a crash. One handler is one action, with
  the `pump()` it ends in; the life of a worker is split where the code awaits:
  working, uploading, artifact recorded, settled (its outcome is stored), released.
* `ExecutionContract` is what callers may rely on: each pair ends once, the verdict
  comes with the last result and follows from the results, cancelled executions
  report no failures. `Execution` implements it (`ContractHolds`).
* `BackupRuns` is one schedule at one destination: the rows of `backup_runs`, the
  artifacts stored, and `run()` split where it awaits (dump, upload, listing, each
  deletion, the final update), with cancellation, crashes, failing updates and
  `reconcileMissingArtifacts`. Retention works on what a listing saw.
* `Destinations` takes the side of the provider: the six kinds of target, listings by
  pages while files come and go, how each kind looks for a file and what it answers when
  names do not resolve, health checks, token renewal, and settings that are edited
  between two operations or in the middle of one.
* `Schedule` is `runDue()` with the cron that calls it, bootstrap, `saveJobV2` and
  starts by hand. Time is counted in ticks; a cron expression is the set of ticks at
  which it occurs. The loop over the schedules that are due is split per schedule,
  because each has a transaction of its own and the process may die in between.
* `Catalog` is what the services check before they save, delete or use a connection, a
  schedule or a recovery plan, each check and its statements one handler, with the
  executions, restore tests and rehearsals that hold what they refer to.
* `DatabaseFile` is `transaction()`, `persist()` and `close()`: the image in memory, the
  file, the snapshot of every transaction in progress. Nested work, errors that a caller
  catches, a write that fails before or after the rename, and crashes between system
  calls are actions.
* `DataOwner` is `acquireDataOwner`: every system call on the lock and on the gate is an
  action of one of several starting processes, which may die before each (`Die`).
* `ConfigImport` stages a database and its key and applies them at the next start, a
  system call at a time. `WorkClaim` is the claim file of a capture, its row and token in
  each instance of the service, and process numbers that other programs use.
* `Outbox` is `materialize()`, `deliverDue()`, `flush()` and the stop: each action is one
  synchronous stretch, up to the await of a provider or from its answer on. Notices are
  pairs of their subject and kind; events wait in a list behind the cursor. Writes fail
  where the code notices it: a receipt that cannot be written is taken for a refusal
  (`Answer`), and if the refusal cannot be written either the row stays pending and
  uncounted (`ReceiptLost`); a suppression that cannot be written ends the pass
  (`PassFails`).
* `Protection` is the assessment of each pair and `evaluateIncidents()`, with runs that
  stay on record when their artifact expires or is never made, waiting and running work,
  retries, cancellations, pauses, edits and a clock that may be set back.
* `PointInTime` is `capturePitr` from the listing of logs to the record of coverage,
  with a server that writes, rotates and purges, baselines that are dumped and expire,
  and targets that are changed. A log is its number and the events it holds.
* `SqlStream` is the pure part: `lastSqlStatementBoundary` as a recursive function over the
  positions of a text, the regular expressions of `pitr.utils.ts` as functions of where a
  string ends and of what is code, and the loops that feed a file through both in chunks.
* `Rehearsals` follows the scratch databases of recovery tests, artifact rehearsals and
  point-in-time rehearsals: names, creation one by one, lost answers, cleanup, the row.
  `Restore` says which databases a restore creates, writes to and drops, for each layout
  of an artifact and each kind of damage.
* `Downloads` is the preparation, the copy, its timer, the taking and the three slots of
  transfers. `Sessions` is set-up, login, roles, revocation and the streams of a session.
* `LiveView` joins the stream of the server, `live.js`, and the operations pages: what
  was asked before an event and answered after it. `Panels` is the table of requests by
  address, which the server tells of in a throttled event and in a periodic snapshot.
* `Update` has the updater, the installer, the application and its supervisor as
  processes that work on the same paths. `Tools` is an installation of database programs
  from the download to the copy over the old ones, and which programs are then run.
  `WebAssets` is the page and its scripts while files are replaced, the manifest that
  the process read when it started, caches in front of it and browsers behind them.
* `MCExecution` gives `Execution` its constants. `MCArtifacts`, `MCSchedule` and
  `MCFiles` check several modules in one run each: a variable `side`, chosen at the start,
  says which of them takes the steps of a behaviour, and the others stay as they begin.
  The state space is the sum of theirs. `MCAlerts` joins the outbox and the policy in the
  same way. These modules meet only where each of them
  already leaves the other free (see below), so that a product would multiply states and
  show nothing more.
* `<Module>Proofs` holds the theorems of a module.

Where the parts meet. `Execution` takes the atomicity of a transaction from
`DatabaseFile` (`FailureLeavesNoTrace`, `MemoryIsFile`) and the single process from
`DataOwner` (`OneWriter`). `Schedule` decides when `Execution` inserts, and sees an
execution only as active or ended, in any order. `BackupRuns` refines what `Execution`
calls uploading and recording an artifact; at its destination listings are whole and
true, and what follows from those that are not is in `Destinations`. `Outbox` takes
events of executions and incidents in any order that one execution or one incident can
produce. `Catalog` lets work, tests and rehearsals begin and end at any time. `Rehearsals`
takes it that a restore touches its own databases, which `Restore` examines, and `Restore`
that a dump can be renamed, which `SqlStream` examines. `Downloads` and `LiveView` have
streams that `Sessions` may close.

## Runs

Each run answers one question. Bounds are the constants of the configuration; the
numbers are those of distinct states.

| run | question | bounds | result |
|---|---|---|---|
| `lifecycle` | do the four transactions keep execution, pairs, attempts and artifacts in agreement, and is the contract implemented? | 2 executions of 2 pairs, 1 retry, 1 crash or shutdown | pass, 386 000 |
| `slots` | is work counted where it runs, are limits kept at every start, is admission first in, first out? | 2 executions, 2 connections, an alias, 2 limits, 1 failing write | pass, 725 000 |
| `liveness` | does everything end? | 2 executions of 2 pairs, limit 1, 2 priorities, 1 crash or shutdown | pass, 372 000 |
| `artifacts` | is what is stored, recorded and shown to people the same? | eight sides, below | pass, 4.2 million |
| `schedule` | is every occurrence accounted for once; and are destinations, records, tools and pages kept right beside it? | five sides, below | pass, 1.2 million |
| `alerts` | is every notice accounted for and settled, and is an incident of freshness resolved only by new evidence? | an execution and an incident, 5 attempts as 2, a pass of 2 rows, 1 fault; a pair, 2 configurations, 2 ages, 1 run, 1 edit | pass, 1.0 million |
| `files` | what does a process that dies anywhere leave to the next? | six sides, below | pass, 1.8 million |
| `identity` | can the host of a connection change under work? | 1 execution | violated |
| `container` | is a start refused only for a live writer? | 2 starts, 1 process number | violated |
| `overlap` | do rows and artifacts agree with two runs at once? | 2 runs | violated |
| `tail` | has continuous coverage every event? | 1 event of the newest log, 3 captures | violated |
| `rename` | does a restore under a new name write only there? | 1 restore, 2 databases | violated |

The sides of `artifacts`: three runs one after the other with two retention counts, one
crash and one fault (`ExpiredIsGone`, `SuccessIsStored`, `NewestConfirmedKept`); two
targets, three logs, two captures (`ContinuousHasEveryLog`); three downloads at one slot
(`DownloadsAgree`); a page with two requests under way, one change, one break and two
moves, and three addresses of which two are kept (`ViewAgrees`); two users with one
session and two streams each (`SessionsAgree`); a restore of any artifact of one or two
databases (`RestoreIsolated`); every text of six characters of four alphabets (strings and
comments, executable comments, escapes, names and comments behind `#`) in chunks of up to
three (`CutsDoNotMatter`).

The sides of `schedule`: two schedules, of which one is due at every tick, three ticks,
an enumeration of two, two bounded events (`EveryOccurrenceAccounted`, `ExecutionsAgree`, `DueIsHandled`); three files of
which one is of others, two places, one trouble, for six kinds of target
(`DestinationsAgree`); two connections, a schedule, a plan and two runs with five saves
and one stop or cancellation (`CatalogAgrees`); two installations and a crash (`ToolsAgree`); two scripts of two
releases in two tabs with four changes (`AssetsAgree`).

The sides of `files`: four writes in three levels of transactions with two crashes
(`FailureLeavesNoTrace`, `ReturnedIsDurable`, `MemoryIsFile`); four starts of two process
numbers (`OneWriter`); two packages and two crashes (`KeyFits`); an updater beside an
installer on three paths, one kill (`VerdictTrue`); three captures in two instances
(`OneHolder`); a test, an artifact and a point-in-time rehearsal of two databases, one
stop (`EvidenceTrue`, `RehearsalsEnd`).

Conjunctions. Properties that speak of one state from several sides are one conjunction
with named parts: `SessionsAgree` is `SetupOnce`, `LimitsKept` and `WritesEntitled`;
`ExecutionsAgree` is `MissedCountTrue`, `OneExecutionPerOccurrence` and
`NoOverlapWhenSkipping`; `ViewAgrees` is `QuietIsCurrent` and `DetailIsSelected` of
`LiveView` and the parts of `PanelAgrees`; `CatalogAgrees`, `DestinationsAgree`, `ToolsAgree`,
`AssetsAgree`, `DownloadsAgree` and `RestoreIsolated` likewise.

Why the bounds are enough. The rules of the queue compare pairs two by two (who is
ahead, who shares a group), so two executions of two pairs contain every comparison,
with one pair left over to be overtaken; one retry separates an attempt from the last
one. The database file needs three levels for a snapshot that is neither the outermost
nor the innermost. Four starts are a dead owner, a remover, a late comer and a spare;
two numbers let one be reused. Three runs are the artifact that is removed, the one
that removes it and one in between that may have failed. Two schedules are one that has
been dealt with and one that has not when the process dies; three ticks with an
enumeration of two reach its limit. Three logs are a purged one, one that is complete and
the newest. A pass of two rows of the outbox leaves a third one to the next; with one run
and one fault a receipt is lost by a crash or by two writes, and an incident meets a run
that is made, fails, expires or never was (`MaxWork = 2`, in which a pair is retried and
occurrences overtake each other, passes too, but needs more time than the other runs).
Three downloads are one that transfers, one that waits and one that is late.
Three paths are one that is replaced, one that is being replaced and one that is not, and
the second of them is `package.json`. Six characters hold an opening quote, an escape or a
doubled quote, a closing one, an end of a statement and a reference. Two installations are
one that is on its way and one that is asked for. Where an action counts towards a bound
the module says so (the constants `Max...` and `Horizon`).

Symmetry is used for the executions of `lifecycle` and `slots` and for the
targets of `artifacts`, where no definition orders them or chooses among them; never in a
run that has a liveness property. `CHECK_DEADLOCK FALSE` is set where the system may
stop for good: a process that was refused the directory, a clock that has reached its
horizon, a restore that is over.

## Fairness

`FairSpec` of `Execution` is weakly fair to the pump (a timer and the cron repeat it),
to settling and releasing an attempt, to retry delays, to the exit of a process that
drains, to its restart and the steps of its bootstrap. Nothing is assumed of
administrators, crashes or faults. That an attempt settles is an assumption about the
outside: the code puts no time limit on a dump or an upload, so the dump program and the
provider must end some time (an aborted dump is killed). Once they do, the attempt's
`finally` releases the slot. `ScheduleFairness` is weakly fair to `runDue()` (the cron calls
it every minute), to each row of its loop and to the restart; time itself need not
advance. `OutboxFairness` is weakly fair to the timer, to the answer of a provider (a
request is aborted after ten seconds), to back-offs that elapse, and to stop and start.
`RehearsalFairness` is weakly fair to each step of a rehearsal (its database client ends),
to the cron that gives up on old tests, and to exit and restart.

The liveness properties are `EveryExecutionEnds`, `ShutdownCompletes`, `DueIsHandled`,
`EveryNoticeSettles` and `RehearsalsEnd`. The last leaves out point-in-time rehearsals:
their rows say running for ever after a crash (see Findings).

## What is proved

TLAPS checks, for every value of the constants that satisfies the named assumptions:

* `ExecutionProofs` first shows, apart from the process, that each transaction takes a good
  store to a good store. `Good` states the invariant of a store, the stages of the workers
  and their abort signals as values, so that it can be claimed of the store between two
  transactions of a handler.
* Its theorems: `TypeOK`, `StatusAgrees`, `AttemptsAgree` and `SlotsAgree` are
  invariants. The inductive invariant `IInv` is their conjunction: each needs the
  others, as `finishAttempt` compares attempt numbers that only `AttemptsAgree` speaks of.
  The other theorems of the coordinator stand on `IInv` and on one more lemma about
  handlers: a step is a transaction on the store, then starts one after the other.
  + `GroupAgrees`: a start and a result change no group, an insert and a change of an alias
    or a host write the group anew.
  + `ArtifactsAgree` where no write fails (`MaxFaults = 0`, as in `lifecycle`), and without
    that condition half of it, `SuccessHasArtifact`: a write that fails after the
    artifact was recorded leaves a failed attempt with an artifact.
  + `FifoAdmission` and `CapacityAtStart` are action properties of the pump, which starts
    pairs in a fold. The proof shows of the fold that a pair that is started had the
    place at its turn, and that limits which were reached at an earlier turn stay reached,
    as a start only adds. `SequencesUnique` is what makes the order of the queue total.
  + `ContractHolds`: the refinement of `ExecutionContract`, handler by handler.
* `ScheduleProofs`: `EveryOccurrenceAccounted` and `ExecutionsAgree`. The strengthening says
  of each schedule that `next_run_at` is an occurrence, that the records that account for
  occurrences cover what lies between the first one and `next_run_at` without a gap, that
  all of them lie behind `next_run_at`, and, while the clock was not set back, that no
  two of them overlap; and of a row that the loop still holds that it is as it was read, or
  has been dealt with. It needs `MaxCount > 1` (the code has 10 000): an enumeration
  of one occurrence never moves on.
* `FilesProofs`, of the database file: `FailureLeavesNoTrace`, `ReturnedIsDurable` and
  `MemoryIsFile`, at any nesting. The strengthening, `Nested`, says that the snapshots of the
  open transactions are contained each in the next and the last in memory, and that until the
  rename the file is still the outermost snapshot. Of the owner: `OneWriter` and
  `OwnerHasLock`, for any number of starts and reused numbers. The strengthening says that
  whoever is past the gate is alone there, and that what a process read from the lock is
  still in it as long as it is.
* `BackupRunsProofs`: `ExpiredIsGone` without further assumption; `SuccessIsStored` and
  `NewestConfirmedKept` under `Steady` (runs of the schedule do not overlap, its prefix
  does not change); `overlap` shows that the first is needed. The strengthening
  says that the run in progress has the latest name, and has not listed its own artifact.
* `AlertsProofs`: `SendsAccounted`, `OutboxAgrees` and the action property
  `SettledStaysSettled` for any batch, number of attempts and backlog. The invariant of
  the outbox has three parts. `FlushOK`: the rows that a pass has read are different ones,
  with the attempts their rows still have, and the first of them is the one under way,
  pending or superseded meanwhile. `Noticed` is `OutboxAgrees` relative to the events to
  come: of an execution of which no event is to come, the rows say already what they
  must. It is shown for the rows after the first `k` events, from `k - 1` to `k`, and by a least
  counterexample for the whole batch. `SentOK` counts requests, those without a receipt
  too. Of the policy: the action property `ResolvedByEvidence`, which compares an
  evaluation with the one that opened the incident. Its invariant `OpenedOn` says of each
  open incident since which the age was not raised and the clock not set back: it was opened
  in the past, and if it is one of freshness, the grace of a new schedule was over by then
  and every verified artifact from before was too old already, by the age of now. Every step
  keeps it because an artifact is recorded with the time of now, and what is recorded of the
  past only expires. So an incident that is not bad any more has evidence younger than itself.
* `FilesProofs`, of what it leaves behind: `OneHolder`, `KeyFits`, `EvidenceTrue` and
  `VerdictTrue`, each from an invariant about what a process leaves that dies at any step. The claim of a capture: a
  claim whose token some instance holds names the process that runs. The import: which of
  the two pending files there are at each step of the start says which key is in
  place. Rehearsals: what is at the server is told by the row, or is about to be created by
  the one under way. Updates: each script has saved what the release before it had, the paths
  before the one it is at are copied and those after it are not, and a script that is alone
  finds `package.json` of the old release until it has copied everything before it.
* `ArtifactsProofs`: `DownloadsAgree`, `RestoreIsolated`, `ContinuousHasEveryLog`,
  `SessionsAgree` and `ViewAgrees`.
  Downloads: everyone waits once, a timer runs for what is ready, and until a shutdown
  whoever is asked for by a preparation has one. Restores: what a restore has made is at the
  server and nobody else has made it until the restore ends, so neither the names that others
  create nor what another restore drops can be among it; and an unconfirmed restore loads
  only after it has made all its names. Captures: the batch under way has requested the newest
  log, all it has stored is pending and is what was copied, and no artifact that counts has
  a later batch than the one whose claim is recorded. Sessions: until there is an account
  only one handler sets up, below a fresh claim, and no other handler is there. The limits need
  that the entries at some positions of a sequence are counted as the positions are, and
  that of the positions with fewer than `n` after them there are fewer than `n`.
  The page of executions: one request of a kind is current, and whenever the browser
  has seen a change (`seen`), what is in view is not older than it, or a refresh waits for
  one that runs, or the current request has read nothing older; the last event on its way is
  what the stream has sent. The table by address: an address has one entry at most, which
  counts all its requests of this minute or was dropped in it, and what was written last to a
  stream is its fingerprint.
* `SurroundingsProofs`, of the other sides of `schedule`: `DestinationsAgree`,
  `CatalogAgrees`, `ToolsAgree` and `AssetsAgree`. Destinations: a retention has seen files
  of the schedule at the place it began with, and goes on to those with enough newer ones
  among what it has seen, which an upload does not take back; without a change of the
  settings every file is where they point to or nowhere. The part about retention
  (`RetentionIsRight`) holds under any outages and edits. The parts about rows that are
  written off and about locks hold where nothing of what is told under Findings occurs:
  `WrittenOffIsGone` without outages at FTP and S3 and, but for the drives, without edits;
  `EnforcedIsLocked` without edits. So only the first speaks of settings that are saved while
  an operation goes on with the old ones. Records: the first source
  of a schedule is one it was saved with, which is what is left when a deletion stops after
  the links, and a passed row has its run among those restored. Programs: whoever works is
  the active job, and what it has verified is the published archive. The page: what is in
  memory of a whole release is all of that release, so a page that was read from it refers
  to nothing else.

* `SqlStreamProofs`: `CutsDoNotMatter`, for texts of any length and alphabets of any
  characters. The scanner goes from a character to the next, the regular expressions
  jump from the beginning of a part to its end and take back choices that lead nowhere. The
  proof follows both to a boundary b, a semicolon where the scanner is in code. `Agree(s, i)`
  says that at i no part is open for either; a string, a comment in a line or a block that
  begins there ends for the regular expressions where the scanner leaves it
  (`StringFound`, `LineFound`, `BlockFound`), on the piece that ends at b and on the whole
  alike, since nothing they try leads past b on one and not on the other. So both agree again
  behind it, and by descent from b the code of the whole is that of the piece and that of what
  is behind (`BoundarySplits`). What is behind reads like a text of its own (`CodesAlike`,
  `ScannedAlike`), so rewriting and counting go piece by piece (`Pieces`), and what is
  rewritten has the code it had (`NothingLeft`). The inductive invariant speaks of whatever
  may still come: while the file is read, for every x, the whole text with x behind it is
  rewritten as what is written already and then what is carried with x behind it. A statement
  about the text so far would not do: an open quote can be closed by what comes. The library's
  induction theorems being out of reach, each induction over positions is one over the set
  of positions at which the claim holds, from its least number (`Upward`, `Downward`), and
  that the recursive functions have the values of their definitions is shown in that way too
  (`ScannedIs`, `StringEndsAre`, `CodesAre`).

The sides of `MCAlerts`, of `MCFiles`, of `MCArtifacts` and of `MCSchedule` share no variable
but `side`, and their theorems are about the specification that the runs check.

The assumptions are `StoreAssumption`, `ExecutionAssumption`, `ScheduleAssumption`,
`OutboxAssumption`, `PolicyAssumption`, `FilesAssumption`, `ArtifactsAssumption`,
`ViewAssumption`, `TimersAssumption` and those of the other modules that have one. They say that numbers are
numbers, that what is counted is finite, that a marker is none of what it stands in for, that
a limit or a batch is at least one; TLC evaluates them in every run.

Only model-checked, because out of the prover's reach, are the liveness properties. Every
safety property and every action property of the passing runs is stated by a theorem.

## Findings

Shown by a run:

* `identity`: `saveConnection` forgets `cancel_requested` in its guard, so a connection
  moves to another host while the worker of a cancelled pair still runs.
* `container`: the number of the dead owner is the number of the new process, 1, so a
  container does not start again after a crash until the lock is removed by hand.
* `overlap`: the final update of a run sets a row that another run's rotation expired
  back to success.
* `tail`: a log that was captured while it was the newest, and then grew, is never
  captured again; coverage is called continuous without its last events.
* `rename`: a zip of the `single` layout, and the views of the `table` layout, name their
  database and are restored to it, whatever name was asked for.

Met on the way, without a run of their own. Where a property excludes one of them by a
condition, the comment on the property says so.

Execution, schedules and runs
* with the policy `queue` every occurrence adds a waiting execution
  (`execution.service.ts:109`), where `README.md:125` speaks of one pending overlap;
* saving an overdue schedule forgets the occurrence (`backup.service.ts:346`);
* the row of a run that a crash interrupted says `running` for ever;
* after a prefix is shortened a run's rotation removes the artifact it has just made;
* a weekday and a day of the month in a cron expression must both match, and `*/n` of the
  days of a month counts from 0.

Records
* `deleteJob` is three statements without a transaction, and leaves plans that nobody sees
  (`listPlans` joins the schedule) and that block the deletion of a recovery connection;
* connections, destinations and schedules that are deleted leave rows that refer to them;
* `coordinator.retry` does not look whether the schedule is still there,
  `retryHistoricalRun` does;
* `policy()` speaks only of pairs that had a success once, and calls pairs that a schedule
  no longer has stale for ever; a plan that moves to another schedule, or is deleted, hides
  the evidence of its tests;
* a stale incident is announced as resolved, with 'Verified protection is fresh.'
  (`notification-outbox.service.ts:51`), when the maximum age is raised over the age of the
  old artifact, or the clock is set back into the grace of the schedule
  (`protection.service.ts:46`, and `:99`, which compares only the fingerprint, of which the
  age is no part); against `docs/OPERATIONS_OVERVIEW.md:23` and the test
  "never labels changed policy as recovered protection" (`test/protection-policy.spec.ts:82`).
  `RecoveredIsVerified` of `Protection` states that rule; TLC finds it violated with the
  constants of `MCAlerts.cfg` when it is added to the `PROPERTIES`;
* 'Previously delayed work started.' is announced too when the delayed work was cancelled,
  or when an overdue schedule was saved again and its occurrence forgotten
  (`notification-outbox.service.ts:51`): nothing waits, which is all the policy asks;
* delivery of a notice is at least once: besides a crash, an accepted message whose receipt
  and refusal both cannot be written (`notification-outbox.service.ts:115`, `:122`) is sent
  again a second later, with nothing counted, for as long as the writes fail;
  `docs/OPERATIONS_OVERVIEW.md:25` speaks of the crash only. `lost` counts these requests,
  and `SendsAccounted` allows for exactly them;
* two tests of one plan can run at once (`OneTestPerPlan` of `Rehearsals`): the storage is
  asked between the check and the row; meanwhile the destination may be edited too. The
  recovery connection is protected while an artifact is rehearsed but not while a test is;
* `startPitrRehearsal` does not compare the recovery server with the server of the source;
  `automaticGroup` takes `localhost`, `127.0.0.1` and `::1` for three servers, where
  `assertRecoveryDestination` takes them for one.

Destinations and restores
* a failing name resolution is taken for a missing file: reconciliation expires successes
  at FTP and S3 targets, against `docs/THREAT_MODEL.md:29`, and an S3 rotation is skipped;
* a renewed token is written back with the settings that were read before
  (`storage.service.ts:506`), so that an edit meanwhile is lost; an edited path expires every
  artifact at the old one; the claim that object lock was verified survives an edit;
* uploads that begin together may each create the folder at a drive;
* each download may use a third of the free space, so that three may use more than all;
* members of two databases whose names are equal after `safeFilePart` verify, and a restore
  refuses them; with `overwriteConfirmed` verification can pass on a copy that was there;
  a zip that fails its validation leaves an empty database in mode `new`;
* failed preparations of downloads stay in the map, and a shutdown clears the map without
  removing the copies.

Point-in-time recovery
* `pitrBinlogReplayOptions` (`pitr.utils.ts:28-38`) turns the target into Node's local time,
  but `decodeBinlogs` runs the program with `TZ=UTC`: away from UTC the replay stops at
  another time than `docs/RECOVERY_ASSURANCE.md:30` says;
* `lastSqlStatementBoundary` takes a backtick for a quote, with escapes, and
  `SQL_PROTECTED_PARTS` takes a name in backticks for code: with an apostrophe or the
  beginning of a comment in a name the result depends on the chunks, against the comment at
  `backup.service.ts:1337`. `NamesArePlain` is the condition of `CutsDoNotMatter` that
  leaves these texts out; without it TLC finds a name that holds `#`, and
  behind it a semicolon and a reference, which is a comment to the end in the whole text and
  a reference when the first statement is cut off. The two also end a comment differently at a
  carriage return, which is no character of `SqlStream`;
* a configuration that is saved during a capture is overwritten with the capture's target;
  rows of point-in-time rehearsals are never recovered after a crash; a claim whose process
  number is in use again blocks captures.

Sessions and browsers
* `updateUser` compares roles before bcrypt and writes after it (`auth.service.ts:121`); with
  a clock that is set back a later user becomes the primary one;
* the event `recovery_tests` carries no `pitr` (`recovery.service.ts:308`) and replaces all of
  `state.recovery` (`app.js:345`): the panel goes, and rehearsals are dropped until the
  page is loaded again;
* `recovery_tests`, `pitr_rehearsals`, `storage_health`, `downloads` and `backup_runs` have no
  snapshot, so what a broken stream loses of them stays lost; executions that are not
  on the newest page change without being told;
* the throttled event about API requests is page 1 of everybody, and shows on page 2 until
  the next snapshot; a page that is turned while a request is under way turns back;
* `loadCollection` (`app.js:848`) and the detail of an execution take an older answer over a
  newer one (`LiveView` has what is checked of this: which execution, not how new).

Files, updates and tools
* a second import that is cut between its two files leaves a new database with an old key
  (`KeyFits` excludes it by `cut`); `APP_ENCRYPTION_KEY` overrides an imported key;
* an updater that was killed after `package.json` was copied is told that the release is
  installed already; a retry saves a mixed rollback copy and calls it the previous release;
  a status that cannot be written in the handler of an error ends the updater before it
  restores; a failing `npm ci` of a rollback is swallowed; two scripts at once restore
  each other's files (`CopyIsPrevious` and `VerdictTrue` without `mixed` fail); a check for
  a release writes over the updater's status, through the same temporary file;
* `repair()` removes the managed programs before it has others; a work folder that cannot
  be made rejects a promise nobody waits for (`tool-installer.service.ts:93`); a program that
  was cut while it was copied counts as available; work folders stay after a crash;
* after an update without a restart the asset manifest is made from the disk and names
  files that the process does not serve yet.

## Plan

The modules of the first plan are written, except `NextCron`. Next, in this order:

1. `NextCron` as a pure algorithm, checked against the first matching local time after
   the start, with gaps and repeated hours.
2. The settings (retention of events, limits) and what their pages do with a save that
   another has overtaken.

## What is not modelled

SQL, dump and restore programs, compression and encryption, the protocols of storage
targets and notification providers: one step each, with the outcomes the code tells
apart. Wording, logging, validation of requests, the pages of the web interface that only
render what they fetch. Migrations of the schema. The parts marked partly or
`not_modelled` in `PROJECT.json` say what is left out and why. Within the modelled parts:
`waitForTerminal`, which only reads; deleting a connection that has queued work; a lock
file that something else has written; how `nextCron` finds an occurrence; captures by
hand, which claim nothing; folders at the drives; login throttling; restarts of a
container by an update; the rules proposed for a cache in front.
