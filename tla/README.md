# TLA+ verification of Projekt-Manager

Projekt-Manager is the project board of a small crafts business: customers,
projects that move along a fixed workflow, photos and documents in an object
store, German invoices with legally gapless numbers, live updates to every open
browser, and an export/import of everything. One Node process serves it from
one Postgres database and one versioned S3 bucket.

This directory holds TLA+ models of its server and of the browser's stores, what
TLC checks of them on small instances, and theorems that TLAPS proves for all
instances: the proof modules are `InvoiceProofs`, `InvoiceStepProofs`,
`InvoiceBookProofs`, `ProjectRecordsProofs`, `DataExchangeProofs`,
`ClientSyncProofs`, `AttachmentProofs` and `ThresholdProofs`. All paths below are
relative to `src/src/` unless they start with `docs/`.

    tlc -config billing.cfg MCInvoiceLifecycle        # a run
    tlapm InvoiceProofs.tla                           # one of the proof modules

`PROJECT.json` lists the components, the runs, what each definition models (file
and lines), the hazards and the properties that watch them, the findings, and for
every property a plausible bug that it catches (the operators commented
"faulty:" in the modules; no behaviour uses them).

## 1. Inventory

### Parts of the system

| part | state it keeps | operations | correct when |
|---|---|---|---|
| Invoices (`server/services/Invoice*.ts`) | `invoices` rows, `invoice_sequence` counters, rendered PDFs | create, update, delete draft; issue; cancel (Storno) | numbers are gapless per year and kind; issued rows never change or vanish; a Storno pairs with one cancelled invoice |
| Projects (`ProjectCrudService`, `ProjectTransitionService`, `ProjectDatesService`) | `projects` rows: status, archived flag, dates, workers | create, edit, forward/backward, archive, restore, purge | status moves one step; issuing is what bills a project; nothing outlives its parent |
| Customers, company profile | `customers` rows, one profile row | create, update, delete with cascade over archived projects | no issued invoice is lost with a customer |
| Attachments (`AttachmentService`, two reapers) | `attachments` rows, usage counters; objects in the bucket | init, complete, hide, restore, reap | a listed row can be downloaded; a hidden one can be restored for L days; nothing leaks |
| Bucket client and sweep (`storage/`) | object versions and delete markers | put, head, hide, copy; periodic sweep | hides only what no row needs |
| Data exchange (`takeout-*`, `ImportService`, `routes/*-jobs.ts`) | job rows, staged files | export; resumable upload; import in two passes | an import destroys only for an archive that arrived whole; a ready job is complete; every running job ends |
| Audited mutations (`mutate.ts`, publisher, retention) | `audit_log` rows | wrap every write; dispatch after commit | a change and its audit row commit together |
| Live updates (`sse/`) | open connections | broadcast hints, reconnect | a heard change ends up on the screen |
| Notifications, push | rules, subscriptions, notifications | publish, deliver, drop dead endpoints | a recipient with a live endpoint is reached; dead endpoints go |
| Threshold monitor, periodic sweeps | backoff counters, dedup slots | tick, skip, recover | what stands is pushed once per window and again, through failures and backoff |
| Users, sessions | `users`, `sessions` | login, expiry, delete user | authors of frozen invoices are kept; nothing names a deleted user |
| Backup, key envelope, renderer | files, keys | batch and pure functions | outside this model |
| Client stores (`state/*.ts`) | what a browser shows | fetch, mutate, apply hints | the newest answer wins; the view converges |
| Domain rules (`domain/`, `config/stateConfig.ts`) | none | totals, workflow order, aging | agree with their definitions |

### How they interact

A request handler runs one Postgres transaction at READ COMMITTED: every
statement sees what is committed when it starts, row locks last until the end.
`mutate()` adds the audit row and dispatches it after the commit. The bucket
takes part in no transaction: handlers PUT before they commit (invoice PDFs,
import), or hide before (attachment hide) or after (purge, reapers). Background
jobs share tables and bucket with the handlers and take no lock against them.
Browsers learn of changes by SSE hints and refetch.

### What is hard

* check-then-act across statements of one READ COMMITTED transaction (purge,
  customer delete, import slots, archive gates);
* two stores without a common commit (attachments, PDFs, import);
* jobs that list first and act later (both reapers, the sweep);
* lock order: issue locks invoice, counter, project; a purge locks project, then
  its invoices;
* crashes between a commit and what follows it (dispatch, hides, Pass 2);
* answers and hints that reach a client out of order.

The hazards, each at its line, are in `PROJECT.json`.

## 2. What is modelled

### `InvoiceLifecycle`: invoices, the projects they bill, permanent deletes

| state | code |
|---|---|
| `customers`, `pstate`, `status` | customer rows; a project's existence, `deleted`, `status` (its index in `WORKFLOW_ORDER`) |
| `row` | `invoices`: status, project, total, version, year, number, `cancellation_of`, PDF; a deleted row leaves its number as a tombstone no action reads |
| `seq` | `invoice_sequence` |
| `blobs` | PDFs in the bucket |
| `read` | what clients have read of a draft (version and content), for lost updates |
| `invLock`, `seqLock`, `prjLock` | the row locks that are held across steps |
| `tx` | per session: the handler, the next statement `pc`, its local variables |

| action | code |
|---|---|
| `SubmitCreate`, `InsertDraft` | `InvoiceService.createDraft`: lookup, then INSERT with its foreign key |
| `SubmitRow`, `LockRow` | the request's snapshot; `getInvoiceRowForMutation` (`FOR UPDATE`) and the status and version checks on the locked row |
| `WriteDraft`, `DeleteDraft` | `updateDraft`, `deleteDraft` |
| `ReadProject`, `AllocateNumber`, `PutPdf`, `RenderFails`, `CommitIssue` | `runIssueInsideTx` in order: unlocked project read, counter upsert, render and PUT, update, transition, COMMIT |
| `CommitCancel` | the rest of `InvoiceCancelService.cancel`, which shares the counter and the PUT |
| `SubmitPurge`, `ListKeys`, `CheckArchived`, `DeleteProject`, `Cascade`, `CommitPurge`, `HideKeys` | `purgeProject` statement by statement, the cascade, the hides after the commit |
| `SubmitDeleteCustomer`, `CountCustomer`, `ListArchived`, ..., `CommitCustomer` | `deleteCustomer` |
| `CreateProject`, `Advance`, `Retreat`, `Archive`, `Restore` | one-statement handlers |
| `Abort`, `DeadlockVictim` | a fault at any step; Postgres breaking a cycle of waiters |

Left out: line items (a draft is its total), rendering (it fails or not),
authorisation, audit rows, field validation. The immutability trigger
(`db/baseline/tail/30-invoices-immutability.sql`) is not an action: the handlers
are shown to respect it without its help.

### `InvoiceBooks` and `InvoiceRefinement`: the promise and the refinement

`InvoiceBooks` is what ADR-0026 promises, without transactions or locks: entries
are added with the next number of their series, and the only change an entry
sees is to be cancelled in the step that books its Storno. `InvoiceRefinement`
maps a committed issued or cancelled row to an entry and `seq` to the last
numbers; `KeepsBooks` says every behaviour maps to the books.

### `AttachmentLifecycle`: rows and a versioned bucket

| state | code |
|---|---|
| `project` | active, archived, gone |
| `row` | `attachments`: status, `version_id` of each part, and whether the reaper's cutoff has passed (`aged`) |
| `object` | per key: how many versions were written, whether the newest entry is a version or a delete marker, which versions are kept, which are old |
| `puts` | presigned PUTs that may still arrive |
| `lock`, `tx` | the row lock of a running restore; per session its handler |
| `reaping`, `expired`, `sweep` | what the orphan reaper, the hidden reaper and the bucket sweep hold in memory |
| `trouble` | ghost: which storage sequences on an attachment broke off |

| action | code |
|---|---|
| `SubmitInit`, `InsertPending`, `PutArrives` | `initUpload`; the browser's PUTs |
| `SubmitComplete`, `ReadForComplete`, `Head`, `MarkReady` | `completeUpload`: project check, row, HEADs, compare-and-set |
| `SubmitHide`, `ReadForHide`, `HidePart`, `MarkHidden` | `hideAttachment`: storage first, then compare-and-set |
| `SubmitRestore`, `ReadForRestore`, `MarkRestored`, `Copy`, `SetVersionIds` | `restoreAttachment`: compare-and-set with the row lock, copies, version ids, COMMIT |
| `SubmitIssue`, `PutPdf`, `CommitPdf` | `persistRendered` inside an issuance |
| `SubmitPurge`, ..., `HidePurged` | `purgeProject` as far as attachments go |
| `ReapPending`, `HideReaped` | `attachment-orphan-reaper.ts` |
| `ListExpired`, `ReapHidden` | `attachment-hidden-reaper.ts` |
| `ListBucket`, `Judge`, `SweepKey` | `pruneBucketOrphans.ts` |
| `TimePasses`, `ReapVersion`, `JobsDie`, `Abort` | the clock, the provider's lifecycle rule, restarts and faults |

A compare-and-set that finds the committed status different returns at once; one
that matches waits for the row lock. Only a restore holds that lock over several
steps, so it is the only lock in the module. Time is one action: `TimePasses`
makes every TTL and the sweep's min-age expire together, and only while no
handler or job runs, because the periods are minutes to days and a handler takes
seconds. A slow PUT is not bound by it.

Hides are requested for rows that a client was shown as ready (the lists return
only those), although the handler itself accepts any row. Left out: labels,
authorisation and the self-delete grace window, sizes and content types, the
usage counters (their row lock only removes interleavings), and the override
import, which rewrites keys.

### `DataExchange`: takeout export and import

| state | code |
|---|---|
| `job` | `data_exchange_job` rows: status and whether `archiveRef` is set |
| `file` | the staged file of a job: its size in chunks, and whether it begins as the archive does |
| `work`, `invs`, `seq` | business rows (some or none), numbers of the frozen invoices, `invoice_sequence` |
| `rows`, `object` | attachment rows and their objects, by who sealed them: the upload path or an import (each import seals with fresh keys) |
| `invLock` | the ACCESS EXCLUSIVE lock on invoices |
| `post`, `proc`, `build` | what requests and runners hold in memory: a creating request, a PATCH and the restore it starts, an export build |
| `sweep`, `audits`, `trouble` | the bucket sweep; terminal audit rows per job; ghost: the faults a job has met |

| action | code |
|---|---|
| `Create` (`PostCheck`, `PostSweep`, `PostCreate`) | both POST handlers: slot check, sweep of the staged predecessors, INSERT |
| `PatchBegin`, `Append`, `PatchEnd`, `PatchComplete` | PATCH: status and offset checks, the pipe to disk, the `archiveRef` and the start of the restore |
| `Validate`, `Probe`, `CheckKeepsNumbered`, `ReadTarget`, `WipeAndInsert`, `HideWiped` | `runTakeoutImport` Pass 1 and `ImportService.import`, statement by statement |
| `PutEntry`, `InsertRow`, `Restored`, `RestoreThrows`, `RestoreFailed`, `FailureLost` | Pass 2 per attachment, then the terminal status, which may itself fail |
| `StartBuild`, `Snapshot`, `LoadKeys`, `ArchiveEntry`, `Built`, `BuildThrows`, `BuildFailed`, `Unlink` | `runExportBuild` |
| `SweepStaged`, `Restart` | the staging reaper; a crash and the boot reaper after it |
| `Issue`, `EnterWork`, `SweepList`, `SweepJudge`, `SweepHide` | the system around the job: invoices are issued, rows entered, the bucket is swept |

Left out: the archive and row formats (a file is intact or not), the download,
removals of staged files that fail, and the check of the typed confirmation,
which is made at POST.

### `ClientSync`: a tab, its lists, its stream

| state | code |
|---|---|
| `row`, `live`, `commits` | the project's row on the server |
| `bus`, `source`, `frames` | the subscription on the server, the tab's `EventSource`, frames under way |
| `session`, `auth` | the session row of the cookie; `authUser` |
| `shown`, `locked`, `waiting` | the board's and the management list; `mutationInFlight`; the queue of worker edits |
| `wire` | the tab's requests until their answer is delivered, each with what it keeps as its rollback |
| `history` | ghost: what the server listed after each commit |
| `owed`, `listed`, `overlap`, `crossed` | ghosts: what a heard frame obliges a list to show, what the last list had seen, a date edit that overlapped another, an edit under way as the kanban list was last applied |

| action | code |
|---|---|
| `Login`, `Logout`, `MountManagement`, `StartTransition`, `StartDates`, `QueueWorkers`, `RunWorkers` | what the user does: `authStore`, the mount effect of the management view, the mutations of `projectStore` with their optimistic writes |
| `ServeList`, `ServeMutation`, `Lose` | the server's answer to a request, or its loss before or after the commit |
| `AnswerList`, `AnswerMutation` | the store's continuation: apply, roll back, refetch, sign out |
| `Connect`, `Heartbeat`, `StreamEnds`, `Drop`, `Resubscribe`, `Hear` | `routes/events.ts`, `sse/client.ts`, `projectSseSubscription.ts` |
| `OtherCommit`, `EndSession`, `Restart` | other sessions' commits, the end of the session, a restart of the server |

Answers and frames are unordered. `Logout` signs the tab out even when its
request is lost and the session lives on. The sequence number of a store's fetches is
not kept: a new fetch takes the older ones off the wire, which is what ignoring
their answers amounts to. Left out: projects besides one (a list maps each row
on its own), filters and paging, a reload of the page, and the text of errors;
`fetchProject` and `projectStore.updateProject`, which put one row from a detail
answer into the kanban list; and the management store's own create, edits, archive,
purge and restore, which write its list from their answers and refetch the kanban
list. What the properties say of `shown` is said without these writers.

### `ThresholdMonitor`: sweeper, conditions, push

| state | code |
|---|---|
| `status`, `level` | the `meta_backup_status` row with ages in days; stored bytes against the warn and clear lines |
| `db`, `rules`, `muted`, `subs`, `dead` | whether the database can be read; enabled rules, muted users, subscriptions, endpoints that are gone |
| `slots` | the de-duplication slots, with ages in ticks |
| `sweeper`, `sweep` | consecutive failures and ticks to skip; the sweep in flight and the step of each of its two checks |
| `told` | ghost: the last push of each check, and whether another is excused |

| action | code |
|---|---|
| `Tick`, `EndSweep`, `Restart` | `periodicSweeper.ts`; a restart forgets slots and backoff |
| `ReadStatus`, `ReadUsage` | `evaluateBackup` with `deriveBadgeState`, `evaluateStorage` with its hysteresis |
| `Push`, `Prune` | `handleEvent`, `dispatchToSubscriptions` and the removal of gone endpoints, then `markNotified` |
| `RecordBackup`, `RecordDrill`, `Day`, `Usage`, `ToggleRule`, `ToggleMute`, `ToggleSubscription`, `EndpointDies`, `Outage`, `Repaired` | the world the monitor looks at |

Ages stop counting where the code stops telling them apart, so nothing but the
number of changes and faults is bounded by the instance.

### `ProjectRecords`: who is assigned, who wrote

| state | code |
|---|---|
| `user`, `project`, `workers` | `users`, `projects` (stored, archived, edited since its create), `project_workers` |
| `invoice` | status and the two author columns |
| `tx` | per session the handler, its local variables, its uncommitted writes and its row locks |

| action | code |
|---|---|
| `SubmitCreate`, `PreSelect`, `Replay`, `AssertAssignable`, `InsertProject`, `Reread` | `createProject` through `createIdempotent` |
| `SubmitEdit`, `UpdateFields`, `DiffWorkers`, `RemoveWorker`, `AddWorker`, `CommitProject` | `updateProject` and the worker inserts it shares with create |
| `Archive`, `Restore`, `SubmitPurge`, `Purge` | archive, restore, and `hardDeleteProject` as two statements |
| `InsertDraft`, `LockDraft`, `Stamp`, `CommitInvoice` | what creating, editing and issuing a draft does to its authors, with the key-share lock on the user |
| `Deactivate`, `Reactivate`, `SubmitDelete`, `LockUser`, `CountInvoices`, `DeleteUser` | `UserService`, with the cascade of the delete and the immutability trigger it can hit |

An INSERT waits for another transaction's uncommitted row under the same id or
number, and foreign keys lock what they refer to: these waits are guards.
Project authors and administrators are other users than the ones deleted here.
A create without a client id runs the same transaction without the retry around
it.

## 3. What the runs check

| run | instance | distinct states | checks |
|---|---|---|---|
| `billing` | 2 sessions, 4 invoice ids, 3 PDFs, 2 years, 3 workflow statuses | 103,243 | `TypeOK`, `GaplessNumbers`, `StornoPairs`, `PdfBacked`, `FrozenNeverLost`, `FrozenImmutable`, `IssueBillsProject`, `ArchivedStaysUnbilled`, `KeepsBooks` |
| `purging` | 2 sessions, 2 ids, edits, purge and customer delete, fairness | 229,741 | `NoDangling`, `RequestsTerminate`, `NoLostUpdate` |
| `papierkorb` | 2 sessions, a photo with thumbnail, 2 versions per key | 522,595 | `TypeOK`, `ReadyReadable`, `HiddenNotCurrent`, `HiddenRestorable`, `ReadyNeverReaped` |
| `bucket` | 2 sessions, an upload and an invoice PDF, purge, fairness | 59,323 | `SweepSparesRows`, `OrphansSwept` |
| `restore` | 2 imports, 2 PATCH handlers, 2 attachments, 2 chunks, a database in use | 3,261,971 | `RowsReadable`, `NumbersKept`, `ReadyRestored`, `WipesOnlyIntact` |
| `takeout` | 1 export, 1 import, the sweep, a used or an empty database, fairness | 95,540 | `TypeOK`, `ExportWhole`, `StagedReachable`, `AuditedOnce`, `JobsEnd` |
| `sync` | 1 tab, 2 lists, 2 edits, 1 commit, 2 faults | 1,478,346 | `TypeOK`, `DraftsTakenBack`, `HeardIsShown`, `LockHasOwner`, `ListsAdvance` |
| `monitor` | 1 user, a live and a dead endpoint, 2 changes, 1 fault, fairness | 448,305 | `TypeOK`, `OncePerWindow`, `BackupTold`, `StorageTold` |
| `records` | 2 sessions, 2 users, 2 projects with one number, 1 invoice | 2,465,622 | `TypeOK`, `RetryAnswered`, `AuthorsKept` |
| `purge_race` | as `purging` | - | violates `FrozenNeverLost` (section 5) |
| `hide_race` | as `papierkorb` | - | violates `LostHideHarmless` (section 5) |
| `restore_sweep` | 1 import, the sweep | - | violates `RowsReadable` (section 5) |

Each property is explained where it is defined. In short:

* `GaplessNumbers`: the committed numbers of a series are `1..seq`, each once,
  whatever rolls back after drawing one. `KeepsBooks` adds that nothing else ever
  happens to the books.
* `StornoPairs`: a row is cancelled exactly if one Storno cancels it, and they
  sum to nothing; two cancels of one invoice are the case.
* `PdfBacked`: an issued invoice has its PDF, under a key of its own.
* `IssueBillsProject`, `ArchivedStaysUnbilled`: though issue reads its project
  without a lock, an invoice becomes issued only in the step that moves an active
  project out of 'rechnung_faellig'.
* `NoLostUpdate`: a request acts on the draft content its client read.
* `NoDangling`, `RequestsTerminate`: deletes against inserts leave no orphan row,
  and no handler waits for ever.
* `ReadyReadable`, `HiddenNotCurrent`, `HiddenRestorable`: what a row's status
  says of its bytes. Each names its exceptions by the ghost `trouble`: a hide or
  restore that broke off, or the crossing that `hide_race` shows.
* `ReadyNeverReaped`, `SweepSparesRows`, `OrphansSwept`: a ready row is never
  reaped; the sweep takes a current version only from a key whose row was deleted,
  or was never inserted though the bytes are past the min-age; and in the end the
  jobs take every orphan.
* `FrozenNeverLost`: in `billing`, deleting drafts while others issue them never
  takes a numbered invoice along; with permanent deletes it does not hold. No run
  pairs customer deletes with issuances (section 5).
* `RowsReadable`, `ReadyRestored`, `WipesOnlyIntact`, `NumbersKept`: an import
  destroys only for an archive that arrived whole, never an invoice number, and
  a job that says ready has restored every attachment, whatever crashed before.
  Overlapping PATCHes, which the route says its client never sends, are excepted
  by the ghost `trouble`.
* `ExportWhole`, `StagedReachable`, `AuditedOnce`, `JobsEnd`: an export that
  is ready holds every attachment of its own snapshot; no plaintext archive is
  forgotten on the disk; one audit row per end; every running job ends.
* `DraftsTakenBack`, `LockHasOwner`, `ListsAdvance`: the screen never keeps what
  the server refused (unless a date edit overlapped another edit), never leaves a
  project's controls disabled, and never goes back to an older list.
* `HeardIsShown`: once a change the tab heard of is on the screen, presence and
  every value of the row, no later answer or rollback covers it; until then a read
  that will see it is under way. It compares the rows shown with what the server
  listed since. The kanban list is excepted when an edit was under way as it was
  applied, because then the code does cover the change (section 5).
* `OncePerWindow`, `BackupTold`, `StorageTold`: a condition is pushed once per
  window, and again as long as it stands, whichever check fails or backs off.
* `RetryAnswered`, `AuthorsKept`: a client that repeats a create is never told
  that its own project collides; a user delete never blanks an issued invoice's
  authors.

### Bounds and why they are enough

Sessions: every hazard listed is between two handlers, or a handler and a job,
which is a process of its own. Sessions, ids and keys are symmetric where no
liveness is checked. Four invoice ids allow two invoices and their Stornos; two
years show that series do not mix. Three workflow statuses give
'rechnung_faellig' a successor that is not the last. One project and one customer
suffice because handlers meet only within one. Two versions per key are the
upload and one restore, so a row can be hidden, restored and hidden again;
without the thumbnail three versions were checked as well. `MaxVersion` bounds
draft edits and object versions; a restore at the bound counts as a storage
fault.

`restore` has two imports so that one can follow, or fail after, another, and two
handlers so that two PATCHes or two restores of one job overlap; an archive of
two chunks can be resumed at the wrong place; the counter may go from 2 to
`MaxSeq` = 3 while the archive carries 1. The sweep is off there because with it
`RowsReadable` fails (`restore_sweep`); it runs in `takeout`, whose export must
survive both. `Posters` is one: the slot check is a read and an insert, and two
posts in one instant are not excluded by the code.

`sync` bounds what the user does (`MaxEdits`, `MaxLogins`), the commits on the
project (`MaxCommits`) and what fails (`MaxFaults`). `MaxCommits` = 1 counts the
tab's own commits too: two edits are in flight at once and cross another session's
commit, or one of them commits, but another session's commit and a successful edit
of the tab do not both occur in the run. The theorems of section 4 hold for every
`MaxCommits`, and TLC has also checked `MaxCommits` = 2 with `Writes` = {"workers"}
and `MaxFaults` = 1 (6,101,496 states, no error). `Last` = 1 gives a transition in
each direction. `monitor` has a repeat window of 3 ticks, longer than the longest
backoff (`Ceiling` = `MaxBackoff` = 2, so the cap is reached at the first backoff and held at
the next), a sweep that can outlast one tick, amber at 0 and red at 1 day; two
changes and a fault let a condition begin, change or cease while a sweep is in
flight, fails or is lost with the process. `records`
gives the two projects one number, so that both unique constraints are in play,
and keeps no counters: its state is finite without a bound.

Ids are used once, and bounded events run out, so most behaviours stop: hence
`CHECK_DEADLOCK FALSE`, except in `monitor` and `records`, where deadlock is
checked.

### Fairness

`InvoiceLifecycle` assumes strong fairness of each session's `Step` (a handler
keeps running, and Postgres queues waiters, so a waiter gets a lock that keeps
becoming free) and weak fairness of `DeadlockVictim` (the deadlock detector).
`Abort` and requests have none. `AttachmentLifecycle` assumes it for running
handlers, for time, and for the sweep (a `createPeriodicSweeper` that reschedules
after failures); `OrphansSwept` also supposes that the service is quiet now and
then, because of how time is modelled. The best-effort hides have no fairness:
each may fail.

`DataExchange` assumes weak fairness of a restore and a build once started (each
is an async function of a live process) and of the staging reaper, whose sweeper
keeps ticking; nothing of clients, faults, restarts or the bucket sweep.
`ThresholdMonitor` assumes it of the interval, of the end of a sweep and of each
check's reads, sends and prune, which are awaited calls that settle; outages may
last for ever, and `BackupTold` and `StorageTold` ask only about times without
one. `ClientSync` and `ProjectRecords` state no liveness.

## 4. What is proved

Every safety property of the passing runs, for every value of the constants that the
named assumptions of the component's module admit (`None` is no id, 'rechnung_faellig'
has a successor that is not the last status, thresholds are ordered, and so on;
TLC evaluates them in each run). Six theorems have a further hypothesis, which the
last column names. Those about the system are needed: without them the property is
false, and TLC shows how.

| module | theorem | states | beyond the assumptions |
|---|---|---|---|
| `InvoiceProofs` | `Invariance`, `TypeCorrect`, `Gapless` | `[]IInv`, `TypeOK`, `GaplessNumbers` | |
| `InvoiceStepProofs` | `FrozenStay`, `EditsWhatWasRead`, `IssueBills`, `ArchivedUnbilled` | `FrozenImmutable`, `NoLostUpdate`, `IssueBillsProject`, `ArchivedStaysUnbilled` | |
| `InvoiceBookProofs` | `Stornos`, `Homes`, `Pdfs` | `StornoPairs`, `NoDangling`, `PdfBacked` | |
| | `NeverLost`, `Refinement` | `FrozenNeverLost`, `KeepsBooks` | `NoPermanentDelete` |
| `ProjectRecordsProofs` | `TypeCorrect`, `Authors`, `Retry` | `TypeOK`, `AuthorsKept`, `RetryAnswered` | |
| `DataExchangeProofs` | `TypeCorrect`, `Exported`, `Staged`, `Audits`, `Wipes` | `TypeOK`, `ExportWhole`, `StagedReachable`, `AuditedOnce`, `WipesOnlyIntact` | |
| | `Numbers` | `NumbersKept` | `InUse` |
| | `Restores` | `ReadyRestored` | `OnePoster` |
| | `Readability` | `RowsReadable` | `OnePoster`, no bucket sweep |
| `ClientSyncProofs` | `TypeCorrect`, `Locks`, `Heard`, `Lists`, `DraftsBack` | `TypeOK`, `LockHasOwner`, `HeardIsShown`, `ListsAdvance`, `DraftsTakenBack` | |
| `AttachmentProofs` | `TypeCorrect`, `ReadyStay`, `Readable`, `NotCurrent`, `Restorable`, `SweepSpare` | `TypeOK`, `ReadyNeverReaped`, `ReadyReadable`, `HiddenNotCurrent`, `HiddenRestorable`, `SweepSparesRows` | |
| `ThresholdProofs` | `Window` | `OncePerWindow` | |
| | `TypeCorrect` | `TypeOK` | `PowersAreNatural` |

The hypotheses:

* `NoPermanentDelete`: no session asks for a purge or a customer delete. With one,
  `purge_race` destroys an issued invoice, so the theorems are about all the rest:
  drafts, issues, cancels, rollbacks, archives.
* `InUse`: the importing database has rows from the start. Over an empty one the
  import drops what is entered under it (section 5).
* `OnePoster`: job-creating requests come one after another. With two at once TLC
  finds both properties violated (section 5). The other theorems about
  `DataExchange` hold for any number of posters.
* No bucket sweep (`Sweeping = FALSE`): with it, `restore_sweep` is the
  counterexample.
* `PowersAreNatural`: for every natural n, 2^n is a natural number. The backoff is
  a power of two under a cap, and no backend knows what `^` computes.

### Invoices

`GaplessNumbers` is not inductive: nothing in it says why the number a session is
about to commit is still the next one. `IInv` adds that

* `LocalOK`: at each step the handler has the local state the step needs;
* `HeldRowOK`: from its row lock to its commit a handler's invoice is locked by it
  and in the status it found;
* `DrawnOK`: a session that has drawn a number holds the series' lock, and its
  number is `seq + 1`;
* `FreshOK`: an id reserved for an insert is unused, and one handler's;
* `CascadeOK`: a delete that has done its cascade holds every invoice row of the
  project, so it removes no row another handler is about to write;
* `RowOK`: a draft has no number, a frozen row has one and a PDF.

Each step is proved by who acts: a session leaves the others' parts alone
(`OthersOK`, `SessionsStep`), an issue or cancel books exactly the next number
(`IssueEffect`, `CancelEffect`, `GaplessBooked`), everything else keeps the
numbered rows (`GaplessKept`); a purge keeps them because of the tombstones. That
it can destroy an issued invoice at all is the subject of section 5.

The action properties also depend on what a handler remembers while rows move on,
which `HInv` (inductive relative to `IInv`) states: a row stays in the project
the handler read it in (`SameProject`); a draft at the expected version has the
content the client read, and is at that version once it is locked (`SameContent`,
`ReadOf`); only a handler on a row names one, and it holds no row lock before its
turn (`Named`). `ChangeStep` lists the six ways a step can change a row; each
action property is then a case split over them.

`InvoiceBookProofs` looks at what a step does to the numbered rows as a whole
(`BookStep`): it leaves them, books an issue, books a cancel with its Storno, or
destroys those of a project. For `Stornos`, a Storno names a row that exists
(`CancelsRow`), so none waits for an id to be inserted, and both halves of a pair
are in one project, so a destruction takes both. `Homes` is the foreign keys'
work: a delete that is about to commit holds every row it would leave dangling. For `Pdfs` the invariant follows each key: one a handler has
PUT is in the bucket and in nobody's row (`Pending`); one a purge has listed is in
no frozen row but those of its project, and at its hides in none (`Listed`), since
it has deleted that project or found it deleted (`Purges`). `Refinement` maps a commit of an issue to `Books!Book`, of a cancel to
`Books!Cancel`, and every other statement to a stutter.

### Project records

`IInv` says why a delete finds nobody it would harm: a session that is about to
commit a reference to a user holds KEY SHARE on the row (`refs`), a deleter holds
it for update (`owns`), and the two exclude each other. A draft's edit that leaves
`updated_by` as it is takes no such lock; it holds the invoice row, which the
deleter must have. `Retry` is a case split over the statements that refuse.

### Data exchange

`TInv` types what each request and runner holds in memory. On it rest two
independent invariants. `KeepInv`, for `Numbers`: a handler between its comparison
and its wipe holds the lock on invoices, and what it compared still stands
(`Comparing`). `JInv`, about each import (`Importing`) and export (`Building`): its
status, its `archiveRef`, its staged file, its audit rows and the handlers that
work on it; as long as its uploads have not overlapped, one handler at a time
does, and from validation to wipe the file is whole. `RInv` adds, for `Restores`
and `Readability`, that one import is active at a time (`Lone`) and that a running
one has, of its archive, exactly what it has not still to do (`Restoring`).

### Client stores

`TInv`, and `SInv`: each store has at most one list request (`OneList`), no answer
on the wire is older than the list on the screen (`Ordered`), and, unless edits
have overlapped, each draft on the screen belongs to an edit in flight, whose
rollback holds none (`Drafts`). `LockHasOwner` is inductive beside these.
`HeardIsShown` is not, since a rollback or an answer on the wire may cover what is
shown. `ListedOrRead` says that a store's last list is as new as what was heard, or
that a read which will be is under way. `ShownInv` adds to what is shown what may
yet cover it: the values an edit keeps as its rollback are of the listings since
then or drafts too, and no mutation's answer is older than what was heard
(`AllKeepFresh`), for the kanban list unless `crossed`.

### Attachments and the bucket

`TInv` has the types, what a handler has still to do at each step (`Doing`), and
that the lifecycle rule has no claim on a current version. `SInv` then says of
each attachment (`AInv`) what its handlers have seen of its objects and what keeps
that true: the first write of a key is its presigned PUT (`PutOnce`); an id that
is not committed is one handler's (`Alone`); a restore that copies holds the row
lock, and its copies are the newest versions (`Locked`, `RestoreUse`); a completing
upload, an issuance and a hide likewise (`Used`). `ReadableOK`, `HiddenOK` and
`KeptOK` are the three row properties extended to the handlers halfway through.
`JInv` is about the jobs, which hold keys and no locks: a key that a reaper or a
purge is going to hide is of a row that is gone, and one that the sweep is going
to hide is lost to every handler (`Lost`), which no step undoes (`Moves`).

### Threshold monitor

`Quiet(c)`, for each check: as long as a repetition of its announcement is not
excused, its slot remembers the announcement and is no older than the ghost, or
the dispatch has still to prune and to mark; and a push under way was decided on
when the window had run out. For `TypeCorrect` the sweeper adds that it backs off
only from the ceiling of failures on.

### Only model-checked

* Liveness under fairness: `RequestsTerminate`, `OrphansSwept`, `JobsEnd`,
  `BackupTold`, `StorageTold`. The prover does not deal with fairness and `ENABLED`.
* What the three violation runs show.
* Induction over data is out of the prover's reach, hence `PowersAreNatural`.


## 5. Findings

1. `purge_race`: `purgeProject` counts issued invoices, reads `deleted` and
   deletes in separate unlocked statements. If the project is restored, billed
   and archived in between, the DELETE cascades to the issued invoice (the
   immutability trigger fires on UPDATE only). The comment at
   `server/services/ProjectCrudService.ts:763` says that "a concurrent issue cannot
   slip through".
2. `hide_race`: two hides and a restore of one attachment. The second hide's
   delete markers land on the copies the restore has made, its compare-and-set is
   lost, the restore commits: the row is ready and cannot be downloaded, and the
   lifecycle rule will take the bytes. The comment at
   `server/services/AttachmentService.ts:876` calls the marker harmless.
3. `restore_sweep`: the bucket sweep lists an old object, an import wipes its
   row, the sweep judges the key unreferenced, the import writes the object again
   under the same key, the sweep hides it. The import ends ready with a row that
   cannot be read; `docs/spec/verification.md:237` promises every row at
   byte-equal plaintext.

Seen while modelling, not a run of its own:

* Two POSTs of imports in the same instant both find the slot free
  (`routes/import-jobs.ts:122`); two imports then run side by side, and TLC, given
  two posters, finds `ReadyRestored` and `RowsReadable` violated: one wipes what the
  other has restored, which still ends ready. A comment at
  `server/services/ImportService.ts:738` relies on the deployment to rule that out.
* An import that finds the database empty compares no numbers and holds no lock
  until its wipe (`server/services/ImportService.ts:735`): a first customer,
  project and invoice entered between the probe and the TRUNCATE are dropped, the
  invoice's number included. `NumbersKept` is therefore checked and proved over a
  database in use.
* A restore of a hidden attachment copies its object after the sweep has listed the
  bucket, and a purge deletes the row before the sweep reads the rows: the sweep
  then hides an object younger than its min-age. Its row is gone, so nothing is
  lost; `SweepSparesRows` allows it.
* `CustomerService.deleteCustomer` has the race of `purge_race` in its loop, which
  deletes the listed projects without looking again (`CustomerService.ts:322`). With "customer" in place of "purge" in the requests of
  `purge_race`, TLC finds `FrozenNeverLost` violated through that loop.
* The hidden reaper's DELETE compares the status but not `hidden_at`
  (`repositories/attachment.ts:459`): a row restored and hidden again since the
  listing is purged at once.
* A restore whose thumbnail copy fails leaves the copied original current under a
  hidden row (`AttachmentService.ts:1054`); `HiddenNotCurrent` excepts it, and the
  sweep collects it after the row is reaped. `completeUpload` checks the archive
  flag before its HEADs and not again.
* A user delete locks the invoices that name the user before the user: a draft
  inserted in between and issued by somebody else makes the cascade hit the
  immutability trigger, so the answer is 500 where AC-385 says 409. No author is
  lost (`AuthorsKept`).
* A create whose own row is purged between the unique violation and the re-read
  is told its number is taken (`idempotency.ts:196`); a replay also answers an
  archived project. Two edits of the workers end in their union, or in a 500 for
  the duplicate.
* A purge that found its project archived deletes it even if it was restored in
  between (`repositories/project-read.ts:711`).
* A boot-reaped job gets no audit row (`data-exchange-boot-reaper.ts:53`, against
  AC-332); a pending import whose client gave up holds the slot until the next
  boot; a crash between an export's failure and its `rm` leaves the partial file.
* Nothing refetches when an `EventSource` reopens (`sse/client.ts`, against
  ADR-0025:31), and a frame lost between commit and dispatch is not replayed.
* Two overlapping date edits can leave a refused value on the board until the next
  list (`projectStore.ts:310`).
* A date edit that is refused or lost puts the whole row it began from back
  (`projectStore.ts:339`), so a change of other fields that arrived by a list in
  the meantime goes off the board until the next list, with nothing in flight; a
  transition answer older than the list does the same (`projectStore.ts:164`). TLC
  finds both when `HeardIsShown` does not except `crossed` (the second with two
  commits).
* `BackupStatusService.ts:61` looks for the connection error on the outermost
  error, which the query builder wraps: an outage may fail the check instead of
  skipping it. A failed drill with a fresh date reads green
  (`domain/backupBadge.ts:178`). A prune that fails after the sends makes the next
  sweep push again (`PushDispatcher.ts:121`), once per failure.

## 6. Not modelled, and why

* Rendering, key envelopes and binary identity are formats and cryptography:
  an object is opaque, a rendering fails or not.
* Backup and drill are batch jobs around `pg_dump` and an upload; the writes to
  the status row are modelled, the rest has no state in this program.
* The service worker is a stateless decrypting proxy; the user interface keeps no
  state beyond the stores; scripts, deployment and CI are operations.
* The attachment and invoice stores of the browser: their fetches have no guard
  against an older answer, so what `ListsAdvance` says of the project lists does
  not hold of them. The job stores poll what `DataExchange` models.
* The bulk delete of projects, label edits, profile and customer updates,
  passwords and login throttling are single statements or filters over what is
  modelled.
* Money and aging in `domain/` are pure arithmetic that the unit tests cover by
  example; the workflow order and the backup badge are modelled where components
  depend on them.

## 7. Plan

Every invariant and action property of the runs is proved. What is left:

1. A purge that is sound: `NeverLost` and `Refinement` with the permanent deletes
   of projects whose status no concurrent restore can move, which is what the
   comment in `purgeProject` means to say.
2. Abstract specifications, with the refinements proved, for the other components:
   a job (created once, ended once) for `DataExchange`, a papierkorb (ready,
   hidden, restorable until its term) for `AttachmentLifecycle`.
3. `Numbers` over an empty database in which nobody works during the import.
4. More of the system: label edits and usage counters, the attachment and invoice
   stores of the browser, the bulk delete of projects.
