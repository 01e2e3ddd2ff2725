# Creeparr: a TLA+ verification project

Creeparr archives the posts of the creators one follows on Patreon, OnlyFans and other sites. It is
one Python process (`backend/creeparr`) with a SQLite database, a web API whose handlers run in
threads or on the event loop, one scan worker, a pool of download workers and a scheduler. This
directory holds TLA+ models of its core logic, the TLC configurations that check them on small
instances, and proofs checked by TLAPS. `PROJECT.json` maps every definition to the lines it stands
for; paths below are relative to `src/backend/creeparr/`.

## 1. Inventory

| Component | State | What is hard | What must hold | Modelled in |
| --- | --- | --- | --- | --- |
| **Media lifecycle** `core/lifecycle.py` | `MediaItem`, its active `DownloadJob`, `Post.status` | every other component calls it, each in a session of its own, in any order, around downloads that take hours; restarts | row and job agree; the stored post status is the derived one; what the user stopped stays stopped; the archive is kept; retries end | `MediaRules`, `MediaLifecycle`, `StartUp` (reconcile) |
| **Download workers** `downloader/manager.py` | tasks, reporters, `paused_reason`, the kick event | pool resized while workers are busy; lost wake-ups; pause from a thread against the disk check; recording that fails | each running job has one worker; the user's pause holds; queued jobs run | `WorkerPool`, `MediaLifecycle` (claims, cancels, outcomes) |
| **Claims** `downloader/claims.py` | next start in memory, `started_at` of job rows | sliding window over rows that other code rewrites or deletes; restart | limit per hour, cap per creator, gap between starts, no starvation | `Claims` |
| **Scan queue, admission** `scanner/scan_manager.py`, `admission.py` | `_queue`, `_pending`, `_current` | unlocked check then put from several threads, into a queue that isn't made for them; the window between taking a request and making it current | no entry outlives its request; a promised full scan is made; the worker goes on | `ScanQueue` |
| **Scanner** `scanner/scanner.py` | `ScanRun`, `last_full_scan_at`, known posts | interruption between pages; the overlap count over several sources; posts published meanwhile | every visible post is seen | `ScanRun` |
| **Providers, Patreon client** `providers/*`, `patreon/*` | HTTP client, cookie file, auth status | clients rebuilt under their users; late answers of checks | the client in use is open and current; a session that works is used | `ProviderSession`, `ScanRun` (paging) |
| **Download run, direct and yt-dlp handlers, placement** `downloader/run.py`, `handlers/*`, `placement.py` | `.part` files, reserved paths, scratch folders | resumption, odd answers to ranges, items with one name, remux | what is filed is whole; no archived file is overwritten | `DownloadFiles` |
| **Library checks, embedding, deduplication** `downloader/library.py`, `embed.py`, `run.py` | files on disk, completed and missing rows | reads rows, looks at the disk for hours without a session, writes rows; unmounted share | archived items have their own picture; rows come to match the disk | `Library` |
| **Settings, authentication** `core/settings_service.py`, `api/auth.py` | rows, cache, session counter | concurrent read-modify-write, commits that fail, forms that send back masked secrets | nothing is written back; logged out is logged out | `Settings` |
| **Application start** `app.py` | rules version, recovered rows | crash between any two sessions of the start | it comes up; old rows follow the new rules | `StartUp` |
| **Scheduler** `scheduler.py` | task table | tasks overlap with everything | | its tasks are actions of the modules above |
| **User actions** `api/*.py` | none of their own | clicks on buttons shown before the row changed | a button does what it says | `MediaRules!Offers`, the handlers in each module |
| **Events, history, notifications, tags, sidecars, names, migrations, web UI, packaging** | | | | not modelled (section 7) |

The components meet in the database. A scan hands each post to `MediaLifecycle.sync_post`; user
actions call the lifecycle in a request's session; a worker asks the claims for a job, which calls
`start_download`, runs it without any session, and hands the outcome to `record_outcome`; the
scheduler calls `retry_due`, the checks and the scan requests. What a session changed is announced
after its commit: cancel flags go to the workers' reporters and idle workers are woken.

## 2. Modules

| Module | Models | Extends |
| --- | --- | --- |
| `MediaRules` | the rules of `core/lifecycle.py` on one row, and which buttons a row shows. Pure operators. | |
| `MediaLifecycle` | all callers of the lifecycle, the workers' claims and outcomes, restarts | `MediaRules` |
| `LeftAlone` | the same from the moment users and scans leave it alone | `MediaLifecycle` |
| `UserWishes` | the same with a memory of what the user asked | `MediaLifecycle` |
| `DownloadQueue` | abstract specification: jobs, who holds them, what is archived | |
| `QueueRefinement` | `INSTANCE DownloadQueue WITH ...`: the lifecycle implements it | `MediaLifecycle` |
| `ScanQueue` | `request_scan` read by read, the scan worker await by await | |
| `ScanRun` | one creator's scans, page by page, over sources that change meanwhile | |
| `Claims` | the claim query of one provider, in ticks of time | |
| `WorkerPool` | the workers' loops: pool size, sleep and kick, pause, disk check, recording | |
| `DownloadFiles` | bringing the files of one post to disk, chunk by chunk | |
| `Library` | a download's embedding and link, the embed backlog, the file check | |
| `ProviderSession` | credentials, clients, cookie file and auth status of one provider | |
| `Settings` | the settings service under concurrent requests, sign-in and logout | |
| `StartUp` | the process from start to crash: settings repair, reconcile, recovery, requests | `MediaRules`, `Settings` |
| `MC*` | instances for TLC (`WorkerPool` and `Library` are run directly) | the above |
| `MediaLifecycleProofs` | proofs: rules, invariants, refinement, post statuses, steps of a row | `QueueRefinement`, `TLAPS` |
| `ScanProofs` | proofs: the scan queue, and one creator's scans | `ScanQueue`, `ScanRun`, `TLAPS` |
| `ClaimsProofs`, `WorkerPoolProofs`, `DownloadFilesProofs`, `LibraryProofs`, `ProviderSessionProofs`, `StartUpProofs` | proofs about the module each is named for | that module, `TLAPS` |

How they compose. `MediaLifecycle!Start` leaves open which queued job starts: `Claims` says which may.
`WorkerPool` says when a worker asks, `DownloadFiles` what happens on disk until the outcome that
`MediaLifecycle!Record` writes, `Library` what follows a filed video. `ScanQueue` says which scan runs,
`ScanRun` what it reads, `MediaLifecycle!SyncPost` what a post does to the rows. `StartUp` composes
`Settings` and the row rules into one process. Each of these seams is a commit or a call in the code;
the modules stay apart since their product is out of TLC's reach.

### State and code

**Rows.** A *row* is a media item together with its active job, of which the partial unique index
`uq_job_active_media` allows one: `[status, wanted, attempts, job]`. What no rule reads is left out
(priorities, times, hashes, error texts). `status_reason` is read in one place, to tell the user's
skip from one by the preferences, so `SKIPPED` is two values: `"skipped"` and `"excluded"`.
`UNSUPPORTED` and `UNSUPPORTED_DRM` are one. `next_retry_at` is set exactly by the failure that makes
an item `failed`. `attempts` saturates at `MaxAttempts`, the only value it is compared with. A
finished job row is never read again by the lifecycle, so the job is `"none"` once it has ended.
`postStatus` is `Post.status`, *stored* and derived again by each caller, as in the code: an action
lists the posts whose status its handler derives (`CommitRows`); `Start` and `CrashRestart` derive
none, as `start_download` and `recover_interrupted` don't. `claim[w]` is what worker `w` holds:
`"claimed"` from the commit of `start_download` until the reporter is registered, then `"running"`.
`cancel` is the reporter's event; `SignalCancel` reaches registered reporters only, as `cancel_job`
does. One action is one committed session. A scan commits a page of posts at once; the model lets other
actions in between its posts, so it has more behaviours, and what holds of it holds of the program.
Inputs are choices: any button may be clicked at any time (also one shown before the row changed), the
provider may report any set of the post's media and any access, a download may end in any way.

**DownloadQueue.** A job is `none`, `queued` or `running`; a worker holds an item or nothing; `archived`
is a set. The refinement maps a row's job, a claim's item, and completed and missing rows. A claim whose
rows were deleted maps to holding nothing.

**ScanQueue.** `pending`, `queue` and `current` hold request *objects* (`request[r]` is the object's
fields), because `Upgrade` changes one that is queued. `call[t].at` says which statement of
`request_scan` caller `t` has reached. API handlers are plain `def`s, which the web framework runs in
threads: everything may happen between two of their steps. `LoopCallers` are coroutines: while one is in
the function no other, and no worker step on the loop, happens; the worker asks admission in a thread.
`_queue` is an `asyncio.Queue`: `get` looks whether it is empty (`FindEmpty`) and registers a getter
(`Register`), and a `put_nowait` wakes a registered getter. A coroutine never gets between the two; a
thread may, and its put then wakes nobody until the next one.
`scene` is which creators and callers a behaviour has. `owed` (creators whose pending request took on a
full scan) and `refused` (those whose full request admission refused since) are history variables.

**ScanRun.** A post is its place in the order of publication, an edition says whether it exists and
whether it was edited. `remote` is what the provider lists, `known` what is stored. A source is listed
page by page with a cursor, or fetched whole and cut (`Whole`), as the providers do. Each page is a
session; a cancel is seen between pages, a failure ends the run, a crash leaves it to
`close_interrupted_runs`. The overlap is counted, and ends the listing, source by source. `before`,
`horizon`, `whole`, `deleted`, `foreign` are history. What `ScanQueue` has too is named `Run...` here
(`RunInit`, `RunNext`, `BeginRun`, ...), and its `None` is `Absent`, so that `ScanProofs` can extend
both.

**Claims.** Ages instead of instants keep the state finite without a bound on time: a job's age
saturates just past the hour, where the query no longer sees it. `wait` is the time until `_next_start`.
`found[w]` is not `None` while worker `w` is in `next`, where it holds the lock. `provider_status` (the
queue page) is three steps, because it runs in an API thread without the lock. `starts` is a history
variable with all starts of the last hour (of which job, how long ago, in which process): the limit is
checked against it, not against the rows the code counts. `busy` says that in this behaviour rows are
deleted and the queue page is open.

**WorkerPool.** A place of `pool` is a task with its index, the statement it has reached and its claim.
The event loop interrupts tasks at awaits only; the pause and resume of the user come from threads, in
two halves (`call`): the memory's reason, then the stored flag. `soon` is a wake-up handed to the loop
from a thread that the loop hasn't run yet. `wish`, `raced`, `lost` are history.

**DownloadFiles.** A file is a sequence of chunks; a chunk says of which item and version it is and its
place there, so a mixed or truncated file is visible as such. A path is a name with a suffix: the final
name, its native container, `.src`, and their `.part`s. `held` is `Reservations._held`. The run's steps
are those between which the code awaits or another thread may act; ffmpeg writes the final path in place
between `RemuxBegins` and its end. `sized` is whether the answer said how long the file is (`total`);
an odd server may also send a range that is from the start and doesn't say so (`Misplaced206`). `stale`
is history: the file continued other bytes, or was continued with such a range.

**Library.** A file is its picture and the item whose metadata is in it; `sha256` is the content it
was made of. `share` and `local` are the mounted files and those under the mount point. `verify` is up
to two runs of `verify_files` with what each read, since a saved setting registers the task anew while a
run goes on. `clash` is history.

**ProviderSession.** A task is interrupted at awaits only. Clients are numbered; Patreon's is rebuilt
when settings are saved, OnlyFans's when it is needed, and that awaits the signing rules between
reading the credentials and installing the client. Checks, and whoever
builds a client, look at the credentials; a scan or a download takes the client there is. `WriteCookieFile` may fail, which is logged
and leaves the old file. `about` and `unwritten` are history.

**Settings, StartUp.** Two groups of fields stand for all. `stored` is the rows, `unusable` their fields
that fail validation, which `_usable` reads as their defaults, in either group. A request is in one of
the stages the code has: the settings read (`asked`), merged under the lock, committed, and in the cache;
or about to hand out a signed cookie. `PUT /settings` writes whatever groups it is sent: `"form"` is one
with the account group alone, `"page"` one with everything that `GET /settings` showed (`"shown"`: the
page stays open in a browser over any other requests, and over restarts), the logout counter included.
`mix` is which requests a behaviour has. In `StartUp` every session of `create_app` and of `reconcile` is
a phase of its own; `scene` chooses between an upgrade, stored settings that can't be used, and requests,
and `Spoil` makes stored settings unusable between two runs of the last. `ended`, `turnedBack`, `late`,
`told` are history; `turnedBack` says that something came that may write the logout counter back.

History variables record what happened for a property to speak of; the code's
variables don't depend on them, but for `clash`, after which a file that is written may be garbled.

## 3. Runs

| Run | Properties | What it shows |
| --- | --- | --- |
| `lifecycle_one_post` | `TypeOK`, `StoppedStaysStopped`, `ArchivedIsKept`, `QueueDrains` | over two items that share a stored status: nothing stopped is started (without a restart), nothing archived is lost; left alone, the queue drains from any state users and scans can leave |
| `lifecycle_crash` | `JobsMatchStatus`, `OneDownloadPerMedia`, `UserStopHolds`, `FailedIsRetried`, `ImplementsQueue` | through restarts: row, job and claims agree; a user's stop is undone by the user only; wanted failures are retried; the lifecycle implements the abstract queue |
| `lifecycle_two_posts` | `StoredStatusIsDerived`, `OldPostsWait` | actions over several posts leave no stale status; in a post older than `download_since` only the user begins a download, also when one scan finds or includes an item and could queue it in the same step |
| `scan_queue` | `EntriesAreLive`, `FullIsKept`, `QueueMoves` | no entry of `_pending` or `_current` outlives its request, whoever calls; on the loop, a promised full scan comes unless it was refused; the worker goes on, though what a thread put may wait for the next put |
| `scan_run` | `NoOrphanRun`, `FullSeesAll`, `NoGap`, `SeenInTheEnd` | no run stays running; a full scan reads every post; an incremental one leaves no gap unless one was cut short; every post is seen in the end |
| `claims` | `LimitHoldsUntilRestart`, `CapHolds`, `GapHolds`, `QueuedStarts` | limit, cap and gap hold, and together never keep a queued download for ever |
| `worker_pool` | `RunningHasWorker`, `PauseHolds`, `QueuedRuns` | a running job has one worker; the user's pause is undone by nobody else; queued jobs run |
| `download_files` | `OneWriter`, `FiledIsWhole`, `ArchiveIsKept`, `GetsThere` | over broken connections, odd range answers and answers without a size: one writer per name, files whole as far as the answer told, a kept archive, progress |
| `library` | `PictureIsKept`, `ArchiveStays`, `RowsComeToMatch` | rewriting and linking never give an item another's picture; an unmounted share doesn't empty the archive; rows come to match the disk |
| `provider_session` | `ClientIsUsable`, `WorkingIsUsed` | the client in use is never closed under the next request, and Patreon's and its cookie file are of the stored credentials; a session that works is used again |
| `start_up` | `CacheIsStored`, `LoggedOutStaysOut`, `ResetOnce`, `RowsFollowTheRules`, `NothingIsWrittenBack`, `ComesUp` | an upgrade cut short anywhere is finished later; concurrent settings requests keep each other's fields; an ended session stays ended unless the counter was written back; the process comes up |
| `skip_wins` | `SkipWins` | *violated*: see findings |

The `TypeOK` of each module gives the range of its variables; it is a checked property of one run, and
an inductive part of the proofs.

### Bounds

- **Lifecycle.** No rule looks at more than one item except the post status (a function of the *set*
  of its items' statuses) and the list buttons, so two items show every way one disturbs the other;
  two posts (one of them old) show a forgotten post; two workers show a claim race; two restarts show a
  restart within the consequences of another. `lifecycle_one_post`: 2 items, 1 worker, attempt limit
  2. `lifecycle_crash`: 1 item, 2 workers, limit 3, 2 restarts. `lifecycle_two_posts`: 2 items,
  2 workers (symmetric; the run has no liveness), limit 1. A limit of 3 has a first, a middle and a last
  failure. A video can't be excluded by preferences and an image can; the include switches of the
  three kinds are one, since each item has one kind and the rule reads that kind's switch only.
- **ScanQueue.** Two creators and a caller, on the loop or an API thread, or one creator and both
  callers; three request objects: one being scanned, one queued, one being put. A call starts only while an
  object is left for it (`Room`), which bounds the queue and not the order of steps.
- **ScanRun.** Two sources, the second fetched whole; three posts and one; pages of 2 and an overlap of
  2, so that an overlap spans pages; one edit, one restart.
- **Claims.** An hour is three ticks: a start inside, at the edge of and outside the window. Cap 1 and
  limit 2; three jobs of two creators, or two jobs where rows are deleted and the queue page is open.
- **WorkerPool.** One job (`RunningHasWorker` is about each job alone, and is proved for any number), up
  to two workers, two calls of the user, two faults: a full disk and what goes wrong while it is full.
- **DownloadFiles.** Two items of all pairs of kinds, one of whose servers answers ranges oddly; two
  versions, of one and two chunks, so that a `.part` can be shorter than, as long as and longer than
  the new file; one trouble, which is a change, an answer without a size, a removal, a cancel or a restart
  in the midst of requests that may fail without bound.
- **Library.** Two items (that may have one picture), three names, the threshold for an unmounted
  share at 2 files, two troubles: an unmount and a mount, a removal and a restoration.
- **ProviderSession.** Two tasks, two credentials (nothing tells the one stored first from the other),
  three clients, two saves, one fault: a flip of what works or a cookie file that can't be written.
- **StartUp.** Two threads, one login failure, two logouts, one password, two faults (crashes, failed
  commits, and once a spoiled logout counter or security row); two posts in batches of one, with each of
  the nine kinds of rows older versions leave. The requests come in three mixes, by what they can do to
  each other: sign-ins, logouts, passwords and whole pages; those with what else writes the security
  group; and everything that writes both groups.

`MaxCrashes`, `MaxRestarts`, `MaxTroubles`, `MaxFaults`, `MaxCalls`, `MaxEdits`, `MaxSaves`,
`MaxClients`, `MaxEpoch`, `MaxPasswords` bound counters in guards, `MaxNames` the variants of a file name;
none of them is the code's.
`CHECK_DEADLOCK FALSE` is said where a system left alone really is at rest.

### Fairness

- **Lifecycle.** `Register` and `Record` are weakly fair: the worker loop takes its next step while the
  process runs, and a run ends (each handler has network timeouts). `RetryDue` is weakly fair: the
  task runs every 60 s and selects every failed, wanted row whose time has come. `Start` is weakly fair
  in `LeftAlone` only, which assumes the queue isn't paused and the creator is switched on.
  `QueueDrains` excludes behaviours with infinitely many `auth` failures: they don't count as attempts,
  so a provider that stays signed out is retried for ever, by design. Users and scans have no fairness.
- **ScanQueue.** A call in progress goes on. The worker is strongly fair: callers on the loop disable it
  while they run, and the loop runs what is ready in turn. A worker that waits for a getter that no put
  woke has no step, so fairness doesn't wake it: with API threads `QueueMoves` says that the worker goes
  on if puts do.
- **ScanRun.** A scan's step and the restart (`restart: unless-stopped` of the container) are weakly
  fair. `StartRun("full")` is strongly fair: it assumes `full_rescan_days` is set, which is off by
  default; without it `SeenInTheEnd` isn't promised.
- **Claims.** Time passes; a claim in progress ends; some worker's query is strongly fair, since
  another's holds the lock now and then; running downloads end.
- **WorkerPool.** The loop and the threads go on; looking at the disk is strongly fair, since the 30
  seconds pass again and again.
- **DownloadFiles.** Runs go on; reserving a name, a good answer to a request and receiving a chunk are
  strongly fair, since among requests made again and again some succeed and some bring bytes.
- **Library.** Downloads, the backlog and runs in progress go on, and the file check is scheduled, which
  assumes that `verify_files_hours` is set: it is off by default, and `RowsComeToMatch` isn't promised
  without it.
- **ProviderSession.** Requests end; the scheduler checks the session every day, and a check whose
  credentials work is answered so some time.
- **StartUp.** The container restarts the process, and a start goes on until it is up.

## 4. Findings

`skip_wins` is a disagreement between the code and its own comment. A download that fails after the
user skipped its item (the cancel came too late, or was lost) overwrites the skip: `_failed`
(core/lifecycle.py:714) doesn't look at the item's status, `_cancelled` does; "A user skip wins" says
core/lifecycle.py:984.

The models also reach the situations below. They are hazards, and the properties of the passing runs
say by an explicit premise or exception that they are left out. Where a definition is named, it is in
the module and no run checks it; setting it as an invariant of the run shows the behaviour.

| Where | What happens | In the models |
| --- | --- | --- |
| core/lifecycle.py:463 | `recover_interrupted` queues the job of an item that was skipped while it ran: it is downloaded | `StoppedStaysStopped` is checked without a restart; `UserStopHolds` is about items whose job has ended |
| core/lifecycle.py:852 | a queued item that becomes `no_access` keeps its job; excluding its kind later doesn't cancel it | `MediaLifecycle!SyncPost` |
| core/lifecycle.py:800 | a sync of the post excludes again an item that the user asked for | `MediaLifecycle!SyncPost` |
| core/lifecycle.py:610 | a retry while the cancel of the same download is pending gets the dying job; the item stays stopped | `MediaLifecycle!RetryMedia` |
| core/lifecycle.py:552 | `reconcile` cancels the job of an item it leaves queued | `StartUp!QueuedHasJob` |
| downloader/manager.py:199 | a job removed between its claim's commit and its reporter's registration goes on | `MediaLifecycle!SignalCancel` |
| downloader/manager.py:97, 186 | a surplus worker that is still busy counts when the pool grows again, and then leaves: the pool stays smaller than configured until the next save | `WorkerPool!PoolIsFull` |
| downloader/manager.py:175 | the user pauses between the disk check's look at the reason and its resume: the pause is undone | `WorkerPool`, premise `~raced` |
| downloader/manager.py:212 | recording the outcome and recording the error both fail: the job is left running until the next start | `WorkerPool`, exception `lost` |
| core/lifecycle.py:360 | a restart's second start overwrites `started_at`: more starts in an hour than the limit | `Claims!LimitHolds` |
| downloader/claims.py:91 | the starts of deleted rows no longer count toward the limit | `Claims!LimitHolds` with `busy` |
| downloader/claims.py:296 | the queue page stores a next start it derived from starts read before the latest one | `Claims!GapHolds` is without `busy` |
| scanner/scan_manager.py:159 | a request made while the worker awaits admission is queued: the creator is scanned twice | `ScanQueue!OneScanPerCreator` |
| scanner/scan_manager.py:87 | a request upgraded to a full scan keeps its trigger: a full scan the user asked for is refused with the automatic request it was merged into | `FullIsKept`, exception `refused` |
| scanner/scan_manager.py:93 | a put from an API thread between `get`'s look at the queue and its getter (158) wakes nobody: the scan waits for the next put | `ScanQueue!Register`; `QueueMoves` without its premise |
| scanner/scan_manager.py:85 | two reads of `_pending` or `_current` in a thread: KeyError or AttributeError | `ScanQueue!Raise` |
| scanner/scanner.py:107 | a creator deleted during its scan whose id is used again: pages are stored under the new one | `ScanRun!DeletedStopsScan` with `MaxCreators = 2` |
| scanner/scanner.py:245 | an interrupted incremental scan leaves a gap that later incremental scans stop above | `ScanRun!NoGap`, premise `whole` |
| providers/onlyfans/provider.py:158 | a client is built from credentials that were replaced while the signing rules were awaited | `ProviderSession!ClientIsCurrent` |
| providers/patreon.py:117 | a cookie file that can't be written is left as it was: yt-dlp goes on with the old session | `ClientIsUsable`, exception `unwritten` |
| providers/onlyfans/provider.py:153 | a client there is, is handed out without a look at the credentials, also after they were removed | `ProviderSession!Ask` |
| handlers/direct.py:156 | a `.part` file of another item or version under the same name is continued | `DownloadFiles!OwnBytes`, exception `stale` |
| handlers/direct.py:188 | a 206 without a readable `Content-Range` is appended, wherever it starts | `DownloadFiles!Misplaced206`, exception `stale` |
| handlers/direct.py:234 | without a `Content-Length` (203) or a total in `Content-Range` (196) no size is compared: a body that ends early is filed as completed | `FiledIsWhole`, which asks for the whole file only if `sized` |
| downloader/metadata.py:143 | ffmpeg writes the final path in place: for a while, and after a crash, a partial file has the final name | `DownloadFiles!RemuxBegins`, exception `BeingRemuxed` of `ArchiveIsKept` |
| handlers/direct.py:108 | the name a failed remux falls back to was never reserved: it may replace an archived file | `DownloadFiles!FallBack`, exception of `ArchiveIsKept` |
| downloader/placement.py:42 | a free name is looked for on disk, not in the rows: an item may get the name of another's file that is gone, and two completed rows then share a path | `DownloadFiles!Remove`, then `Reserve`; `ArchiveIsKept` is about files that exist |
| downloader/metadata.py:91 | a download's embedding and the backlog's write the same temporary file | `Library`, premise `~clash` |
| downloader/library.py:34 | a share unmounted over a folder with files, or during the look, is taken for lost files | `Library!UnmountedIsNotMissing`; premises on `away` and `used` |
| api/auth.py:137 | two overlapping logouts: one writes the counter back, and an ended session is valid again | `Settings`, premise `~turnedBack` |
| api/settings.py:55 | a settings page from before a logout, sent back whole, writes `session_epoch` back: an ended session is valid again | `Settings!SendPage`, premise `~turnedBack` |
| core/settings_service.py:277 | a stored `session_epoch` that can't be used, or a row that isn't an object, is reset to 0: an ended session may be valid again | `StartUp!Read`, premise `~turnedBack` |
| core/lifecycle.py:570 | items that come back after `reconcile` looked keep what older rules left | `StartUp`, exception `late` |

## 5. Proofs

What is proved holds for all values of the constants that the modules' assumptions allow: any finite or
infinite sets of media, posts and workers, any attempt limit of at least one (`MaxAttemptsAssumption`;
the settings enforce it), any sizes and bounds, any number of restarts unless it says otherwise. The
assumptions give the constants' types; what they say beyond that:

- `ClaimsAssumption`: the jobs are finitely many, so that they can be counted.
- `ScanQueueAssumption`: callers and request objects are finitely many, and more objects than callers, so
  that `Fresh` finds one.
- `StartUpAssumption`: `OldStatuses` are post statuses and `Spoils` sets of fields; in a database of an
  older version a queued job's item is active or was skipped since; an upgrade from any other would
  leave a queued job whose item is done with.
- Each `None` differs from the values it is the absence of, in `ScanQueue`, `ProviderSession`,
  `DownloadFiles` and `Library` from the records too that a variable may hold in its place.

Every safety property that a passing run checks, invariant or action property, is a theorem, and so is
the refinement. Few of them are inductive as they stand; what had to be added is the argument.

**Rows, jobs and claims** (`MediaLifecycleProofs`). `TypeCorrect`, `JobsAlwaysMatchStatus`,
`AlwaysOneDownloadPerMedia`, and with no restart `StoppedIsNeverStarted`. The inductive invariant `IInv`
is `TypeOK`, `JobsMatchStatus`, `OneDownloadPerMedia` and `NoStoppedJob`. That `Record` finds a running
job needs the claims of `OneDownloadPerMedia`; that in turn needs the rules to start and end no download.
Each rule *keeps* a row (one lemma per rule); a commit in which each row is kept, or deleted with its
claim orphaned, is a step of the invariant (`KeptStep`); so each action but the workers' needs only its
rule's lemma. `Start`, `Register`, `Record` and `CrashRestart` are proved one by one.

**Refinement.** `LifecycleImplementsQueue`: initial states map to initial states, and each step to a step
of `DownloadQueue` or a stutter. A kept row moves its job only between `none` and `queued`, and neither
enters nor leaves the archive without being deleted; the workers' four actions are the abstract ones.

**Post status.** `StatusAlwaysDerived`, without a restart. That every action derives what it touched
isn't enough: `Start` derives nothing. It is right since an item with a queued job is already pending for
its post, except one that is hidden (`no_access`) with its job left; `StatusInv` says that the stored
status counts such items as it counts them when they start.

**Steps of one row.** `UserStopAlwaysHolds`, `OldPostsAlwaysWait`, `ArchivedIsAlwaysKept` are action
properties over restarts too. Each rule has a lemma on what it does to a stopped row without a job (it
stays), to a file (it is kept), and to a row that has no download, no retry and no file (it begins none,
but for `_auto_queue`, which an older post never gets to); a step then is one of those for each row.

**Buttons.** `ButtonsDoWhatTheySay` relates `item_actions` to the rules: each button a row shows does
what it says when the click comes before the row changes. It is about an item's own buttons: a post's
Download button, which isn't forced, queues no `unsupported` item.

**Cap, limit, gap** (`ClaimsProofs`). `CapAlwaysHolds`: one worker is in `next` at a time (`OneInNext`,
the lock), each candidate it found has room (`RoomLeft`), which stays true under the lock, as everything
else only ends downloads (`EndsOnly`). `LimitAlwaysHolds`: until a restart a job starts once and its row
tells when (`RowsTellStarts`), so the starts are no more than the rows counted; and a worker that was let
through still finds room (`RowsKeepLimit`). `GapAlwaysHolds` holds over restarts, which forget the next
start: a row is as new as each start there was of its job (`RowsAreNewer`), so the next start derived
from the newest row is as far from all of them (`GapKept`) as the one that was forgotten.

**Workers** (`WorkerPoolProofs`). `RunningAlwaysHasWorker`: `HandsInv` says that a claim is held from
`ClaimJob` to `Record`, by one place of the pool, whatever ends surplus workers or cuts the pool.
`PauseAlwaysHolds`: `PauseInv` says that while the user's pause stands, unless raced, no worker is in the
part of the disk check that pauses or resumes.

**Scan queue** (`ScanProofs`). `EntriesAlwaysLive`, `FullAlwaysKept`. A request object is in one place:
being put, queued, or the worker's (`Owned`), and `RoomInv` counts that there is one for each caller that
needs it. With callers in threads that is all that holds. If all are on the event loop (`OnLoop`), what a
call read is so until it writes, each queued request is the pending one of its creator, and a full scan
that was taken on is in the queue or with the worker, or admission refused it since (`OwedInv`).

**A scan** (`ScanProofs`). `NeverAnOrphanRun`, `FullAlwaysSeesAll`, `NeverAGap`, all from `RunInv`. What
was listed and isn't stored yet are the posts right below `Reached` (`ListedInv`); from there on the
source is stored, below it is as it was when the scan began (`Partial`), and the sources before it are
done (`Covered`). A full scan goes on to the last post. An incremental one stops at the overlap: there
it met a post that was stored when it began, and `whole` means that no stored post had one missing below
it then (`WholeInv`), so none is missing now. Publishing and editing only add to a source (`FeedInv`).

**Settings and start** (`StartUpProofs`). `CacheIsAlwaysStored` and `NothingIsEverWrittenBack`: the lock
covers reading the cache, the commit and the write to the cache, so what a request merged differs from
the stored settings only where it means to (`WriteInv`). `LoggedOutForGood`: a new password's hash is
nobody's yet (`KeysInv`) and the session counter only grows until something may have turned it back: a
logout or a page that will write it writes no smaller one than there is (`EpochInv`). So a key once dead
stays dead. `ResetOnlyOnce`: what was told isn't unusable any more (`ToldInv`).
`RowsAlwaysFollowTheRules`: `reconcile` has left all items by the rules when its batches begin, and
derived the posts of the batches done (`RowsInv`); no request or recovery makes an item that isn't.

**Files** (`DownloadFilesProofs`). `OneWriterAlways`, `FiledIsAlwaysWhole`, `ArchiveIsAlwaysKept`. A
download has a name from reserving it until its end (`Owns`), no two have one (`Apart`), and a step of a
download touches the files of its name only (`OthersLeaveIt`); so what is so of its files stays so while
others go on: nothing is where it will be put, and unless it continued something else its `.part` is the
beginning of one version and what it fetched is a beginning too, and the whole of it if the answer told
its size (`Placed`).

**Library** (`LibraryProofs`). `PictureIsAlwaysKept`: unless two ffmpegs wrote one file, every file on the
share, under the mount point or put away has its item's picture, and so does whatever the runs, the
backlog and the rows remember (`DiskInv`, `RowInv`, `DownloadInv`, `BacklogInv`). `ArchiveAlwaysStays`: if
nothing was removed or written while the share was away, the folder under it is empty, so the check
sees all files or takes the share for unmounted, and no run has an item to report gone (`VerifyInv`).

**Provider session** (`ProviderSessionProofs`). `ClientIsAlwaysUsable`: a client is closed by the task that
replaced it, so it isn't the one in use (`ReplacedInv`); Patreon's is of the stored credentials, or a
task that saved is yet to rebuild it, and its cookie file is the client's when it was written
(`CurrentInv`).

Only model-checked: the liveness properties (`QueueDrains`, `FailedIsRetried`, `QueueMoves`,
`SeenInTheEnd`, `QueuedStarts`, `QueuedRuns`, `GetsThere`, `RowsComeToMatch`, `WorkingIsUsed`,
`ComesUp`), because the prover has no rules for fairness. What a run refutes (`SkipWins`) isn't provable.

## 6. What could come next

In order of worth: sessions that write back what they read before another's commit (read and commit as
two steps over one row, to tell which properties of the lifecycle survive); several providers under the
one claim lock; `cancel_current` in the composition of `ScanQueue` and `ScanRun`; that `Claims` and
`WorkerPool` implement `DownloadQueue`'s taking of a job, as the lifecycle does.

## 7. Not modelled

- **Formatting and I/O without control of its own**: names and templates, sidecars, metadata tags, logs,
  response schemas, pagination, and the pages that only show state.
- **Remote services**: their answers are choices of the models. The inside of yt-dlp and ffmpeg likewise.
- **What posts say**: post parsing and the media resolver are the set of media a scan reports. Instagram,
  Reddit and YouTube appear by how they page; OnlyFans pages by time, and posts of one second at a page's
  edge (onlyfans/client.py:236) are left out.
- **Events, history, notifications**: written and never read by the program's logic. A dropped event
  (events.py:40) makes the UI stale until it reads again.
- **Stale session reads** (core/lifecycle.py:206) and reused row ids of jobs and media (db/models.py:196):
  one session is one step here. `ScanRun` does model a creator's reused id.
- **Settings**: the fields of the other groups and their ranges; **scheduler**: which creators' intervals
  have elapsed, pruning of history; **library**: `restamp_files`, which only sets file times.
- **Migrations, web UI, packaging**: generated or declarative, without state the models need.
