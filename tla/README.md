# SG-ERM in TLA+

SG-ERM is a mirror for StackGres extensions: it proxies and caches packages of
upstream repositories, synchronises them on demand or on a schedule, evicts
them, and lets an administrator inspect, delete, repair and publish packages.
It is a FastAPI application in one process, on one asyncio event loop, with one
SQLite file (WAL, SQLAlchemy sessions, `expire_on_commit=False`,
`autoflush=False`) and a directory tree of package files.

There are no threads to speak of and no locks at all. Every hazard of the code
has the same shape: a handler or a task reads rows or files, awaits, and then
acts on what it has read. The modules make each stretch of code between two
awaits one action.

- [Inventory](#inventory)
- [Modules](#modules)
- [SyncTask](#synctask)
- [PackageCache](#packagecache)
- [PolicyJobs](#policyjobs)
- [IndexFile](#indexfile)
- [IndexMerge](#indexmerge)
- [CronPicker](#cronpicker)
- [Runs](#runs)
- [Proofs](#proofs)
- [Where the code and its documentation disagree](#where-the-code-and-its-documentation-disagree)
- [What is not modelled](#what-is-not-modelled)
- [Plan](#plan)

## Inventory

| Component | Source (under `src/app`) | State | Operations | What makes it correct |
|---|---|---|---|---|
| Task lifecycle | `services/sync_engine.py` 59-292, `api/sync.py` | `sync_task` rows, `_running_tasks`, one coroutine per task | `run`, `_execute`, `cancel`, trigger / cancel / poll handlers | a row is settled by its coroutine, once; a live coroutine can be found; failures are recorded |
| Sources | `api/sources.py`, `models/source.py` | `repository_source` rows, `last_sync_status` | create, update, delete | no source disappears under a running task |
| Synchronisation stages | `services/sync_engine.py` 296-887 | files, `extension_build` rows, `index.json` | fetch, filter, metadata pass, download, mark, clean up, write the index | rows and files agree afterwards; one row per package |
| Proxy | `services/proxy_engine.py`, `main.py` 367-427 | files, `.tmp` files, rows, `index.json` | package request, index request, bookkeeping | only whole packages are served; what is cached is recorded |
| Eviction | `services/cache_eviction.py` | files, rows | by disk usage, by age, by version | a row never claims a file that was evicted |
| Repository files | `api/repo_files.py` | files, rows | list, tree, delete, redownload, verify, check, repair | the same |
| Catalogue | `api/extensions.py` | publisher / extension / version / build rows, files | queries, batch deletion of extensions and builds | rows and files go together |
| Publishing | `services/publish_service.py`, `api/publish.py` | package file, `index.json`, rows, keys | sign, pack, index, record | nothing is listed before it is there; concurrent publications keep each other's entries |
| Index aggregation | `services/index_aggregator.py` | `index.json` | fetch all sources, merge by priority, write | the source with the highest priority wins; nothing is lost |
| Whitelist and filters | `api/whitelist.py`, `_get_filters`, `_collect_packages` | whitelist and policy rows | intersect, select | nothing outside the whitelist is synchronised |
| Names | `services/naming.py` | none | format and parse package names | parse inverts format |
| Scheduler | `services/scheduler.py` | APScheduler jobs | start, reload, job bodies | the jobs are those of the enabled policies |
| Health checker | `services/health_checker.py` | `consecutive_failures`, `health_status` | loop, manual check | a source is down after N failures in a row |
| Authentication | `services/auth_service.py`, `api/auth.py`, `api/tokens.py` | users, refresh and API tokens, `token_version` | login, refresh, logout, change of password, tokens | a revoked session stays revoked |
| Web interface: schedule field | `templates/sync.html` 93-108, 615-795, `static/layui_exts/cron.js` | the input, `options.cron`, the open panel | open, choose, confirm, close, save | what is chosen is what is stored, and the scheduler can run it |
| Audit, metrics, dashboard, configuration, cryptography, other pages | the rest | log rows, counters | append, aggregate, render | - |

How they interact:

- **Shared rows.** `sync_task` rows are written by the trigger handler, the
  coroutine and `delete_source`; `repository_source.last_sync_status` by the
  coroutine and the health checker; `extension_build` by the proxy, the
  synchronisation, eviction, the repository file API, the catalogue and
  publishing.
- **Shared files.** Package files are written by the proxy, the downloads of a
  synchronisation (both through a temporary file and `os.replace`), by the
  redownload and by publishing (to the final path), and removed by a failing
  pull, the cleanup of a synchronisation, eviction, deletion and batch
  deletion. `index.json` is written by index requests, synchronisations,
  aggregations and publishing; the file API of the administrator leaves it
  alone.
- **Schedules.** The form writes `sync_policy.schedule`, the policy handlers
  commit it and call `reload_jobs`, and the scheduler parses it. A policy handler
  never parses it.
- **Calls.** The scheduler calls `SyncEngine.run` and the eviction; the cancel
  handler calls `SyncEngine.cancel`, which throws `CancelledError` into the
  coroutine.

Behaviours that are hard, all of them listed with their line under "hazards" in
`PROJECT.json`: cancellations that arrive before the first step, inside an
except block, or after the success is committed; the process dying with rows in
flight; two commits for one failure; check-then-act across an await
(`delete_source`, the metadata pass, the cleanup, first requests); UPDATEs that
carry only the columns that differ from what was read; overlapping
synchronisations, which nothing prevents; commits that fail because SQLite's
write lock is held for longer than the busy timeout; refreshes after a commit that
raise although the commit stands; reloads of the jobs that
overlap; writers of `index.json` that each empty it first; a picker that writes
one input from six places.

## Modules

| Module | What it is |
|---|---|
| `TaskRow` | abstract: what a client that polls a task can see |
| `SyncTask` | the task lifecycle, the cancel and delete handlers, crashes, recoveries; implements `TaskRow` |
| `MCSyncTask` | instance of `SyncTask` for TLC |
| `SyncTaskProofs` | theorems about `SyncTask` |
| `PackageStore` | abstract: what the proxy promises a client that asks for a package |
| `PackageCache` | package files and rows with the proxy, the stages of a synchronisation, eviction and the administrator; implements `PackageStore` |
| `MCPackageCache` | instances of `PackageCache` for TLC |
| `PackageCacheProofs` | theorems about `PackageCache`: types, whole files, keys, the refinement |
| `PackageCacheSyncProofs` | theorems about what synchronisations leave behind in `PackageCache` |
| `PolicyJobs` | policies, the handlers that change them, `reload_jobs` with its loads, the jobs that fire |
| `MCPolicyJobs` | instance of `PolicyJobs` for TLC |
| `PolicyJobsProofs` | theorems about `PolicyJobs` |
| `IndexFile` | `index.json`, everything that writes it, and publishing |
| `MCIndexFile` | instance of `IndexFile` for TLC |
| `IndexFileProofs` | theorems about `IndexFile` |
| `IndexMerge` | the merge of several sources' indices, by priority |
| `MCIndexMerge` | instance of `IndexMerge` for TLC |
| `IndexMergeProofs` | theorems about `IndexMerge` |
| `CronPicker` | the schedule field of the policy form and the cron picker |
| `MCCronPicker` | instance of `CronPicker` for TLC |
| `CronPickerProofs` | theorems about `CronPicker` |

Where a definition has a mutant (a plausible bug of the same code, used to show
that a property can fail), it stands directly before the definition and its
comment says so. Mutants are not part of any specification.

`SyncTask` and `PackageCache` look at one coroutine from two sides: `SyncTask`
keeps its control (the places where it can be cancelled, fail or die) and
forgets what it does to files; `PackageCache` keeps the stages and their effect
on files and rows, and `SyncAborts` stands for every way a task can end early.

The other four follow one schedule and one file through the system.
`CronPicker` ends where a schedule is stored; `PolicyJobs` takes any schedule
and says which job comes of it. `IndexMerge` says what an aggregation makes of
the answers it got; `IndexFile` takes the sources an index was made of as its
content and says what the file holds when writers interleave.

## SyncTask

State:

| Variable | In the code |
|---|---|
| `sources` | ids of `repository_source` rows |
| `lastSync` | the committed `last_sync_status` of a source |
| `status` | the committed `sync_task.status`; "absent" without a row |
| `pc` | where the trigger handler, and then the coroutine, is suspended |
| `registry` | keys of `SyncEngine._running_tasks` |
| `cancelSent` | coroutines on which `Task.cancel()` was called and which have not been resumed since |
| `sawFailed` | what the failure handler read of the source before it committed the task row |
| `cancelRead` | cancel handlers between the status check and `SyncEngine.cancel` |
| `deleting` | delete handlers between the count and the DELETE |

A task identifier is one trigger request; each is used once, so `TaskId` bounds
the number of triggers. `Faults` selects what interferes.

The places of a coroutine are the awaits that something can be told apart at:
`created` (the coroutine object exists and has not run), `fetching` and
`working` (inside the try block, before and after the total is committed),
`completed` / `cancelled` / `failed` (after the commit of that status),
`cancelling` / `failing` (inside an except block, before its commit). A trigger
that fails after it has committed the row ends at `unstarted`. Three
facts of asyncio give `CancelArrives` its three cases: a coroutine that has not
started is closed without entering its try block, so its finally block does not
run; one inside the try block continues in `except CancelledError`; one inside
an except block leaves it at once, through the finally block.

Every commit of a task row is followed by `session.refresh`, which raises when
the row is gone, or when the database cannot be read (`RefreshRaises`, fault
"unread"): no connection in time, or a failing query. The commit stands. In
`run` the row then reads "running" and no coroutine is made (`TriggerStart`); in
the body the failure handler takes over a task whose success is stored, and
writes "failed" over it (`Finish`, `FailTask`); in an except block the coroutine
leaves it (`HandlerRaises`).

`TriggerInsert` succeeds for a source that was deleted since it was read:
`PRAGMA foreign_keys` is set once, on one connection of the pool, so most
connections do not enforce it. `TriggerRejected` is the connection that does, or
a commit that fails. The source's success is assigned after the last commit
(`Finish` therefore writes nothing). The failure handler reads the source
before it commits the task row and stores the source in a second commit, whose
UPDATE omits a status that read "failed" already (`sawFailed`), so a recovery in
between is not overwritten.

`DeleteRollback` is the IntegrityError of a source that a policy still names.
`HealthRecovers` is `run_health_check` setting `last_sync_status` to "success".
`Crash` empties memory and keeps rows; the start-up code looks at no task row.

Fairness: weak fairness for the steps of a trigger handler after its first, for
the coroutine and for the second half of the cancel handler. The event loop
resumes every coroutine whose await is over; HTTP calls carry a total timeout
and SQLite a busy timeout, so every await is over at some point. Triggers,
cancellations, deletions, recoveries and crashes are never forced.

## PackageCache

State:

| Variable | In the code |
|---|---|
| `file` | per package: nothing, a truncated file, or the whole file at its path under `repo_dir` |
| `rows` | `extension_build` in order of insertion: package, whether version and build are those the index yields, `package_path`, `cached` |
| `req`, `reply` | `handle_package_request` per request, and the content of its last answer |
| `sync` | `_execute` per task: stage, packages still to look at, downloads under way, the changes its session holds |
| `evict` | the eviction job: rows still to evict, rows whose file is gone already |
| `admin` | a deletion or a redownload |
| `repair` | `repair_consistency` |

Two abstractions carry the model. First, an UPDATE sends a column only when its
value differs from what the session read; changes therefore remember what was
read (`seen`, `path`) and `SetCached` and `Updated` leave a column alone that
had the value to write. Second, a row created from a file name
(`parse_package_name`) has other version and build columns than the row the
index yields, unless the package is in `RoundTrip`; `keyed` says which. A name
with a build number and without dashes in its parts is read back as it was
written, so its package is in `RoundTrip`; one without a build number, or with a
dash in the name of the extension, is not. The runs have packages of both kinds.

Only one redownload or deletion runs at a time, one repair and one eviction;
requests and tasks are as many as `Request` and `Task`. `MaxRows` bounds the
rows that requests and repairs create; those of a synchronisation are not
bounded by it. The packages of an instance lie in one publisher directory.
Which cached rows an eviction picks is left open, and so is which index a task
fetches and what passes its filters (constants `Index` and `Selected`).
Batch deletion of rows is not among the activities; it is what an administrator
can end a duplicated key with. `NoPath` and `NoPkg` stand for
an empty `package_path` and for no package at all; `NameType` says that no
package has these names.

`PackageStore` is the same thing for a client: a set of packages that are there,
in which others put and remove one at a time, and requests that ask, have a
missing package fetched, and are told. `there` is `OnDisk(Pkg)`, `want` the
package of a request, `missed` the requests at "pulling". A 404 after a pull is
justified by what the request has seen before it, not by the file at that
moment, which may be there by then; a 404 after a hit is justified by the
moment itself. That the framework opens the file a moment after `file_path.exists()`
is not modelled: check and answer are one step.

Fairness: a request that has been accepted and a synchronisation go on, and a
synchronisation starts again and again, because the scheduler triggers it at
every interval. Requests, evictions and administrators are never forced.

## PolicyJobs

State:

| Variable | In the code |
|---|---|
| `policies`, `row` | ids of `sync_policy` rows, and schedule and enabled of each |
| `born` | ids that were given out; SQLite gives a fresh one to each insert of a run |
| `req` | a create, update or delete request: what it read (`got`), what it asks for |
| `jobs` | the APScheduler job `sync_<id>`: its schedule |
| `load`, `seen` | each task started by `asyncio.create_task(_load())`: not yet run, or suspended after its SELECT with what it is about to add |
| `newest`, `outcome` | the task of the last `reload_jobs`, and how it ended |
| `late` | policies whose job was added by a task that a newer one had overtaken |
| `unheard` | policies whose handler ended between its commit and its reload, since the last reload |
| `fired`, `orphan` | `sync_job` of each policy; policies whose job fired without a row |

`reload_jobs` removes every job synchronously and starts a task that reads the
rows and adds the jobs again, so two of them can overlap and end in either
order. A handler is three actions: it reads its row, commits, and then refreshes
the row and reloads the jobs. The refresh raises if the row is gone, or if it
cannot be read: the change is then stored and the scheduler has not heard of it
(`unheard`), until anybody else's reload. An UPDATE carries the columns that differ from
what was read (`Written`). `_load` skips a schedule that `from_crontab` rejects.
`Restart` empties memory; the lifespan handler starts one load. Jobs at fixed
intervals (eviction, metrics) are left out: they do not depend on policies,
although a reload removes and adds them too.

Fairness: weak fairness for the steps of a load, for a handler after its first
step and for a job that has fired; the event loop resumes each of them. Requests,
jobs and restarts are never forced.

## IndexFile

State:

| Variable | In the code |
|---|---|
| `enabled` | sources with `enabled` set |
| `file`, `whole` | `repo/v2/index.json`: which sources it was made of, which own packages it lists, and whether it is one writer's complete text |
| `at`, `text` | where each writer stands, and what it writes |
| `mixed`, `accident` | writers whose writing overlapped; whether something went wrong since the last writer that was alone |
| `pack` | the file of each own package: missing, a part, or whole |
| `lost` | packages that were whole, and were removed or opened again since |
| `rows` | packages whose row is committed |

All writers open the final path with mode "w". An index request streams it from
the network on the event loop; synchronisations and aggregations write it in a
thread of the executor; publishing reads and writes it on the loop, without an
await from the package to the index (`LoopFree`), so that of the others only the
threads run meanwhile. Overlapping writes leave one of their texts or a mixture:
which, is a choice of the model, since it depends on buffer sizes and lengths. A
publication that finds a mixture or a part raises in `json.load`. Enabling and
disabling is the only change of a source that matters here; the count of the
enabled sources may fail, after which a single source is used, and the
repository of the configuration (`Upstream`) if there is none. A write that
fails (a full disk) leaves the part, like a stream that breaks.

A publication writes its package under the final path (`PackOpen`, `PackBuilt`),
also when the package has been published before. No await comes in between, but
an exception or a crash leaves a part. Later the package is a file like any
other: eviction and the administrator's deletions unlink it, a redownload opens
it (`Remove`), and a request or a redownload may fetch one of that name
(`Refetch`); its row is cleared or deleted in a commit of its own (`Forget`).
None of them touches the index. A package is published by one request at a time,
and not while it is being redownloaded.

What a publication adds is gone with the next rewrite by a synchronisation or
an aggregation, which start from the sources. That is what the code does, and no
property says otherwise.

## IndexMerge

Sources are numbered in ascending order of `priority`, the order of the query.
All are fetched first (`fetched`), and merged one by one. A value in the merged
index is the source it came from. One metadata field stands for the seven that
`_merge_into` treats alike, and a build is keyed by arch, os, flavor,
PostgreSQL version and build together, as `_target_key` does. An entry that a
source lists twice is taken once.

`_priority` is the state the properties are about: it decides whether a later
source overrides, it is stripped from publishers and extensions after each
source (and then reads 999), and it stays on versions. For versions and builds
the highest source therefore wins; for metadata it does not (see
[disagreements](#where-the-code-and-its-documentation-disagree)). A publisher's
key is replaced by that of any later source, also by an empty one; no property
is stated about it.

## CronPicker

State:

| Variable | In the code |
|---|---|
| `stored`, `sent` | `sync_policy.schedule`, and the request of the save button |
| `phase`, `input` | the form, and the value of `#policy-cron-input` |
| `cron` | `options.cron` of the picker |
| `panel` | the open panel, tab by tab: the chosen row, its numbers, its boxes |

An expression is a sequence of tokens, and a token is what the picker tells
apart in a field: the kind and the numbers ("WED" is a kind of its own, as the W
in it makes the picker read a nearest weekday). `TabContent` is
`getTabContentChildElem` (a field into the rows of a tab), `ParseTab` and
`Absorb` are `parse` (the rows back into a field; a tab that contributes nothing
keeps its old value in `options.cron`), `Render`, `Remove` and `CheckCron` the
functions of those names. `Confirm` shows the order of the three writes of the
confirm button: the page's `done` callback with five fields, `setValue` with all
of them, `remove` once more. A click travels on to the document, whose handler
closes an open panel; that is why `ClickGear` opens and closes at once, and why
`ClickSave` closes the panel after the form has been read.

A panel that is opened while the request of the form is under way is still open
when the form closes, and stays in the document. It belongs to an input that is
gone, writes to nothing, and is treated as gone (`Gone`). Not modelled: hints,
position, languages, the run button (the page does not show it). `layui_exts/cron/cron.js` is the same file but for
the path of its stylesheet. `Schedules` are what the server may hold, `Typed`
what a user types, `EditTabs` the tabs he chooses in; `MaxEdits` and `MaxSaves`
bound the visits.

## Runs

| Run | Instance | Shows |
|---|---|---|
| `SyncTask_lifecycle` | 2 tasks of 1 source, all faults, fairness | type invariant; `RegistryFindsLive`, `StatusFitsPlace`, `StuckOnlyIfInterrupted`, `FailureReachesSource`; refinement of `TaskRow`; `CoroutinesEnd`, `CancelIsRecorded`, `RunningSettles` |
| `SyncTask_cancel_settled` | cancellations only | a success is overruled by a late cancellation (violation) |
| `SyncTask_delete_running` | no faults | deletion removes a running task (violation) |
| `PackageCache_heal` | 1 package of `RoundTrip` that the index lists and the filters drop, 1 request, 1 task; failing pulls and bookkeeping, cleanup, eviction, aborts, deletion; fairness | type invariant; `ServedIsWhole`, `TurnsKeepKeys`, `SyncHeals`; refinement of `PackageStore` |
| `PackageCache_admin` | 2 packages, one of them in `RoundTrip`; one passes the filters and one is cleaned up; 1 task; aborts, deletion, redownload, repair; fairness | `SyncHeals` |
| `PackageCache_overlap` | 2 packages, 2 tasks with different indexes and filters, each removing what the other downloads; fairness | `SequentialIsExact`, `TurnsKeepKeys`, `DuplicateIsFinal` |
| `PolicyJobs_reload` | 2 policies, 2 requests, 3 loads, 1 restart; two good schedules and one of six fields | type invariant; `JobsCurrent`, `OrphansNeverStart`, `DisabledStaysDisabled`, `EventuallyScheduled` |
| `IndexFile_writers` | 2 sources and the configured one, 2 writers, 2 packages, failing writes, removals, crashes | type invariant; `StoredFirst`, `BrokenOnlyByAccident`, `PublishingKeepsOthers` |
| `IndexMerge_sources` | 3 sources with equal, ascending and very low priorities; any index of 1 publisher, 1 extension, 1 version and 2 builds, or no answer | type invariant; `NothingLost`, `TargetFromHighest`, `MetadataNotErased` |
| `IndexMerge_priority` | the same | a lower source takes over the metadata (violation) |
| `CronPicker_forms` | 5 stored schedules, 2 visits, 2 choices in the tabs of seconds, days and weekdays | type invariant; `WholeInputIsCron`, `ClosingKeepsChoices`, `OpeningKeepsFields`, `RunnableOnlyUntouchedOrMisread` |
| `CronPicker_registered` | 1 visit, 1 choice | a form saved with its picker untouched stores what the scheduler rejects (violation) |

Deadlock is not checked in any of them: tasks and requests end, and an idle
server is a legal state.

Bounds. In `SyncTask` tasks influence each other only through their source:
`delete_source` removes the rows of all, and the failure of one is what another
reads. Two tasks on one source show every such pair; tasks of different sources
share nothing. In `PackageCache` an activity touches one package at a time, and
packages meet only in the plan of a metadata pass and in the cleanup; the run
with two tasks uses two packages for that, and so does the one with an
administrator, whose repair adds a row of each kind. One request meets an
eviction, a deletion, aborts and a synchronisation, which all move its file;
that other requests do so too adds nothing that one of those does not, and the
theorems about requests hold for any number. Two rows are the smallest number
that makes a row ambiguous, which is where `scalar_one_or_none` changes its
behaviour.

In `PolicyJobs` policies share nothing but the reload, which affects all; two
show that the change of one disturbs the job of the other. Three loads are one
more than the requests, so a load is always free (`EnoughLoads`): two can be
overtaken. In `IndexFile` two writers and two packages give every pair of
writers; a third can only overlap once more. The three sets are symmetric, and
no liveness is checked with them. In `IndexMerge` a build is decided between the
version's rank and the builds' own, which two sources cannot tell apart: the
third is the one that meets a rank set by a source that does not list the build.
In `CronPicker` tabs are treated one by one; the chosen tabs are the seconds,
whose grid is the one that a user can clear to get five fields, the days and the
weekdays (last day and weekday, last week); a stored schedule has every kind of
token the server accepts, and two visits show what one leaves to the next.

What the properties mean:

- `RegistryFindsLive`: an accepted cancellation always finds its coroutine, and
  entries leak only for tasks cancelled before their first step.
- `StuckOnlyIfInterrupted`, `RunningSettles`: a row stays "running" without a
  coroutine only if the trigger failed between committing the row and making the
  coroutine (its refresh raised: "unstarted"), or the coroutine was cancelled
  before it began, was interrupted in an except block (a second cancellation, a
  failing commit), or died with the process. The exceptions are real: such a row
  stays for good, and `delete_source` then refuses for good.
- `ImplementsRow`: a client that polls sees absent, running, settled, and after
  that at most completed -> cancelled (a late cancellation), completed -> failed
  (the refresh after the commit raised) or the row removed; a removed row never
  comes back.
- `FailureReachesSource`: two commits, and yet a task that failed by itself has
  told its source, unless a recovery has overwritten it.
- `ServedIsWhole`: no truncated package leaves the server.
- `ImplementsStore`: a client gets a package only while the whole of it is there,
  and a 404 only if it was missing at some moment between question and answer.
  That is what a store with one atomic look would promise, although the file is
  looked at up to three times with awaits in between, and pulls of other
  requests place and remove it meanwhile. A redownload breaks it.
- `TurnsKeepKeys`, `DuplicateIsFinal`: a synchronisation finds one row for a
  package as long as those that insert rows (requests, synchronisations, repairs)
  take turns; if a file name gives the key of an index, as the usual names do,
  nobody may evict or repair either (`Calm`), because an eviction clears the path
  by which a request looks for its row, and a repair looks at marked rows only.
  Once there are two rows, every task whose index lists the package fails in its
  first pass, and no synchronisation, request, eviction or repair ever removes
  one of them.
- `SyncHeals`: whatever mixture of half-done work the others leave behind, if
  only synchronisations go on, then from some point on, between runs, every
  package of the index has a row with its path and the right mark. The one thing
  they cannot repair is a key with two rows, which the property excepts
  (`Duplicated`): with names of `RoundTrip` it takes two first requests at once,
  one that overlaps a synchronisation, a request after an eviction, or a repair
  during a download to get there.
- `SequentialIsExact`: synchronisations that take turns, even of several
  sources whose cleanups remove each other's packages, never leave a row that
  claims a missing file (`CachedIsOnDisk`). The premise is needed: overlapping
  ones do (one commits a mark for a file that the other has removed since, and
  the other has finished). It does not hold with requests, evictions,
  administrators or aborts either; that is what `SyncHeals` is for.
- `JobsCurrent`: once no handler is between its commit and its reload and the
  newest load is through, jobs and rows agree, except where an overtaken load
  added a job late, or where a handler failed between the two (`unheard`). Both
  exceptions are real: such a job has an old schedule, belongs to a policy that
  was deleted, or is not there at all, until the next reload.
- `OrphansNeverStart`: such a job does no harm, as `sync_job` reads the policy
  again.
- `DisabledStaysDisabled`: an update that was read before a policy was disabled
  does not enable it again.
- `EventuallyScheduled`: a policy that stays enabled with a schedule that can be
  parsed has a job in the end, unless the last load failed, or the handler that
  changed it did before it reloaded; nobody notices either, and nothing repeats
  the reload.
- `StoredFirst`: publishing is three steps that can each fail; a package has
  been complete before the index or a row names it. It may be missing later, or
  be there in part: if somebody removed it, or opened it again to publish or
  fetch it. Nothing else does that.
- `PublishingKeepsOthers`: publications rewrite the whole file from what they
  have read and do not lose each other's entries, because none suspends between
  reading and opening it.
- `BrokenOnlyByAccident`: a part of an index stays only after a broken stream, a
  failing write, a crash or overlapping writers. It is then served as it is until
  a writer that is alone replaces it.
- `NothingLost`, `TargetFromHighest`, `MetadataNotErased`: what the merged index
  says of builds and descriptions, in terms of the sources that answered.
- `WholeInputIsCron`: input and `options.cron`, written at different places,
  agree, with a panel open or not, as long as every tab has a value. If one has
  none, the input has fewer fields and the rest of them stand one place off.
- `ClosingKeepsChoices`, `OpeningKeepsFields`: closing a panel loses no choice,
  opening it changes no field that the picker can represent (others it does:
  "0-30/5" loses its end and its step).
- `RunnableOnlyUntouchedOrMisread`: after the picker has arrived, a user who
  leaves the seconds alone stores a schedule that the scheduler rejects, or one it
  accepts by accident with a tab missing and the fields read one place off: where
  the minutes belong it then reads the seconds, which the picker has at 0 (or at
  the first field of a stored schedule of three fields, which the picker takes
  for the seconds). A tab is missing when its grid is empty, or when its field is
  one the picker misreads, like "WED". A user who clears the grid of the seconds
  takes that field out, and stores the five fields the picker shows. A schedule
  also survives if it is saved before the picker has arrived.

## Proofs

TLAPS proves the following for every value of the constants that satisfies the
named ASSUMEs of the modules: any sets of tasks, packages, policies and
requests, any assignment of sources and indexes, any combination of faults and
activities, any bounds.

`SyncTaskProofs`:

- `Typing`.
- `NeverStuckUninterrupted` and `FailureVisible` from the inductive invariant
  `IInv` = `TypeOK`, `StatusFitsPlace`, `SourceTold`, `FailureReachesSource`.
  `StuckOnlyIfInterrupted` is not inductive: that a coroutine which has ended by
  itself has settled its row depends on the row at the places before, which
  `StatusFitsPlace` lists. `FailureReachesSource` needs `StatusFitsPlace` (a row
  says "failed" only at and after the place "failed") and `SourceTold` (a source
  that was seen failed is never "never" again, and only a recovery says
  "success").
- `StatusFits`: `StatusFitsPlace`, from the same invariant.
- `CancelFindsLive`: `RegistryFindsLive` is inductive with `TypeOK`.
- `Refinement`: `Spec => ImplementsRow` with the mapping `RowOf`. Each step
  changes one row as `TaskRow` allows (`OneRowStep`) or makes several vanish
  (`ManyRowsStep`, deletion and crash). `IInv` is needed because `Complete` and
  the except blocks write unconditionally: only where the coroutine stands says
  that the row was running.

`PackageCacheProofs`:

- `Typing`, from `TInv`: `TypeOK`, plans are finite, a request that is under
  way has a package.
- `NothingTruncated`: if "redownload" is not an activity, `Spec =>
  []ServedIsWhole`, from `AllWhole` (no file is truncated): all other writers
  replace a file in one step. The assumption is needed: a redownload truncates
  the final path and a request in between serves what is there.
- `KeysAreUnique`: `TurnsKeepKeys`, with no assumption on names, tasks or
  activities; its premise `[]TakeTurns` is part of the property. The strengthening
  `KeyInv` says that the changes a session holds name different packages and that
  a package it plans to insert has no keyed row yet (`PlanSound`), that the same
  is so for a request about to insert (`NewToTable`), and that where names give
  keys every row has its path (`PathsKept`), so that who looks by path finds what
  was made by key. The first stays true because nobody inserts while a session
  holds changes; the last is what `Calm` is needed for.
- `StoreRefinement`: if "redownload" is not an activity, `Spec =>
  ImplementsStore`. The mapping needs three facts of a state (`Servable`): types,
  `AllWhole` (or a truncated file would be in the store and answered), and
  `IdleAsksNothing` (a request starts from no package). `ServedStep` goes through
  the steps of a request, `AskStep` through its arrival, and `FileStep` covers
  everybody else: each of their steps changes at most one file.

`PackageCacheSyncProofs`:

- `SequentialExact`: `SequentialIsExact`, if "sync" is the only activity, which is
  what the property is about; the run has the same. `[]OneAtATime` is a premise
  of the property itself. `ExactInv` says that every row has the path and the key
  of its package and no two rows one package (`RowsOfIndex`), that a mark without
  its file belongs to the package whose file the one running task has just
  removed (`MarksAreTrue`), and what the changes held by a session still say of
  their rows (`PlanExact`): that a change was true when it was made is not
  enough, it must be true when it is committed. `FlushIsExact` is the commit of
  such a plan, `UncacheIsExact` the clearing of one mark.
- `DuplicateStays`, `DuplicateBlocks`: the safety part of `DuplicateIsFinal`, for
  every mix of activities. No step removes a row or takes the key from one
  (`StepKeysStay`), so two rows for a key stay (`Twice`). Inductive is `Blocked`:
  the task is idle or its first pass still has that package before it, for the
  pass cannot end without looking at it and the look raises.
- `UndisturbedHeals`: the safety part of `SyncHeals`, from any reachable state and
  without fairness: if from some moment before its second pass only the task
  itself moves, then whenever it completes, `Agrees` holds of its index.
  Inductive is `SecondPass`: each package of the index is still to be looked at,
  is being looked at, or has a change in the plan that is true of file and row
  (`TrueNow`). `SetToSeqOnto` and `InsertedOnto` say that the commit forgets none
  of the rows to insert.

`PolicyJobsProofs`:

- `Typing`; the jobs have only schedules that can be parsed.
- `OrphansInVain` from `OInv`: an id that was not given out, or is being created,
  is `Fresh` (no row, no job, no load about to add one, nothing fired), two
  creations never have the same id, and the policies of `orphan` have no row. So
  the row of an orphan does not come back.
- `DisabledStays`: a row is enabled only by an update; `OInv` is needed for the
  rows that a creation inserts.
- `JobsAreCurrent` from `JInv`: what the newest load has read is `Wanted` for
  every policy that no handler has committed since without reloading
  (`Unfollowed`), and until it ends every job that is there is `late`.

`IndexFileProofs`:

- `Typing`.
- `StoredIsFirst` from `SInv`: what an actor is about to write names only packages
  that have been complete (`Published`), and so does a publication after its
  packing. No step makes `Published` smaller: who unlinks or opens a whole file
  puts the package into `lost`.
- `OthersKept` from `KInv`: at most one publication holds the loop, writers on
  the loop or in threads write no own packages, and what a publication has read
  covers what is in the file.
- `AccidentsOnly` from `BInv`: whoever fills the file together with another is
  in `mixed`, and `mixed` is empty unless an accident was noted.

`IndexMergeProofs`, for any number of sources, ascending priorities and
indices:

- `Typing`, from `MInv`; `MergeOne` says what one source does to one extension.
- `EveryBuildListed`, `HighestTarget`, `DescriptionsKept` from `IInv`. The rank
  of a version is what lets a build win or lose, so `TargetFromHighest` needs
  `VersionsRanked` (a version ranks no lower than any source that gives it);
  that a build which does not win keeps a source of sufficient rank is where the
  ascending order of the sources is used. A description can be lost to the first
  source only if the extension was unknown, hence `NamesHeard`.

`CronPickerProofs`:

- `TypeCorrect`, `InputIsCron` and `RunnableIsMisread` from `PickerInv` = `TypeOK`,
  `WholeInputIsCron`, `LoadingIsStored` (the form shows the stored schedule until
  its picker has arrived), `SecondsUntouched` (until the user has chosen in the
  panel, or if he never chooses seconds, they are the page's 0 or the picker's
  "*", in `options.cron` and in the panel) and `LedBySeconds` (the input starts
  with the seconds, or is what the picker joins when they contribute nothing).
  `RunnableIsMisread` uses the last three. None is inductive alone: that
  a confirmation keeps the first field needs a picker whose types are right and
  whose input and `options.cron` are in step, which is `WholeInputIsCron`. The
lemmas say what the operators do to any expression: `JoinedFacts` and
  `EqualLengths` (a tab without a value contributes no field, so equal lengths
  mean that none is missing), `TabContentType`, `ParseTabType` and `RoundTrip` (a
  field the picker can represent is read and written back unchanged),
  `AbsorbFacts`, `CheckCronSound` (a confirmation keeps types, input and cron in
  step, and unedited seconds), `InitPickerFacts`.
- `OpeningKeeps`: `OpeningKeepsFields`, from `RoundTrip` and the same invariant.
- `ClosingKeeps`: `ClosingKeepsChoices`, as the result of `Remove` depends on the
  panel alone where the panel says something. `PanelShape` (an open panel has all
  tabs) excludes that a choice closes it.

The assumptions on constants are those of the modules and evaluated by the runs:
schedules are sequences of tokens and typed numbers are integers
(`PickerAssumption`), indexes and selections are sets of packages, `NameType`.

Only model-checked is liveness, which is out of the prover's reach:
`CoroutinesEnd`, `CancelIsRecorded`, `RunningSettles`, `EventuallyScheduled`,
`SyncHeals`, `DuplicateIsFinal`. What safety there is in the last two is proved
above; left to the runs is that the tasks get there (fairness, and that an
overlapped task leaves its first pass at all). What the safety of
`EventuallyScheduled` needs is `JobsAreCurrent`. The disagreements below are
counterexamples of TLC.

## Where the code and its documentation disagree

With a run (`findings` in `PROJECT.json`):

1. `docs/sync.md:170` says a completed task cannot be cancelled; a cancellation
   that was accepted while it ran overrules the success.
2. The docstring of `delete_source` says it refuses while a task runs; the count
   is taken before an await.
3. The comment at `sync.html:93` says that schedules of five and of seven fields
   are converted into each other, and `docs/sync.md:391` that jobs are registered
   by their schedule. The picker writes the seven fields it was given into the input
   as soon as it starts (`cron.js:183`), so a form that is saved with the picker
   untouched stores seven, of which the scheduler makes no job. Fields are
   converted back only when a choice is confirmed, and what that callback writes
   is overwritten by the two writes after it.
4. The docstring of the merge (`index_aggregator.py:126`) says that the metadata
   of the source with the higher priority win. The priority of an entry is
   stripped after each source, so of the later sources
   that give a field and whose priority is at most 999 the last one wins.

Without a run:

- The comment at `sync_engine.py:237` says the source status is updated; success
  is assigned after the last commit and never stored.
- The comment at `proxy_engine.py:172` says an incomplete file is removed; what is
  at the final path is somebody's whole file.
- `docs/sync.md:339` says the cleanup removes what upstream has removed; it removes
  everything that did not pass the filters.
- `scalar_one_or_none` at `sync_engine.py:699` relies on one row per key, which
  overlapping tasks break (`DuplicateIsFinal` says what follows).
- `sync.html:654` tells the user to click the input or the gear; the gear opens
  the panel and closes it with the same click (`cron.js:752-758`).
- The Enter key is to confirm (`cron.js:761`); it compares with a field that is
  never set, so it does nothing.
- `sync.html:817` says that deleting a policy removes its job; a load that was
  overtaken can add it again (`late` in `PolicyJobs`).
- `api/sync.py:176` answers "the task may be finished or not exist" also for a
  row that reads "running" and has lost its coroutine.
- `database.py:59` says foreign keys are enforced; the pragma reaches one
  connection, so rows can name a deleted source.
- The docstring of `_cleanup_removed_packages` says only the publishers of the
  source are cleaned; the code cleans every publisher that is not custom.
- `repair_consistency` says it creates rows for files without one
  (`repo_files.py:489`); it compares with cached rows only, and a synchronisation
  marks its rows last, so a repair in between makes a second row for each file
  that has arrived.
- `_mark_cached` says it creates rows where there are none
  (`proxy_engine.py:304`); it looks by the path, which an eviction clears
  (`cache_eviction.py:93`), so a package that is evicted and requested again gets
  a second row.
- Two first requests for a package create two rows with one path, after which
  the bookkeeping of that package fails silently.
- `docs/whitelist.md:140` says an empty whitelist refuses everything; an empty
  intersection selects everything.

## What is not modelled

Pages other than the policy form, and vendored scripts; the audit log, metrics and
dashboard (append-only or read-only); cryptography (library calls);
configuration, logging and response formatting; migrations, manifests and
scripts. The CRUD of sources writes single rows. A dry run is a
run of `SyncTask` whose body does nothing. Sizes, access times, digests and
progress events are left out because no property depends on them. Several
processes on one database are not supported by the deployment (one replica) and
not modelled. What else is missing is open, with its modules named below.

## Plan

Done: `SyncTask` with `TaskRow`, `PackageCache`, `PolicyJobs`, `IndexFile`,
`IndexMerge`, `CronPicker`. Open, in order of weight:

1. Batch deletion in `PackageCache`: rows that disappear under a session
   (StaleDataError), with the task failing. `EvictionPolicy`: which rows are
   chosen, against the counts and ages the code compares.
2. `Filters` (whitelist against policy) and `Naming` (parse against format): pure
   functions, compared with reference definitions.
3. `HealthCheck`: the failure counter under the loop and the manual check.
4. `Sessions`: login, refresh, logout, change of password.
5. Composition of the stages of `PackageCache` with the places of `SyncTask`, and
   of `CronPicker` with `PolicyJobs`.

Theorems: every safety property of the passing runs is proved. Open are results
about the parts above once they are modelled, what evictions and repairs do to
keys where names give them, and the composition of `SyncTask` with
`PackageCache`.
