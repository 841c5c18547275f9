# yt-dlp-emby in TLA+

yt-dlp-emby is a web server that keeps an Emby library of YouTube and Dropout shows: it
reads the shows from YAML files, lists the providers, plans what is missing, and runs
yt-dlp in private worker processes. Its difficulty is not in any single function. It is
in long chains of legal requests over state kept in five places (YAML, SQLite, snapshot
files, season folders, index files), in workers that die between two writes, and in
decisions taken from data read some awaits ago. These modules model those chains, TLC
checks them on small instances, and TLAPS proves the main results for instances of any
size. Paths below are relative to the repository; `server/` is `src/yt_dlp_emby/server/`
and `core/` is `src/yt_dlp_emby/`.

## The system

| Component | State | Operations | Works with |
|---|---|---|---|
| Job coordinator (`server/jobs.py`) | the active task, its worker, the cancel event | start, cancel, shutdown, recover, run a job over its targets, publish results | job rows, workers, view rows, snapshots |
| Worker (`server/worker.py`) | one request, a process group | refresh, download, check, diagnostics; events on stdout; dies with its parent | coordinator (pipes), services |
| Job and view rows (`server/job_store.py`) | tables jobs, job_items, job_logs, series_views | update, retain, recover, log ring, put/attempt/invalidate a view | coordinator, routes |
| View planning (`server/views.py`) | none of its own; reads YAML, rows, snapshots | queue, plan, executable selection, re-plan after an edit, hydrate | routes, retries |
| Snapshots (`server/catalog_cache.py`) | one JSON file per show under `data/cache` | write, load, patch the inventory | coordinator, views |
| Services (`server/services.py`) | listing and Sonarr caches | refresh a target, apply its updates, plan, download what was selected, verify | worker, coordinator, routes |
| Routes (`server/app.py`) | `manifest_lock`, login hits, session | edits, jobs, retries, queue, settings, login | everything above |
| Manifests and shows (`server/manifests.py`, `series.py`, `yaml_merge.py`) | the YAML files, the user's too | write, import, create, rename, delete, merge discovered seasons | routes, refresh |
| Season synchronisation (`core/sync.py`, `pipeline.py`, `library.py`, `download.py`) | season folders, `.yt-emby.json`, staging | diff, archive, two-phase rename, recover, download, promote, save the index | worker |
| Dropout executor (`core/dropout.py`, `dropout_*.py`) | season folders, season cache | plan, skip what exists, download, report items | worker, Sonarr |
| Provider side (`core/extract.py`, `sonarr.py`, `cookies.py`, `cache.py`) | caches, breaker, cookie copies, file locks | list, look up | services, executors |
| Login (`server/auth.py`) | password file, session secret, version | setup, login, change, rate limit | routes |
| Browser (`web/src`) | queue selection, job being polled, log cursor | build a selection, submit, poll, reconcile | routes |
| Configuration, progress, NFO, artwork, CLI, diagnostics, migration | options; display state | read, format, write beside a video | all |

`PROJECT.json` lists each with what is modelled of it.

**What is hard here.** The coordinator has one event loop but suspends at every await;
`cancel()` keeps a process over sleeps of seven seconds, the readers outlive the worker,
and a refresh goes on to the next target after a failure. A crash leaves a worker whose
only trace is a pid in a row. A refresh reads a show's file three times and writes it
back from a third process; edits through the API are locked out, edits by hand and the
refresh that a GET starts are not. A selection is admitted from a cached plan and
executed by code that plans again from scratch. A season is changed file by file, with
the index saved at three points in between. `PROJECT.json` has the hazards at their
lines.

**What makes the components correct.** One job at a time, always ended, always
findable; an outcome that agrees with what the workers reported; views that say of
which configuration they are; edits never undone; downloads that mean what was
selected; libraries that converge to the listing whatever failed before and that never
lose a video on the way; caches that are no better than their source; retries that do
not repeat what is done.

## Modules

| Module | Models | Composition |
|---|---|---|
| `JobLifecycle` | what a client may rely on: one job at a time, outcomes final | abstract specification |
| `JobCoordinator` | coordinator, rows, workers, crash and recovery | implements `JobLifecycle` (`Lifecycle == INSTANCE ... WITH phase`) |
| `CatalogViews` | YAML, view row, snapshot, edits, refreshes, retries, downloads | uses the job discipline of `JobCoordinator` as one variable `job` |
| `SeasonSync` | the YouTube executor on one season folder | starts where `CatalogViews` ends: a selection admitted for execution |
| `DropoutDownload` | the Dropout executor, the recording of its items and the retry of its jobs | between `JobCoordinator`, whose workers are one step here, and `CatalogViews`, whose plan is a set of slots here |
| `EpisodePlans` | from a listing to a slot: the four mappings, the plan, the selection and the executor's own plan | refines the `made` of `CatalogViews` into rows; the files of a run are `DropoutDownload` and `SeasonSync` |
| `SeriesFiles` | the YAML files, the requests that edit them, the user's editor and the write-back of a refresh | refines the `cfg` of `CatalogViews` into files |
| `MC*` | instances for TLC | extend the above |
| `*_proofs` | inductive invariants and theorems of the module they are named for | extend it |
| `JobResults_proofs` | theorems about what `JobCoordinator` reports | extends `JobCoordinator_proofs` |
| `SeasonLibrary_proofs` | theorems about the library `SeasonSync` leaves | extends `SeasonSync_proofs` |

### JobCoordinator

An action is what the loop runs between two awaits, a step of a worker, or a fault.

- *State.* `status`, `born`, `ident` are the jobs table, which survives a crash; `kind`,
  `want`, `item`, `error` the row and item rows of the current job; `active`, `pc`,
  `idx`, `acc` the task of `_run`; `rd` what `read_stdout` collected; `call` every
  `_terminate`/`gather` under way (a cancel request per job, the runner, shutdown);
  `pipe` unread stdout; `unread` whether the worker has still to read part of its request;
  `leader`, `kids` the process groups.
- *Correspondence.* `Start`, `Cancel`, `Shutdown` are the entry points; `BeginRun`,
  `SpawnWorker`, `SpawnFails`, `SendFails`, `ReadEvent`, `Timeout`, `RejectOutput`,
  `WorkerDone`, `AbortDone` the slices of `_run` and `_run_worker`
  (`WorkerOutcome`, `Accumulate`, `RefreshStatus` are their folds of outcomes,
  `Expired` is `retain`); `Escalate`, `TerminateReturns`, `CancelReturns` are
  `_terminate` and its callers; `ReadsRequest`, `WriteItem` ... `ParentLost` are `worker.py`; `Crash`
  and `Restart` are the lifespan and `recover`.
- *Abstractions.* Time is not modelled: a deadline may pass whenever the code waits with
  one. A request is small (the pipe takes it), large (`drain()` waits until the worker has read
  some of it), or between (the rest is in the server's buffer, and `drain()` returns); which it is
  is left open. SIGINT and SIGTERM are one phase, "ask". The last two seconds after SIGKILL are
  enough for the kernel to reap. Descendants stay in the worker's group. Pids are not
  reused (the code compares start times). A client can cancel a job only after `start`
  has returned, that is, not while `pc = "created"`. SQLite does not fail.

### CatalogViews

- *State.* `cfg` is the show's configuration on disk; a configuration is where the show
  is found (`src`), the slot it is mapped to (`slot`) and whether a season the provider
  announces is listed (`seen`). `view` and `snap` are the row and the snapshot; `made`
  represents rows by the configurations they were computed from. `edit` is the request
  inside `manifest_maintenance`, `job` and `work` the active job and what its worker
  has read, `sel` its selection, `old` that of the last download that did not succeed,
  `retry` the retry request. `touched` remembers an edit by hand during the job.
- *Correspondence.* `EditBegin`, `EditWrite`, `EditSettle` are the routes that write
  YAML; `ReplanRead`, `ReplanPut` are `replan_cached`; `HandEdit` is the user's editor.
  `PostRefresh`, `QueueRefresh`, `PostDownload`, `RetryStart` admit. `Spawn`, `Locate`,
  `Revise`, `Fetch` are `refresh_target` read by read; `PublishCheck`, `ApplyUpdates`,
  `RevisePublished`, `Put`, `SonarrPut`, `WriteSnapshot`, `RefreshFails` are
  `_publish_refresh_result` await by await. `DownloadCheck`, `PlanDownload`,
  `PlaceFile` are `download_selected`; `RetryScan`, `RetryPut`, `RetrySelect` are
  `retry_job`. `Crash` may also lose the database, which is disposable.
- *Abstractions.* One show of one episode. The source signature and the context
  signature are one (`Sig`). The hash of a file is its content. The library's inventory
  is not modelled here. A view may be found older than a day at any time. The two reads
  of `executable_selection` are taken as one, and a retry of a refresh as `PostRefresh`.
  `PlaceFile` leaves the row as it is; the code puts it back with one more file in its inventory
  (`jobs.py:613-652`), which `RecordRead` and `RecordWrite` of `DropoutDownload` model.
  `RetrySelect` compares a row with where it was found; the code matches the
  execution and provider ids (`app.py:1849-1868`), which here come to the same.

### SeasonSync

- *State.* `live` is the playlist; `lib`, `tmp` the season folder's files and those with
  the rename prefix, by stem (episode number and title); `index` the saved index and
  `mem` the run's copy; `pc`, `acts`, `todo` the phase, the run's actions and those left
  in the phase; `sel` the selection, empty for a whole run; `passed` the temporary files
  the last recovery could not settle. `clean`, `orderly` are history used by the properties.
- *Correspondence.* `Plan` is `plan_sync` with the upgrades; `Admit`/`RunWhole` and
  `Begin` are `_plan_youtube_sync`, `run_youtube_manifest` and the seen-action check;
  `MoveOld`/`MoveFails` the archiving; `RecoverOne`/`RecoverFails` are
  `recover_rename_temps`, whose errors are skipped;
  `StageRename`, `LandRename` are `apply_renames`; `SaveIndex` the first save;
  `SkipOccupied`, `AdoptExisting`, `Promote`, `Commit`, `DownloadFails`, `AuthFails` the
  download loop; `Restore`, `Finish` the end. `Marks` is the "-2" of
  `_disambiguate_stem`.
- *Abstractions.* Video files only (sidecars move with them), one season and channel,
  titles fixed. That the files of a stem are found by prefix is not modelled. A listing
  numbers its videos without gaps; in the code a listing may have some
  (`extract.py:176-180`). A change of
  content and a low resolution both lead to `again`. A file operation the code does not
  guard is a `Crash`. `download_selected` admits downloads only (`services.py:1247`);
  whole runs are those of the pipeline's own callers and tests.

### DropoutDownload

- *State.* `files` are the slots with a file; `scan`, `shown`, `snap` the inventory of the
  view row, as scanned and as patched since, and that of the snapshot; `jobs` the table,
  with the chain of retries a job belongs to (`asked`) and the inventory it was admitted
  with (`base`); `worker`, `todo`, `cur`, `tell`, `bad` the process; `pipe` the results
  not yet read; `reader`, `copy` the coordinator's handling of one; `retry` the request.
  `gone`, `added` and a job's `lost` are history: what the user took or put.
- *Correspondence.* `PostDownload`, `Refresh` admit; `List`, `SkipOccupied`, `Fetch`,
  `Promote`, `Report`, `RunEnds` and their failures are `_run_dropout` and the `emit` of
  `worker.py`; `RecordRead`, `RecordWrite` are `_record_downloaded_action`, which reads
  and writes the row in a thread; `StoreItem`, `Cancel`, `JobEnds`, `Restart` are the
  coordinator; `RetryVerify` ... `RetryConflict` are `retry_job` await by await, beside
  whatever else runs, since only its last step takes the lock.
- *Abstractions.* One show whose configuration does not change; a listing has a fixed slot,
  and two may share one. Results are delivered in order or lost with the server. The
  recovery of renames before each download (`dropout.py:789`) finds nothing, since nothing in
  this executor leaves temporary names, and is left out.

### EpisodePlans

- *State.* `show` is a Dropout season (season number, remaps, `only_episodes`) or a playlist
  (season, skipped videos); `remote` what the provider lists; `lib` the files, the
  show's index and whether the disk is there; `view` rows, inventory and revision; `job` a
  selection with the view it was taken from.
- *Correspondence.* The mapping of an episode to a slot is written four times in the code
  and here: `ProviderRows` (the refresh), `Replanned` (`replan_cached`), `PageStatus`
  (`dropout_episode_rows`), `DropoutJobs`/`Resolve`/`LiveSeason` (the executors). `Plan` is
  `plan_series` with `_plan_youtube_sync`, `Needs` its dependencies, `Queue` is
  `latest_queue`; `Refresh` is any combination of the parts of `refresh_target`; `Post`,
  `Refuse`, `Execute` are `executable_selection` and `download_selected` with
  `assert_selected_actions_seen`, a run being one step.
- *Abstractions.* One season or one playlist. A file is its slot. The revision of a view is
  the configuration. The executor's listing is the provider's: on a disk cache of listings
  that is older, it is the `remote` of an earlier moment, which changes allow.
- *Precondition.* `Plain` names the configurations for which the four mappings are meant to
  agree. Outside they do not: of two remaps of one episode the refresh takes the last and
  the other three the first; an episode remapped but not in `only_episodes` is taken by
  the refresh alone; a playlist without a season keeps the season of its old rows when
  replanned. `EpisodePlans` has these configurations too (the MC module starts in
  them and edits into them); only `ReplanAgrees`, `PageAgrees` and `SelectionRuns`
  exclude them.

### SeriesFiles

- *State.* `root` is the root file of each platform (imports, inline shows, library
  setting), `child` the child files as sequences of shows; `op` the request that holds
  `manifest_lock`, with the show it found, where, and what it will write; `refresh` a
  refresh of a Dropout show, which may run beside it; `seen` the detail a page holds.
  `meddled`, `odd` and the `changes` of a refresh are history: the user's own editor was at
  work since the request found its show; the child files that the user, a crash or a raw
  edit left out of step; the writes of files since the refresh began.
- *Correspondence.* `Slugs` is the assignment of `list_series` in the order of the files,
  `Found` and `Located` are `_find_locator` and `locate_series`; `AddSource`,
  `DeleteSource`, `PutSeries`, `PutSeriesYaml`, `DeleteSeries`, `CreateSeries`,
  `PutPlatform`, `PutManifest`, `PutImport` are the requests, which find their show, and
  `Save`, `Drop`, `Unlist`, `AppendImport` their writes, file by file; `Valid` is what the
  parsers of both platforms refuse; `RefreshStart`, `RefreshRevise`, `RefreshPropose` are the
  reads of `refresh_target` (the show, its revision, the hash of its file), `RefreshCheck`
  is `_publish_refresh_result` and `RefreshApply` is `apply_refresh_updates` with its
  comparison of hash and name. A request is refused while a job runs (`Maintenance`), but
  the refresh that `GET /api/queue` starts (`app.py:1108`) looks for no lock, so
  `RefreshStart` has no such guard.
- *Abstractions.* Names, paths and URLs are members of small sets, the same for the code if
  they differ in letter case only, and `SlugOf` is `slugify`; a slug, like the stem of a file, is a
  word and the numbers after it, and `Lower` gives the word in lower case. Comments, unknown
  keys, images and the library paths of shows on disk are left out. `Save`, `Drop`, `Unlist`
  and `AppendImport` read their file and write it in one step. In the code the file is read before
  `_dump_yaml` takes its lock (`series.py:966-981`), in a thread, so that the write-back of a
  refresh may fall between the two and be written over. No property checked here tells that
  from a save a moment later, and the next refresh finds again what was dropped. `ReadAs` is the reading of a child file
  that the other platform wrote.

## Runs

| Run | Instance | Question |
|---|---|---|
| `jobs_pair` | 2 jobs, 1 item, retain 1, 1 crash | admission, retention, targets of signals, what each wait is for, refinement of `JobLifecycle` |
| `jobs_refresh` | 1 job, 2 targets, 2 events ahead, 1 crash, fairness | results, outcomes, recorded identities; the task only moves on; jobs end, every cancel is answered |
| `views` | 1 source, 2 slots, 2 writes, 2 jobs | publication, write-back, meaning of a selection |
| `season` | 3 videos, 2 of one title, 1 change, 2 faults, 1 file stuck in a recovery | index, convergence, healing, loss of files |
| `season_recovery` | the same, 2 changes, 1 fault | a docstring the code does not keep |
| `dropout` | 3 listings on 2 slots, 2 jobs, 1 fault, 1 file put or taken | items, inventory, retries |
| `dropout_retry` | the same | a sentence on retries the code does not keep |
| `series` | 3 names, 2 of one slug, 2 paths, 4 child files, 1 with capitals, 2 edits, 1 by hand, 1 crash | positions, slugs, names, imports, write-back |
| `series_readable` | a show of two playlists, 2 edits | a sentence on validation the code does not keep |
| `plans` | a season of 2 episodes with 5 lists of remaps, a playlist of 2 videos, 2 edits, 1 change | the four mappings, selections, placements |
| `plans_queue`, `plans_offline` | the same | two sentences on selections and library roots the code does not keep |

*Why the bounds are enough for the questions.* Two jobs are what it takes for a late
cancel, reader or crash of one to meet the other, and for retention to choose; with one
job the two targets of a refresh play that part. Reading two events ahead lets a result
overtake a cancel, a timeout and a protocol error. Two writes give a refresh an old, a
middle and a new configuration for its three reads, and an A-B-A; two slots distinguish
what a row means; two jobs give a publication something to be merged with or retried
over. One source suffices in `views` since sources only enter by equality, which `seen`
exercises. Three videos allow a swap and a bystander; two titles allow a collision and
its absence; one change lets a playlist move on before or between admission and
execution. Two faults are a crash and one in the run that heals it, and one file stuck keeps
a temporary name there. The properties were also checked with two changes and one
fault, and those of healing and loss with two stuck files, both halves of a swap. In `dropout` two
listings of one slot are what it takes for a sibling to fill a slot, and the third for a
run to go on after it; two jobs are a job and its retry, or two jobs between whose steps
a retry runs. In `series` two names share a slug, the third name's slug is the one
that the second show of that slug gets, and the three starting states
give a child file of two shows, two inline shows beside an import whose name is the slug of one
of them in capitals, and a child file alone, which the user may import on the other platform too while a refresh of
its show is under way; of two edits one meets the other between its reading and its
writing. In `plans` one remap
moves an episode to the other season, one onto its sibling's slot, one skips it and one
list has it twice, with and without `only_episodes`; one change between plan and run is a
listing, a file, or the disk.

*Fairness* (`FairSpec`, in `jobs_refresh`). The event loop runs what is ready
(`TaskStep`, `CancelReturns`, `ShutdownReturns`), timers expire (`Timeout`,
`Escalate`), killed groups disappear and are reported (`TerminateReturns`, `Reap`), a
worker whose parent is gone notices (`ParentLost`), and a supervisor restarts a server
that died (`Restart`). All of it is weak fairness. No worker, descendant, client or
administrator is obliged to do anything: workers may hang for ever, before they have read
their request too. `drain()` has no deadline, so `ReadsRequest` is not fair and the task
waits where `AwaitsReading` says.

*Deadlock* is checked in the runs of `JobCoordinator`, `CatalogViews` and `SeasonSync`:
they have a step left in every reachable state of their instances. The other three
may stop when the bounds on their jobs, edits and faults are used up.

### What the runs show

- `ActiveRowIffTask`: no interleaving leaves a row that blocks later jobs, nor admits two.
- `WorkerFindable`: after any crash, `recover()` can name the worker
  that may still be writing, and kills it before the first admission.
- `OwnTarget`: a cancel that still escalates never signals the next job's worker.
- `CancelWins`, `NoLateResults`, `SucceededIsComplete`: outcome and item rows agree with
  what workers reported in time.
- `OnlyDrainHangs`, `OnlyForward`: one wait of the coordinator depends on a worker, that of
  `drain()` for a large request to be read, and a cancelled job does not wait there for long:
  some call is about to kill that worker, however early or often the cancel came. No other
  depends on a worker, on what a worker started or on a client, not even the one for both
  readers after a kill, which has no deadline either. The task never goes back to a target or a
  stage it was at.
- `ActiveEnds`, `CancelAnswered`: so every job ends, unless nobody cancels it while its worker
  does not read, and every cancel is answered.
- `ImplementsLifecycle`: outcomes are final and stay readable: retention never takes the row of
  the job that has just ended.
- `EditExcludesJobs`, `AskedRefreshIsExact`, `RefreshKeepsEdits`: the lock and the hash
  together keep three separate reads consistent. `RefreshKeepsEdits` also covers the
  unlocked refresh, if its three reads agree; an A-B-A-C of edits by hand may defeat the
  hash otherwise, which is why the property says so.
- `DownloadedAsAdmitted`: a selection from any view, however stale, is executed as it was
  meant or refused.
- `LastGoodKept`: failures and invalidations keep the last good rows.
- `IndexMatchesLibrary`, `WholeRunSyncs`, `WholeRunHeals`, `HeldVideosKept`,
  `SelectedRunsOnlyAdd`: a season converges, heals, and loses no video. A temporary file
  that cannot be renamed stays, in a run that succeeds, but keeps no listed video from its
  place. A run of selected downloads changes no file of the season but recovers like any
  other: it may drop a temporary file whose name is taken, never the only copy of a video
  with a title of its own.
- `SuccessIsComplete`, `RecordedIsPlaced`, `InventoryHonest`, `NothingOverwritten`: the
  items, rows and inventories of a download never run ahead of its files, through
  crashes, retries and a user at work in the same folders.
- `ReplanAgrees`, `PageAgrees`, `SelectionRuns`, `PlacedAsAsked`: the refresh, the
  replanning of cached rows, the show's page and the executor agree on where an episode
  goes, however many edits came between, and a run fills what was selected or nothing.
- `SaveHitsItsShow`, `SlugFinds`, `NamesStayDistinct`, `ImportsAgree`,
  `RefreshLosesNothing`: a request writes the show it found although it writes by
  position (with no more than the seasons a refresh beside it has added), each listed show
  is found by its slug, but where a file's name has capitals, names stay distinct but for the shows of a child file out of step,
  files and imports agree but after a crash or a raw edit, and a refresh writes over what it
  has read. (The exception to `SlugFinds` is needed: slugs are made unique with regard to letter case and
  looked up without, so a request for an inline show `Foo` reaches that of an imported
  `Foo.yaml`, and two imports that differ so are refused as ambiguous. The run starts with such
  files.) (The exception to `NamesStayDistinct` is needed: a file that the user imports on
  both platforms may have become unreadable for one, and what a refresh writes there may make
  it readable again, with the names it has.) The last holds if the refresh read
  the revision of the show it had read, and up to two writes: three, A-B-A-C, show the
  revision check the old show and the hash the new one, as in `RefreshKeepsEdits`.

Where the code differs from its words (`findings`):

- the recovery of renames drops a video when a crash hit a swap of two videos of one title
  (a real loss, `code_bug`);
- a retry is refused when an item was placed but its report was lost, for good as far as
  the job is concerned (`code_bug`);
- adding a playlist a show has already writes a file the parser refuses, and all shows of
  the file leave the list;
- a download that depends on a removal is offered and can never run;
- a library whose disk is gone is made anew by a run, where it was mounted.

*Stated, not checked.* Eight more statements of the documentation stand in the modules as
definitions that no configuration checks, each beside the action that breaks it:
`LockKeptForDescendants`, `StoppingIsShown` and `JobsTimeOut` (`JobCoordinator`),
`OfferedRowsAreCurrent`, `SourceRefreshKeepsOthers` and `UpdatesAppliedLocked`
(`CatalogViews`) and `DeletesWhatWasSeen` and `SavesWhatItRead` (`SeriesFiles`). They are
not properties of the code: a descendant of a worker that died by itself outlives its job;
a job being stopped is shown running again; a job whose worker does not read a request
larger than the pipe has no timeout, since the deadline is set after `drain()`; a refresh of the disk alone makes rows of an
older configuration executable; a refresh of one source that announces a season drops the
other sources' rows; the refresh of `GET /api/queue` applies its update without the lock,
so that a request which read the show before drops the seasons it added; and a source is
deleted by its position, whatever is there by then. TLC finds each violated within a
minute when it is named in the module's configuration.

Every property has a mutant in `PROJECT.json`, a one-definition bug that violates it.
The mutated definitions stand in the modules beside the real ones, marked "defect" or
"Mutant of"; no specification uses them.

## Proofs

All from the assumptions declared in the modules (finite sets of jobs and videos, bounds
that are naturals, constants with distinct names), for any size of the instance.

| Theorem | Says |
|---|---|
| `JobCoordinator_proofs!TypeCorrect`, `OneActiveJob`, `BusyWorkerFindable`, `CancelHitsOwnWorker` | the invariants of `jobs_pair` but `OnlyDrainHangs`, and `WorkerFindable` |
| `JobCoordinator_proofs!Refinement` | the coordinator implements `JobLifecycle`, for any limit of the retention |
| `JobResults_proofs!CancelPrevails`, `SucceededComplete`, `ResultsInTime` | `CancelWins`, `SucceededIsComplete`, `NoLateResults`: with the next, the other safety properties of `jobs_refresh` |
| `JobResults_proofs!AllButDrainGoOn`, `TaskMovesOn` | `OnlyDrainHangs`, `OnlyForward`: the safety half of `ActiveEnds` and `CancelAnswered` |
| `CatalogViews_proofs!TypeCorrect`, `EditsExcludeJobs`, `DownloadsAsAdmitted`, `AskedRefreshExact` | the invariants of `views` |
| `CatalogViews_proofs!LastGood`, `RefreshKeeps` | its two action properties |
| `SeasonSync_proofs!TypeCorrect`, `SelectedOnlyAdd` | `TypeOK`, `SelectedRunsOnlyAdd` |
| `SeasonSync_proofs!FilesKeepTitles`, `OwnVideosStay` | files carry their videos' titles; the half of `HeldVideosKept` about titles of their own, which crashes do not weaken |
| `SeasonLibrary_proofs!HeldStay` | all of `HeldVideosKept` |
| `SeasonLibrary_proofs!IndexIsTheLibrary`, `SyncsTheLibrary`, `HealsWhatCrashesLeft` | `IndexMatchesLibrary`, `WholeRunSyncs`, `WholeRunHeals`: with the above, all the properties of `season` and `season_crashes` |
| `DropoutDownload_proofs!TypeCorrect`, `SuccessComplete`, `RecordsArePlaced`, `InventoryIsHonest`, `OverwritesNothing` | all the properties of `dropout` |
| `EpisodePlans_proofs!TypeCorrect`, `ReplanLikeRefresh`, `PageLikeQueue`, `SelectionAccepted`, `PlacedWhereAsked` | all the properties of `plans` |
| `SeriesFiles_proofs!TypeCorrect`, `ImportsMatchFiles`, `SavesHit`, `EverySlugFinds`, `NamesDistinct`, `RefreshKeepsAll` | all the properties of `series` |

*JobCoordinator.* None of the invariants is inductive alone. `Base` ties the active row
to the task (`RowFollowsTask`), `WorkerInv` ties every busy process to the row, the task
and the calls that aim at it (`ProcInv`, `CallInv`, `BusyInv`): a worker gets its request
only after its identity is recorded, the identity of a row is replaced only after the
previous worker of the job was reaped, and a call of another job aims at a group that is
gone. `BornInv` orders creation times, from which `Expired` never contains the newest
row: a counting argument on finite sets (`FiniteSetTheorems`).

*JobResults.* What a refresh has to show for itself lies in three places: the worker's
stdout, what the reader has collected, and the item rows. `StreamInv` relates them while
the runner waits, kills or drains: what is in the pipe is of the current target, an item
comes before the result, a result is the worker's last word, and an item that was said is
in the pipe or in a row. `QuietInv` and `ProtoInv` say that nothing is unread between two
workers and after a protocol error. `PastInv` carries the outcome over: as long as nothing
failed, the targets before the current one have good rows, and so has every target of a
refresh that succeeded. `AimInv` says that whoever signals aims at a worker, never at nothing.
`CancelWins` needs only `Base`, `BornInv` and that a request is not read to its end while
`drain()` waits (`UnreadInv`): it is in how `WorkerOutcome` and `RefreshStatus`
order what they look at.

`OnlyDrainHangs` takes that a group which was killed stays dead (`DeadInv`): a process that is
gone starts nothing and writes nothing, and the only process that appears is the one `_run`
creates. That one is new (`SpawnedInv`): whoever is still being signalled was created for an
earlier target or job. So when the runner's `_terminate` returns, the leader is reaped and no
descendant holds a pipe, and what is left for the readers can only shrink. `SendInv` is for the
one wait that is left: whoever set `cancelled` while `drain()` waits found a worker to stop, and
its call stops asking only by killing the worker or when the group is gone.

*CatalogViews.* `WorkInv` and `EditInv` say what a request holds at each stage; `SelInv`
that downloads have selections and are not started by the queue. `ExactInv` is the
heart: for a refresh that was asked for, with no edit by hand, every value read so far
equals the configuration in force, except for the season it proposes. It is inductive
together with `EditExcludesJobs`, since no edit can begin while the job is active, and
yields `AskedRefreshIsExact` at the publication and `RefreshKeepsEdits` at the
write-back; the other case of the latter is the hash comparison itself.

*SeasonSync.* `Meant` says that an action goes from and to names of its own video's
title; with `IndexTitled` and `FilesTitled` this is inductive through both phases of a
rename, recovery and crashes. For a video that shares its title with no other, whatever
overwrites its file is then its own file. `PhaseInv` and `SelInv` give that a selected run
has downloads only, so only `Promote` writes, into an episode without a file, and only the
recovery touches temporary files; a file that has a temporary one's name is then of its title
(`SettlesStep`).

*SeasonLibrary.* Three layers. `BaseInv` holds whatever crashed: one action per video, its
names those of the index (`PlannedInv`, `OldInv`), a whole run acts on all that is listed
or stored (`FullInv`), temporary names that did not fail in the recovery belong to the renames under way (`TempInv`), and what
is kept or fetched is in the index (`KeptInv`, `CleanInv`). `HealInv` adds, for a video with a
title of its own, that its file is under its name, under a temporary one or still to be
fetched, which gives `WholeRunHeals`. `OrderInv` holds while no crash and no failed removal
came: `PlaceInv` says in each phase exactly which stem holds which video, as a function of
index and actions; with one file per episode (`EpInv`) no rename, recovery or download lands
on a file, which gives the other half of `HeldVideosKept`, and the place of every video at
the end of a run is the index's, which gives the rest.

*DropoutDownload.* `HonestInv` says of every copy of an inventory, in a thread, a retry or
a pipe, that it holds slots with a file or slots the user emptied: so whoever writes it
back, in whatever order, hides nothing. `PlacedInv` says the same of a job's results since
its admission, `ChainInv` that a chain of retries forgets no slot its first job asked for,
and `ProgressInv` that a run without failure has placed what it has no longer to place;
together they give `SuccessIsComplete` at the end of a job.

*EpisodePlans.* `Faithful` says that the rows of a view are one for each listed episode,
whatever mapping made them, and those of a refresh if that configuration is plain; for a
playlist, that each row has a slot. It is inductive because replanning changes slots only.
`JobInv` ties a job to the cached view, which nothing changes beside it. `PageAgrees` and
`SelectionRuns` follow by comparing the mappings for a plain configuration, and
`PlacedAsAsked` from the executor's own check.

*SeriesFiles.* `StepInv` splits `ImportsAgree` by the request under way: what a creation has
written is imported nowhere, what a deletion took away is still imported by its platform
alone, and every other file is in step. It needs `OpInv`: the file of a request stays its
platform's. `Delisted` is shown to remove one member by counting positions
(`FiniteSetTheorems`). `HitInv` strengthens `SaveHitsItsShow` with the refresh beside the
request: a refresh that is there reads the show that is there now, so that its write leaves
a member of `Merged` of what the request read, `Merged` being transitive. `LossInv` counts
writes: either the file that was hashed held the show that was read, or so many writes have
come since that with one more comparison passed a third would be needed. `NameInv` is for
`NamesStayDistinct`: the name a request will write is still nobody else's when it writes
(`NamedInv`), which needs that what a refresh writes in between has names that are listed:
it has read the show that is there (`HitInv`, `BesideInv`), or its file is imported by its
platform alone (`OwnedInv`), so that no show becomes readable for the other.
`SlugFinds` holds in every state of the right types, reachable or not: of more numbers for a
name than there are slugs in `used` one is free (an injection into `used` would be too large), so
`GiveSlug` keeps the slugs `Distinct`, and with it the fold over the entries, whose members
`EntriesAre` shows to be `Listed`. Two distinct slugs that `_find_locator` does not tell apart
cannot both be in lower case, and those of names are (`AssignSlugFolded`): one is a file's name
with capitals. The folds of the community modules are functions given by
CHOOSE; that they exist, and what they are at `n`, is shown by the least number for which
it would fail (`LeastMember`), since the induction theorems cannot be instantiated here.

*Model-checked only.* Liveness: `ActiveEnds` and `CancelAnswered` rest on fairness and
ENABLED, which the prover does not handle. What of them can be said without both is proved:
in every state that waits, but for `drain()`, the guard of a step under fairness holds, written
out (`OnlyDrainHangs`), and the steps lead on, never round (`OnlyForward`). That a guard written
out is the ENABLED of its action, and that finitely many steps lead through a stage, is left
to the runs.

## Plan

1. Done: `JobLifecycle`, `JobCoordinator`, `CatalogViews`, `SeasonSync`, `DropoutDownload`,
   `EpisodePlans`, `SeriesFiles`, with proofs.
2. Done: every safety property of the passing runs is a theorem.
3. Models left, in the order of use: the log ring with the client that pages through it; a
   write of SQLite that fails in `JobCoordinator`; the login limiter.

The order follows the damage a fault can do: two workers in one library, an edit or a
video lost, a wrong download, and only then a stale page.

## Not modelled

Network requests and what providers answer (inputs of the modules); YAML comments and
formatting; paths and symlinks; cookies' contents; passwords and their hashing; artwork,
NFO and progress display; the pages of the browser; SQLite, `flock` and atomic replacement
of files, which are taken to work. Each component left out is listed in `PROJECT.json`
with the reason.

Met while reading, and left out of the modules:

- the windows of the login limiter (`server/app.py:625`), the ring of 5000 log lines and the
  staging directories that are judged by a pid (`core/download.py:71`): small state
  machines of their own, that meet nothing else modelled here;
- matching of a stem's files by the prefix of their names (`core/sync.py:149`) and of a show
  by a part of its name (the filter of the Dropout manifest takes sibling shows along);
- creating or deleting a show changes the root file's imports, and so the revision of every
  show of the platform: all its views are stale until they are refreshed. This costs
  refreshes, not correctness;
- deletion of a show leaves its snapshot under `data/cache`;
- a Dropout run that finds no episode at all does not look for the selected ones and
  succeeds (`Nothing` in `EpisodePlans`, where the job then places nothing);
- a YouTube download does not leave the queue until the next refresh, since its plan is
  made from the index and the patch after a download is of the files.
