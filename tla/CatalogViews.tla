---------------------------- MODULE CatalogViews ----------------------------
(***************************************************************************)
(* The cached view of one show: the row of series_views it is planned      *)
(* from, the snapshot file that outlives the database, and everything that *)
(* writes them while the show's configuration changes: edits through the   *)
(* API (under manifest_lock), edits of the YAML by hand, refreshes (which  *)
(* read the configuration in a worker and are published by the             *)
(* coordinator), retries, and the downloads admitted from the view.        *)
(*                                                                         *)
(* A show is one mapped episode: its configuration says where it is found  *)
(* (src), which slot of the library it goes to (slot), and whether the     *)
(* season that the provider may announce is listed in it (seen).  Rows of  *)
(* a view are represented by the configurations they were computed from.   *)
(* JobCoordinator has the details of a job's life; here a job is its       *)
(* effects on views and the configuration.                                 *)
(***************************************************************************)
EXTENDS Naturals, FiniteSets

CONSTANTS
  Sources, Slots,
  MaxWrites,   \* bound on the edits of the configuration
  MaxJobs,     \* bound on the jobs started
  None,        \* absent row, file, job, ...
  Absent       \* the configuration of a show that is not there

ASSUME BoundsAssumption == MaxWrites \in Nat /\ MaxJobs \in Nat

Configs == [src : Sources, slot : Slots, seen : BOOLEAN]
ASSUME ConfigsAssumption == None # Absent /\ None \notin Configs /\ Absent \notin Configs

Unseen == {c \in Configs : ~c.seen}
Found == Configs \cup {Absent}
Sig(c) == [src |-> c.src, seen |-> c.seen]     \* source_signature
Place(c) == [src |-> c.src, slot |-> c.slot]   \* what a file in the library came from, and where it is

(* A row of series_views.  rev: config_revision; made: the configurations  *)
(* its provider rows were computed from; good: last_success_at is set.     *)
Views == [rev : Configs \cup {None}, made : SUBSET Configs,
          sig : [src : Sources, seen : BOOLEAN] \cup {None},
          whole : BOOLEAN, fresh : {"ready", "stale", "unavailable"}, good : BOOLEAN]

Ready(rev, made, sig, whole) ==
  [rev |-> rev, made |-> made, sig |-> sig, whole |-> whole, fresh |-> "ready", good |-> TRUE]

Unavailable == [rev |-> None, made |-> {}, sig |-> None, whole |-> FALSE,
                fresh |-> "unavailable", good |-> FALSE]

VARIABLES
  cfg,      \* the show's configuration on disk
  writes,   \* how often it was written by an administrator
  view,     \* the row of series_views, None without one
  snap,     \* the snapshot under data/cache
  edit,     \* the request inside manifest_maintenance
  job,      \* the active job
  jobs,     \* how many jobs were started
  work,     \* what the worker of a refresh has read, and the coordinator made of it
  sel,      \* the selection a download was admitted with
  old,      \* the selection of the last download that did not succeed
  retry,    \* the retry request under way
  touched   \* the YAML was edited by hand since the job was admitted

viewVars == <<view, snap>>
jobVars == <<job, jobs, work, sel>>
vars == <<cfg, writes, viewVars, edit, jobVars, old, retry, touched>>

EditKinds == {"manifest", "series", "create", "delete"}
PartSets == {"all", "listings", "disk", "sonarr"}
RefreshStages == {"queued", "started", "located", "revised", "fetched", "checked", "applied",
                  "ready", "published"}
Edits == [kind : EditKinds, to : Found, stage : {"write", "settle", "put"},
          base : Views \cup {None}, series : Found \cup {None}]
Jobs == [kind : {"refresh", "download"}, by : {"post", "queue", "retry"},
         parts : PartSets, scope : {"show", "source"},
         expect : Configs \cup {None}, stage : RefreshStages]
Selections == [row : Configs, view : Views]
Retries == [stage : {"scanned", "put", "selected"}, sel : Selections \cup {None}]
Works == [cached : Views \cup {None}, series : Configs \cup {None}, rev : Configs \cup {None},
          hash : Found \cup {None}, found : BOOLEAN, view : Views \cup {None}]
ASSUME NoneAssumption ==
  None \notin Views /\ None \notin Edits /\ None \notin Jobs /\ None \notin Selections
  /\ None \notin Retries

FreshWork == [cached |-> None, series |-> None, rev |-> None, hash |-> None, found |-> FALSE,
              view |-> None]

CfgType == cfg \in Found /\ writes \in 0..MaxWrites /\ touched \in BOOLEAN
ViewType == view \in Views \cup {None} /\ snap \in Views \cup {None}
EditType == edit \in Edits \cup {None}
JobType == job \in Jobs \cup {None} /\ jobs \in 0..MaxJobs
WorkType == work \in Works
SelType == sel \in Selections \cup {None} /\ old \in Selections \cup {None}
RetryType == retry \in Retries \cup {None}

TypeOK == /\ CfgType /\ ViewType /\ EditType /\ JobType
          /\ WorkType /\ SelType /\ RetryType

Init ==
  /\ cfg \in Found
  /\ writes = 0
  /\ view = None
  /\ snap \in {None} \cup {Ready(c, {c}, Sig(c), TRUE) : c \in Unseen}
  /\ edit = None
  /\ job = None /\ jobs = 0 /\ work = FreshWork /\ sel = None
  /\ old = None /\ retry = None
  /\ touched = FALSE

-----------------------------------------------------------------------------
(***************************************************************************)
(* The store's updates of a row, and what readers make of it.              *)
(***************************************************************************)
ShowAssumed == TRUE          \* defect: a show that was deleted is not missed
ShowFound == cfg # Absent    \* locate_series

HasRows(v) == v # None /\ v.rev # None

Forgotten(v) == Unavailable   \* defect: a failed attempt replaces the row

(* record_view_attempt: the row keeps its inputs.                          *)
Attempted(v) ==
  IF v = None THEN Unavailable
  ELSE [v EXCEPT !.fresh = IF v.good THEN "stale" ELSE "unavailable"]

(* invalidate_platform, invalidate_all.                                    *)
Invalidated(v) == IF v = None THEN None ELSE [v EXCEPT !.fresh = "stale"]

(* latest_plan counts a view as current: its actions can be selected.      *)
Offered(v) ==
  /\ ShowFound /\ HasRows(v) /\ v.rev = cfg
  /\ v.fresh = "ready" \/ (v.good /\ v.sig = Sig(cfg))

-----------------------------------------------------------------------------
(***************************************************************************)
(* Edits.  manifest_maintenance takes manifest_lock and refuses when a job *)
(* is active; the file is written, and the view settled, in other threads  *)
(* while the event loop serves other requests.                             *)
(***************************************************************************)
MaintenanceUnchecked == edit = None    \* defect: active jobs are not looked at
Maintenance == edit = None /\ job = None

EditBegin(kind, to) ==
  /\ Maintenance
  /\ writes < MaxWrites
  /\ kind = "delete" => to = Absent
  /\ kind \in {"series", "create"} => to # Absent
  /\ edit' = [kind |-> kind, to |-> to, stage |-> "write", base |-> None, series |-> None]
  /\ UNCHANGED <<cfg, writes, viewVars, jobVars, old, retry, touched>>

EditWrite ==
  /\ edit # None /\ edit.stage = "write"
  /\ edit.kind \in {"series", "delete"} => ShowFound
  /\ edit.kind = "create" => ~ShowFound
  /\ writes < MaxWrites
  /\ cfg' = edit.to
  /\ writes' = writes + 1
  /\ edit' = IF edit.kind = "create" THEN None ELSE [edit EXCEPT !.stage = "settle"]
  /\ UNCHANGED <<viewVars, jobVars, old, retry, touched>>

(* put_manifest, put_config, put_platform, ... mark every view of the      *)
(* platform stale; a deleted show's row is deleted, its snapshot is not.   *)
EditSettle ==
  /\ edit # None /\ edit.stage = "settle" /\ edit.kind # "series"
  /\ view' = IF edit.kind = "delete" THEN None ELSE Invalidated(view)
  /\ edit' = None
  /\ UNCHANGED <<cfg, writes, snap, jobVars, old, retry, touched>>

(* replan_cached, up to the last reads: only a ready view of the same      *)
(* sources is mapped again.                                                *)
Remappable == ShowFound /\ HasRows(view) /\ view.fresh = "ready"

ReplanRead ==
  /\ edit # None /\ edit.stage = "settle" /\ edit.kind = "series"
  /\ \/ /\ ~Remappable
        /\ edit' = None /\ UNCHANGED view
     \/ /\ Remappable /\ view.sig # Sig(cfg)
        /\ edit' = None /\ view' = Attempted(view)
     \/ /\ Remappable /\ view.sig = Sig(cfg)
        /\ edit' = [edit EXCEPT !.stage = "put", !.base = view, !.series = cfg]
        /\ UNCHANGED view
  /\ UNCHANGED <<cfg, writes, snap, jobVars, old, retry, touched>>

ReplanPut ==
  /\ edit # None /\ edit.stage = "put"
  /\ edit' = None
  /\ \/ ~ShowFound /\ UNCHANGED view
     \/ /\ ShowFound
        /\ view' = [edit.base EXCEPT !.rev = cfg,
                                     !.made = IF @ = {} THEN {} ELSE {edit.series}]
  /\ UNCHANGED <<cfg, writes, snap, jobVars, old, retry, touched>>

(* A request is refused as invalid, or a write or what follows it raises.  *)
EditFails ==
  /\ edit # None
  /\ edit' = None
  /\ UNCHANGED <<cfg, writes, viewVars, jobVars, old, retry, touched>>

(* The YAML files are the user's to edit.                                  *)
HandEdit(to) ==
  /\ writes < MaxWrites
  /\ to # cfg
  /\ cfg' = to
  /\ writes' = writes + 1
  /\ touched' = (job # None)
  /\ UNCHANGED <<viewVars, edit, jobVars, old, retry>>

-----------------------------------------------------------------------------
(***************************************************************************)
(* Admission.  post_job and the last step of a retry hold manifest_lock;   *)
(* the refresh that GET /api/queue starts does not.                        *)
(***************************************************************************)
Begin(kind, by, parts, scope, expect) ==
  /\ job = None /\ jobs < MaxJobs
  /\ jobs' = jobs + 1
  /\ job' = [kind |-> kind, by |-> by, parts |-> parts, scope |-> scope,
             expect |-> expect, stage |-> "queued"]
  /\ work' = FreshWork
  /\ touched' = FALSE

PostRefresh(parts, scope, expect) ==
  /\ edit = None
  /\ expect \in {None, cfg} \ {Absent}
  /\ Begin("refresh", "post", parts, scope, expect)
  /\ sel' = None
  /\ UNCHANGED <<cfg, writes, viewVars, edit, old, retry>>

(* Some view is stale: not current, or older than a day.                   *)
QueueRefresh ==
  /\ ShowFound
  /\ Begin("refresh", "queue", "all", "show", None)
  /\ sel' = None
  /\ UNCHANGED <<cfg, writes, viewVars, edit, old, retry>>

PostDownload(row) ==
  /\ edit = None
  /\ Offered(view) /\ row \in view.made
  /\ Begin("download", "post", "all", "show", None)
  /\ sel' = [row |-> row, view |-> view]
  /\ UNCHANGED <<cfg, writes, viewVars, edit, old, retry>>

(* GET /api/queue and /api/series load the snapshot of a show without row. *)
Hydrate ==
  /\ view = None /\ snap # None
  /\ view' = snap
  /\ UNCHANGED <<cfg, writes, snap, edit, jobVars, old, retry, touched>>

-----------------------------------------------------------------------------
(***************************************************************************)
(* A refresh: refresh_target in the worker.  It reads the configuration    *)
(* once for the show, once for its revision and once for the hash of the   *)
(* file it proposes to change.                                             *)
(***************************************************************************)
At(kind, stage) == job # None /\ job.kind = kind /\ job.stage = stage
Lists == job.parts \in {"all", "listings"}
To(stage) == job' = [job EXCEPT !.stage = stage]
NoJob == job' = None /\ work' = FreshWork /\ sel' = None
JobUnchanged == UNCHANGED <<cfg, writes, jobs, edit, old, retry, touched>>

(* _run_worker reads the cached view the worker is given.                  *)
Spawn ==
  /\ At("refresh", "queued")
  /\ To("started")
  /\ work' = [work EXCEPT !.cached = IF job.parts = "all" THEN None ELSE view]
  /\ UNCHANGED <<viewVars, sel>> /\ JobUnchanged

Locate ==
  /\ At("refresh", "started") /\ ShowFound
  /\ To("located")
  /\ work' = [work EXCEPT !.series = cfg]
  /\ UNCHANGED <<viewVars, sel>> /\ JobUnchanged

Revise ==
  /\ At("refresh", "located") /\ ShowFound
  /\ job.expect \in {None, cfg}
  /\ To("revised")
  /\ work' = [work EXCEPT !.rev = cfg]
  /\ UNCHANGED <<viewVars, sel>> /\ JobUnchanged

(* The library is scanned and the provider asked, or the cached part is    *)
(* taken over; a source may announce a season the configuration lacks.     *)
Fetch(found) ==
  LET series == IF found THEN [work.series EXCEPT !.seen = TRUE] ELSE work.series
      cached == IF HasRows(work.cached) THEN work.cached ELSE Unavailable
  IN
  /\ At("refresh", "revised") /\ job.parts # "sonarr"
  /\ found => Lists /\ ~work.series.seen
  /\ job.parts = "listings" => HasRows(work.cached)
  /\ To("fetched")
  /\ work' = [FreshWork EXCEPT
       !.series = series, !.found = found,
       !.hash = IF found THEN cfg ELSE None,
       !.view = Ready(work.rev,
                      IF Lists THEN {series} ELSE cached.made,
                      Sig(series),
                      IF Lists THEN job.scope = "show" ELSE cached.whole)]
  /\ UNCHANGED <<viewVars, sel>> /\ JobUnchanged

-----------------------------------------------------------------------------
(***************************************************************************)
(* Its publication: _publish_refresh_result in the coordinator, which      *)
(* awaits a thread for every look at the configuration.                    *)
(***************************************************************************)
LiveRevision(v) == v.rev = cfg

PublishCheck ==
  /\ At("refresh", "fetched") /\ LiveRevision(work.view)
  /\ To(IF work.found THEN "checked" ELSE "ready")
  /\ UNCHANGED <<viewVars, work, sel>> /\ JobUnchanged

AnyHash(hash) == cfg # Absent       \* defect: the file's hash is not compared
SameHash(hash) == cfg # Absent /\ hash = cfg

(* apply_refresh_updates: the whole entry of the show is replaced by the   *)
(* worker's, if the file still has the hash it had for the worker.         *)
ApplyUpdates ==
  /\ At("refresh", "checked") /\ SameHash(work.hash)
  /\ cfg' = work.series
  /\ To("applied")
  /\ UNCHANGED <<writes, viewVars, jobs, work, sel, edit, old, retry, touched>>

RevisePublished ==
  /\ At("refresh", "applied") /\ ShowFound
  /\ To("ready")
  /\ work' = [work EXCEPT !.view.rev = cfg]
  /\ UNCHANGED <<viewVars, sel>> /\ JobUnchanged

(* A refresh of one source keeps the rows of the others when the published *)
(* view is ready, complete and of the same revision.                       *)
Merged(v) ==
  IF /\ HasRows(view) /\ view.fresh = "ready" /\ view.rev = v.rev /\ view.whole
  THEN [v EXCEPT !.made = @ \cup view.made, !.whole = TRUE]
  ELSE [v EXCEPT !.whole = FALSE]

Put ==
  LET v == IF job.scope = "source" THEN Merged(work.view) ELSE work.view IN
  /\ At("refresh", "ready")
  /\ view' = v
  /\ work' = [work EXCEPT !.view = v]
  /\ To("published")
  /\ UNCHANGED <<snap, sel>> /\ JobUnchanged

(* A refresh of Sonarr alone writes the published view back as ready.      *)
SonarrPut ==
  LET v == [view EXCEPT !.fresh = "ready", !.good = TRUE] IN
  /\ At("refresh", "revised") /\ job.parts = "sonarr"
  /\ HasRows(view)
  /\ view' = v
  /\ work' = [work EXCEPT !.view = v]
  /\ To("published")
  /\ UNCHANGED <<snap, sel>> /\ JobUnchanged

(* write_snapshot, and the end of the job.                                 *)
WriteSnapshot ==
  /\ At("refresh", "published")
  /\ snap' = work.view
  /\ NoJob
  /\ UNCHANGED view /\ JobUnchanged

(* The worker reports an error, or dies or is stopped without one, or had  *)
(* nothing of Sonarr to publish; a check of the publication fails, or      *)
(* something in it raises.                                                 *)
RefreshFails ==
  /\ job # None /\ job.kind = "refresh"
  /\ \/ view' = Attempted(view)
     \/ /\ job.stage \in {"queued", "started", "located", "revised"}
        /\ UNCHANGED view
  /\ NoJob
  /\ UNCHANGED snap /\ JobUnchanged

-----------------------------------------------------------------------------
(***************************************************************************)
(* A download: download_selected, and the executor's own reading of the    *)
(* configuration, whose actions must mean what was admitted.               *)
(***************************************************************************)
DownloadCheck ==
  /\ At("download", "queued")
  /\ sel.view.rev = cfg
  /\ To("located")
  /\ UNCHANGED <<viewVars, work, sel>> /\ JobUnchanged

MeansAnything(c) == TRUE                    \* defect: validate_selected_action always agrees
MeansTheSame(c) == Place(c) = Place(sel.row)

PlanDownload ==
  /\ At("download", "located")
  /\ ShowFound /\ MeansTheSame(cfg)
  /\ To("ready")
  /\ work' = [work EXCEPT !.series = cfg]
  /\ UNCHANGED <<viewVars, sel>> /\ JobUnchanged

(* The file is fetched and promoted into the library, at Place(work.series).*)
PlaceFile ==
  /\ At("download", "ready")
  /\ NoJob
  /\ UNCHANGED <<cfg, writes, viewVars, jobs, edit, old, retry, touched>>

DownloadFails ==
  /\ job # None /\ job.kind = "download"
  /\ old' = sel
  /\ NoJob
  /\ UNCHANGED <<cfg, writes, viewVars, jobs, edit, retry, touched>>

-----------------------------------------------------------------------------
(***************************************************************************)
(* retry_job: everything but the start itself runs without manifest_lock   *)
(* and whether or not a job is active.                                     *)
(***************************************************************************)

(* refresh_cached_disk_views: the old selection's view, with its disk      *)
(* inventory scanned again.                                                *)
RetryScan ==
  /\ retry = None /\ old # None
  /\ old.view.rev = cfg
  /\ retry' = [stage |-> "scanned", sel |-> None]
  /\ UNCHANGED <<cfg, writes, viewVars, edit, jobVars, old, touched>>

RetryPut ==
  /\ retry # None /\ retry.stage = "scanned" /\ old # None
  /\ view' = [old.view EXCEPT !.fresh = "ready", !.good = TRUE]
  /\ retry' = [retry EXCEPT !.stage = "put"]
  /\ UNCHANGED <<cfg, writes, snap, edit, jobVars, old, touched>>

(* The action of the same slot and provider identity in the current plan.  *)
RetrySelect(row) ==
  /\ retry # None /\ retry.stage = "put" /\ old # None
  /\ Offered(view) /\ row \in view.made /\ Place(row) = Place(old.row)
  /\ retry' = [stage |-> "selected", sel |-> [row |-> row, view |-> view]]
  /\ UNCHANGED <<cfg, writes, viewVars, edit, jobVars, old, touched>>

RetryStart ==
  /\ retry # None /\ retry.stage = "selected"
  /\ edit = None
  /\ Begin("download", "retry", "all", "show", None)
  /\ sel' = retry.sel
  /\ retry' = None
  /\ UNCHANGED <<cfg, writes, viewVars, edit, old>>

(* The selection changed (PLAN_STALE), or a job is active (JOB_CONFLICT).  *)
RetryRefused ==
  /\ retry # None
  /\ retry' = None
  /\ UNCHANGED <<cfg, writes, viewVars, edit, jobVars, old, touched>>

-----------------------------------------------------------------------------
(* The server dies: requests end where they are, a download is left to be  *)
(* retried.  The database may have to be replaced by an empty one.         *)
Crash ==
  /\ edit' = None /\ retry' = None
  /\ NoJob
  /\ \/ /\ old' = IF job # None /\ job.kind = "download" THEN sel ELSE old
        /\ UNCHANGED view
     \/ old' = None /\ view' = None
  /\ UNCHANGED <<cfg, writes, snap, jobs, touched>>

EditStep == \/ \E kind \in EditKinds, to \in Found : EditBegin(kind, to)
            \/ EditWrite \/ EditSettle \/ ReplanRead \/ ReplanPut \/ EditFails
            \/ \E to \in Found : HandEdit(to)

AdmissionStep == \/ \E parts \in PartSets, scope \in {"show", "source"}, expect \in Configs \cup {None} :
                      PostRefresh(parts, scope, expect)
                 \/ QueueRefresh
                 \/ \E row \in Configs : PostDownload(row)
                 \/ Hydrate

RefreshStep == \/ Spawn \/ Locate \/ Revise
               \/ \E found \in BOOLEAN : Fetch(found)
               \/ PublishCheck \/ ApplyUpdates \/ RevisePublished \/ Put \/ SonarrPut
               \/ WriteSnapshot \/ RefreshFails

DownloadStep == DownloadCheck \/ PlanDownload \/ PlaceFile \/ DownloadFails

RetryStep == \/ RetryScan \/ RetryPut \/ RetryStart \/ RetryRefused
             \/ \E row \in Configs : RetrySelect(row)

Next == EditStep \/ AdmissionStep \/ RefreshStep \/ DownloadStep \/ RetryStep \/ Crash

Spec == Init /\ [][Next]_vars

-----------------------------------------------------------------------------
(***************************************************************************)
(* Properties.                                                             *)
(***************************************************************************)

(* An edit of the configuration through the API and a job are never under  *)
(* way together, except for a refresh that GET /api/queue started          *)
(* (manifest_maintenance, post_job, retry_job).                            *)
EditExcludesJobs == edit # None /\ job # None => job.by = "queue"

(* What a download puts into the library is the action that was selected,  *)
(* and, unless the YAML was edited by hand meanwhile, as the configuration *)
(* in force wants it: whatever view the selection came from, and whatever  *)
(* edits and retries came between (download_selected,                      *)
(* validate_selected_action).                                              *)
DownloadedAsAdmitted ==
  At("download", "ready") => /\ Place(work.series) = Place(sel.row)
                             /\ ~touched => work.series = cfg

(* A refresh that was asked for, and that lists its sources, publishes     *)
(* rows computed from the very configuration whose revision it publishes,  *)
(* though the worker reads the two apart, unless the YAML was edited by    *)
(* hand meanwhile; and only such rows, when it refreshed the whole show.   *)
AskedRefreshIsExact ==
  At("refresh", "published") /\ job.by = "post" /\ Lists /\ ~touched =>
    /\ work.view.rev = cfg /\ cfg \in work.view.made
    /\ job.scope = "show" => work.view.made = {cfg}

(* The season that a refresh adds to the configuration is all it changes:  *)
(* no edit is undone by the entry it writes back (apply_refresh_updates),  *)
(* whoever edits and whenever, if the worker read the entry, the revision  *)
(* and the hash from the same file; which it did when the refresh was asked*)
(* for and the YAML was not edited by hand meanwhile.                      *)
RefreshKeepsEdits ==
  [][/\ At("refresh", "checked") /\ job' # None /\ job'.stage = "applied"
     /\ \/ work.hash = work.view.rev /\ work.series = [work.view.rev EXCEPT !.seen = TRUE]
        \/ job.by = "post" /\ ~touched
     => cfg' = [cfg EXCEPT !.seen = TRUE]]_vars

(* A view that is not ready holds the rows, and the memory of the success, *)
(* that it had: no failed attempt and no invalidation costs the last good  *)
(* ones (record_view_attempt, invalidate_platform).                        *)
LastGoodKept ==
  [][view # None /\ view' # None /\ view'.fresh # "ready"
       => /\ view'.made = view.made /\ view'.rev = view.rev
          /\ view'.good = view.good]_vars

(* docs/web-only-foundation.md:82, "A stale/failed target cannot provide   *)
(* executable actions until prerequisites are rebuilt."  It does not hold: *)
(* a refresh of the disk inventory alone publishes the cached rows, mapped *)
(* by an older configuration, as a ready view of the present one.          *)
OfferedRowsAreCurrent ==
  At("refresh", "published") /\ ~touched /\ Offered(view) => view.made \subseteq {cfg}

(* docs/web-only-foundation.md:78, "Source-scoped refresh replaces only    *)
(* its contribution."  It does not hold: when the source announces a new   *)
(* season the refresh moves the revision on, and the rows of the other     *)
(* sources, of the configuration it read, are dropped.                     *)
SourceRefreshKeepsOthers ==
  [][LET read == IF work.found THEN [work.series EXCEPT !.seen = FALSE] ELSE work.series IN
     /\ At("refresh", "ready") /\ job' # None /\ job'.stage = "published"
     /\ job.scope = "source" /\ HasRows(view) /\ view.fresh = "ready" /\ view.rev = read
     /\ view.whole /\ ~touched
     => view'.whole]_vars

(* services.py:1163, "The coordinator calls this after locking             *)
(* configuration writes": no edit is under way when a refresh writes the   *)
(* configuration.  It does not hold for the refresh GET /api/queue starts. *)
UpdatesAppliedLocked ==
  [][At("refresh", "checked") /\ job' # None /\ job'.stage = "applied" => edit = None]_vars

=============================================================================
