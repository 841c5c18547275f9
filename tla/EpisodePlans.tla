---------------------------- MODULE EpisodePlans ----------------------------
(***************************************************************************)
(* From what the provider lists to the file in its place.  The mapping of  *)
(* an episode to a slot of the library is computed by four pieces of code: *)
(* the refresh (_dropout_provider_rows, _youtube_provider_rows), the       *)
(* replanning of cached rows after an edit (replan_cached), the show's     *)
(* page (dropout_episode_rows) and the executor (run_dropout, run_youtube_ *)
(* manifest).  The plan (plan_series) compares cached rows with a cached   *)
(* inventory; the queue offers its downloads; a job carries the rows it    *)
(* was given, and the executor does those alone which it would plan too.   *)
(*                                                                         *)
(* One show is modelled, of either platform: a season of a Dropout source  *)
(* or a YouTube playlist.  Freshness is CatalogViews, the files of a run   *)
(* are DropoutDownload and SeasonSync: a run is one step here.             *)
(***************************************************************************)
EXTENDS Naturals, Sequences, FiniteSets

CONSTANTS
    Episodes,       \* the provider's numbers of the episodes of a Dropout season
    Videos,         \* of a playlist
    Seasons,        \* season numbers of the library
    RemapLists,     \* the lists of remaps the user writes
    Shows,          \* the configurations the user starts with
    None,           \* no slot, no season
    Skip,           \* the remap of an episode that is skipped
    MaxEdits,       \* bound: edits of the mapping
    MaxChanges      \* bound: changes of the listing and of the library

VARIABLES
    show,       \* the configuration
    remote,     \* what the provider lists
    lib,        \* the library: the slots with a file, and the show's index
    view,       \* the cached view
    job,        \* the download that is running
    \* history
    edits, changes

vars == <<show, remote, lib, view, job, edits, changes>>

Numbers == 1..(Cardinality(Episodes) + Cardinality(Videos))
Slots == Seasons \X (Episodes \cup Numbers)
Remaps == [ep : Episodes, to : Slots \cup {Skip}]
DropoutShows == [kind : {"dropout"}, season : Seasons \cup {None}, remap : Seq(Remaps),
                 only : SUBSET Episodes]
YoutubeShows == [kind : {"youtube"}, season : Seasons \cup {None}, skip : SUBSET Videos]

ASSUME PlansAssumption ==
    /\ Episodes \subseteq Nat \ {0} /\ IsFiniteSet(Episodes) /\ IsFiniteSet(Videos)
    /\ 1 \in Seasons /\ Seasons \subseteq Nat
    /\ RemapLists \subseteq Seq(Remaps) /\ Shows \subseteq DropoutShows \cup YoutubeShows
    /\ None \notin Seasons \cup Slots /\ Skip \notin Slots /\ Skip # None
    /\ MaxEdits \in Nat /\ MaxChanges \in Nat

\* Seasons list their episodes by number; playlists are without a gap.
Kinds == {"dropout", "youtube"}
Listings(kind) ==
    IF kind = "dropout" THEN SUBSET Episodes
    ELSE {f \in UNION {[1..n -> Videos] : n \in 0..Cardinality(Videos)} :
              \A i, j \in DOMAIN f : f[i] = f[j] => i = j}

\* only_episodes is absent or not empty.
Takes(s, e) == s.only = {} \/ e \in s.only

(***************************************************************************)
(* The mapping, four times.                                                *)
(***************************************************************************)
RemapsOf(s, e) == {i \in 1..Len(s.remap) : s.remap[i].ep = e}
Default(s, e) == IF s.season = None THEN None ELSE <<s.season, e>>

\* resolve_emby_target: the first remap of the episode decides.
Resolve(s, e) ==
    IF RemapsOf(s, e) = {} THEN Default(s, e)
    ELSE s.remap[CHOOSE i \in RemapsOf(s, e) : \A j \in RemapsOf(s, e) : i <= j].to

SlotOf(target) == IF target = Skip THEN None ELSE target

\* _dropout_provider_rows: the last one does, and an episode with a remap is
\* taken though only_episodes lacks it.
DropoutRow(s, e) ==
    LET last == s.remap[CHOOSE i \in RemapsOf(s, e) : \A j \in RemapsOf(s, e) : i >= j].to
    IN  IF RemapsOf(s, e) # {}
        THEN [id |-> e, number |-> e, dest |-> SlotOf(last), skipped |-> last = Skip]
        ELSE [id |-> e, number |-> e, dest |-> Default(s, e), skipped |-> ~Takes(s, e)]

\* The season of the only playlist, unless it has its own, is 1.
YoutubeRow(s, i) ==
    [id |-> remote[i], number |-> i, dest |-> <<IF s.season = None THEN 1 ELSE s.season, i>>,
     skipped |-> remote[i] \in s.skip]

ProviderRows(s) ==
    IF s.kind = "dropout" THEN {DropoutRow(s, e) : e \in remote}
                          ELSE {YoutubeRow(s, i) : i \in 1..Len(remote)}

\* Mutant of Replanned: the episodes' filter is not applied again.
ReplannedUnfiltered(s, row) ==
    IF s.kind = "dropout"
    THEN [id |-> row.id, number |-> row.number, dest |-> SlotOf(Resolve(s, row.number)),
          skipped |-> Resolve(s, row.number) = Skip]
    ELSE [id |-> row.id, number |-> row.number,
          dest |-> IF s.season = None THEN row.dest ELSE <<s.season, row.number>>,
          skipped |-> row.id \in s.skip]

\* replan_cached, one row.
Replanned(s, row) ==
    IF s.kind = "dropout"
    THEN [id |-> row.id, number |-> row.number, dest |-> SlotOf(Resolve(s, row.number)),
          skipped |-> Resolve(s, row.number) = Skip \/ ~Takes(s, row.number)]
    ELSE [id |-> row.id, number |-> row.number,
          dest |-> IF s.season = None THEN row.dest ELSE <<s.season, row.number>>,
          skipped |-> row.id \in s.skip]

\* Mutant of PageStatus: the episodes' filter is left to the plan.
PageStatusUnfiltered(s, e, slots) ==
    IF Resolve(s, e) = Skip THEN "skipped"
    ELSE IF Resolve(s, e) = None THEN "unmapped"
    ELSE IF Resolve(s, e) \in slots THEN "downloaded" ELSE "missing"

\* dropout_episode_rows and library_episode_status.
PageStatus(s, e, slots) ==
    IF Resolve(s, e) = Skip \/ ~Takes(s, e) THEN "skipped"
    ELSE IF Resolve(s, e) = None THEN "unmapped"
    ELSE IF Resolve(s, e) \in slots THEN "downloaded" ELSE "missing"

\* The listing loop of _run_dropout: the slots the executor would fill.
DropoutJobs == {e \in remote : Takes(show, e) /\ Resolve(show, e) \in Slots}

(***************************************************************************)
(* The plan of a cached view, for a show folder that may be created.       *)
(***************************************************************************)
\* plan_series
DropoutAction(row, disk) ==
    IF row.skipped THEN "skip"
    ELSE IF row.dest = None \/ ~disk.ready THEN "blocked"
    ELSE IF row.dest \in disk.slots THEN "present" ELSE "download"

\* _plan_youtube_sync: the rows are compared with the index, not the files.
YoutubeAction(row, disk) ==
    IF ~disk.ready THEN "blocked"
    ELSE IF disk.index[row.id] = None THEN "download"
    ELSE IF disk.index[row.id] # row.dest THEN "rename" ELSE "present"

Action(id, action, dest) == [id |-> id, action |-> action, dest |-> dest]

\* What the index has and the playlist has not; a skipped video is left alone.
Removed(v) == {w \in Videos : v.disk.ready /\ v.disk.index[w] # None
                              /\ \A row \in v.rows : row.id # w}

Plan(v) ==
    IF v.kind = "dropout" THEN {Action(r.id, DropoutAction(r, v.disk), r.dest) : r \in v.rows}
    ELSE {Action(r.id, YoutubeAction(r, v.disk), r.dest) : r \in {r \in v.rows : ~r.skipped}}
         \cup {Action(w, "remove", v.disk.index[w]) : w \in Removed(v)}

\* What is put where something is to be removed depends on the removal.
Needs(a, plan) ==
    IF a.action \in {"download", "rename"}
    THEN {b \in plan : b.action = "remove" /\ b.dest = a.dest} ELSE {}

(***************************************************************************)
(* The server.                                                             *)
(***************************************************************************)
NoView == [kind |-> "none"]
NoJob == [kind |-> "none"]

\* latest_plan: the view's revision is that of the configuration now.
Current == view # NoView /\ view.revision = show
Planned == IF Current THEN Plan(view) ELSE {}
\* latest_queue
Queue == {a \in Planned : a.action = "download"}

NoIndex == [w \in Videos |-> None]
\* library_snapshot
Snapshot == [ready |-> lib.there, slots |-> IF lib.there THEN lib.slots ELSE {},
             index |-> IF lib.there THEN lib.index ELSE NoIndex]

Init ==
    /\ show \in Shows
    /\ remote \in Listings(show.kind)
    /\ lib = [there |-> TRUE, slots |-> {}, index |-> NoIndex, record |-> None]
    /\ view = NoView /\ job = NoJob /\ edits = 0 /\ changes = 0

View(rows, disk, mapped, listed) ==
    [kind |-> show.kind, rows |-> rows, disk |-> disk, revision |-> show, fresh |-> TRUE,
     mapped |-> mapped, listed |-> listed]

\* A refresh of a library that is not there leaves the good view, marked stale;
\* one of the disk or the listing alone keeps the rest of the view.
Refresh ==
    /\ job = NoJob
    /\ \/ /\ ~lib.there /\ view # NoView
          /\ view' = [view EXCEPT !.fresh = FALSE]
       \/ /\ lib.there
          /\ view' = View(ProviderRows(show), Snapshot, show, remote)
       \/ /\ lib.there /\ view # NoView
          /\ view' = View(view.rows, Snapshot, view.mapped, view.listed)
       \/ /\ view # NoView
          /\ view' = View(ProviderRows(show), view.disk, show, remote)
    /\ UNCHANGED <<show, remote, lib, job, edits, changes>>

\* One field changed.
Edited ==
    {[show EXCEPT !.season = n] : n \in Seasons \cup {None}}
    \cup (IF show.kind = "dropout"
          THEN {[show EXCEPT !.remap = rs] : rs \in RemapLists}
               \cup {[show EXCEPT !.only = es] : es \in SUBSET Episodes}
          ELSE {[show EXCEPT !.skip = ws] : ws \in SUBSET Videos})

\* A request that edits the mapping, and replan_cached.
Edit ==
    /\ job = NoJob /\ edits < MaxEdits
    /\ show' \in Edited
    /\ view' = IF view = NoView THEN view
               ELSE IF view.fresh
               THEN [view EXCEPT !.rows = {Replanned(show', r) : r \in @}, !.revision = show',
                                 !.mapped = show']
               ELSE view
    /\ edits' = edits + 1
    /\ UNCHANGED <<remote, lib, job, changes>>

\* The user's own editor: nothing is replanned.
HandEdit ==
    /\ edits < MaxEdits
    /\ show' \in Edited
    /\ edits' = edits + 1
    /\ UNCHANGED <<remote, lib, view, job, changes>>

\* Mutant of Post: every row of the plan can be selected.
PostAny ==
    /\ job = NoJob
    /\ \E S \in SUBSET Planned :
        /\ S # {}
        /\ job' = [kind |-> show.kind, rows |-> S, of |-> view]
    /\ UNCHANGED <<show, remote, lib, view, edits, changes>>

\* POST /api/jobs, by ids of the plan of the moment.
Post ==
    /\ job = NoJob
    /\ \E S \in SUBSET {a \in Planned : a.action \in {"download", "rename", "remove"}} :
        /\ S # {}
        /\ job' = [kind |-> show.kind, rows |-> S, of |-> view]
    /\ UNCHANGED <<show, remote, lib, view, edits, changes>>

(***************************************************************************)
(* The worker.                                                             *)
(***************************************************************************)
\* download_selected
Executable(S, plan) == \A a \in S : a.action = "download" /\ Needs(a, plan) \subseteq S

\* The library as the executor finds it: without a folder there is nothing.
Found == IF lib.there THEN lib
         ELSE [there |-> FALSE, slots |-> {}, index |-> NoIndex, record |-> None]

\* Mutant of LiveSeason: the season recorded in the index comes first.
LiveSeasonRecorded == IF Found.record # None THEN Found.record
                      ELSE IF show.season # None THEN show.season ELSE 1

\* assign_season
LiveSeason == IF show.season # None THEN show.season
              ELSE IF Found.record # None THEN Found.record ELSE 1

\* Mutant of Meant: that the slot is still the one selected is not checked.
MeantById(a) ==
    IF job.kind = "dropout" THEN a.id \in DropoutJobs
    ELSE \E i \in 1..Len(remote) : remote[i] = a.id /\ a.id \notin show.skip
                                   /\ Found.index[a.id] = None

\* validate_selected_action: the executor plans the same download.
Meant(a) ==
    IF job.kind = "dropout" THEN a.id \in DropoutJobs /\ Resolve(show, a.id) = a.dest
    ELSE \E i \in 1..Len(remote) : remote[i] = a.id /\ a.id \notin show.skip
                                   /\ Found.index[a.id] = None /\ a.dest = <<LiveSeason, i>>

\* Where the executor puts it.
Target(a) == IF job.kind = "dropout" THEN Resolve(show, a.id)
             ELSE <<LiveSeason, CHOOSE i \in 1..Len(remote) : remote[i] = a.id>>

\* A run without any episode does not look for the selected ones.
Nothing == job.kind = "dropout" /\ DropoutJobs = {}

Runs ==
    /\ Executable(job.rows, Plan(job.of))
    /\ job.of.revision = show
    /\ Nothing \/ \A a \in job.rows : Meant(a)

Refuse ==
    /\ job # NoJob /\ ~Runs
    /\ job' = NoJob
    /\ UNCHANGED <<show, remote, lib, view, edits, changes>>

\* _record_downloaded_action
Recorded(v, placed) == [v EXCEPT !.disk.slots = @ \cup placed]

\* The selected episodes are fetched, but for those that fail and those whose
\* slot has a file by now.  Folders that are missing are made, the library's too.
Execute ==
    /\ job # NoJob /\ Runs
    /\ \E done \in SUBSET {a \in job.rows : ~Nothing /\ a.dest \notin Found.slots} :
        /\ lib' = IF Nothing THEN lib
                  ELSE [there |-> TRUE,
                        slots |-> Found.slots \cup {Target(a) : a \in done},
                        index |-> [w \in Videos |->
                            IF job.kind = "youtube" /\ \E a \in done : a.id = w
                            THEN Target(CHOOSE a \in done : a.id = w) ELSE Found.index[w]],
                        record |-> IF job.kind = "youtube" THEN LiveSeason ELSE None]
        /\ view' = Recorded(view, {a.dest : a \in done})
    /\ job' = NoJob
    /\ UNCHANGED <<show, remote, edits, changes>>

(***************************************************************************)
(* The world.                                                              *)
(***************************************************************************)
Change == changes < MaxChanges /\ changes' = changes + 1

ProviderChanges ==
    /\ Change
    /\ remote' \in Listings(show.kind) \ {remote}
    /\ UNCHANGED <<show, lib, view, job, edits>>

\* The user puts a file in a slot, or takes it away.
UserFile ==
    /\ Change /\ lib.there
    /\ \E s \in Slots : lib' = [lib EXCEPT !.slots = IF s \in @ THEN @ \ {s} ELSE @ \cup {s}]
    /\ UNCHANGED <<show, remote, view, job, edits>>

\* The disk goes, and comes back.
Mount ==
    /\ Change
    /\ lib' = [lib EXCEPT !.there = ~@]
    /\ UNCHANGED <<show, remote, view, job, edits>>

Next == \/ Refresh \/ Edit \/ HandEdit \/ Post \/ Refuse \/ Execute
        \/ ProviderChanges \/ UserFile \/ Mount

Spec == Init /\ [][Next]_vars

(***************************************************************************)
(* Properties.                                                             *)
(***************************************************************************)
Configs(kind) == IF kind = "dropout" THEN DropoutShows ELSE YoutubeShows
Ids(kind) == IF kind = "dropout" THEN Episodes ELSE Videos
Rows(kind) == [id : Ids(kind), number : Nat, dest : Slots \cup {None}, skipped : BOOLEAN]
Inventories == [ready : BOOLEAN, slots : SUBSET Slots, index : [Videos -> Slots \cup {None}]]
Views(kind) == [kind : {kind}, rows : SUBSET Rows(kind), disk : Inventories,
                revision : Configs(kind), fresh : BOOLEAN, mapped : Configs(kind),
                listed : Listings(kind)]
Actions(kind) == [id : Ids(kind), action : {"download", "rename", "remove"}, dest : Slots]

\* Every variable has its type: what is selected has a slot, and a view is of
\* the show's platform.
TypeOK ==
    /\ show.kind \in Kinds /\ show \in Configs(show.kind)
    /\ remote \in Listings(show.kind)
    /\ lib \in [there : BOOLEAN, slots : SUBSET Slots, index : [Videos -> Slots \cup {None}],
                record : Seasons \cup {None}]
    /\ view \in Views(show.kind) \cup {NoView}
    /\ job \in [kind : {show.kind}, rows : SUBSET Actions(show.kind),
                of : Views(show.kind)] \cup {NoJob}
    /\ edits \in 0..MaxEdits /\ changes \in 0..MaxChanges

(***************************************************************************)
(* The configurations for which the four mappings are meant to agree: no   *)
(* episode has two remaps, none with a slot of its own is left out by      *)
(* only_episodes, and a playlist has its season.                           *)
(***************************************************************************)
Plain(s) ==
    IF s.kind = "youtube" THEN s.season # None
    ELSE \A i, j \in 1..Len(s.remap) :
            /\ s.remap[i].ep = s.remap[j].ep => i = j
            /\ s.remap[i].to # Skip => Takes(s, s.remap[i].ep)

\* What a refresh makes of a listing for a configuration.
Mapping(s, listed) ==
    IF s.kind = "dropout" THEN {DropoutRow(s, e) : e \in listed}
    ELSE {[id |-> listed[i], number |-> i, dest |-> <<s.season, i>>,
           skipped |-> listed[i] \in s.skip] : i \in 1..Len(listed)}

\* replan_cached reapplies an edit to rows that were mapped before, by other
\* code than the refresh: however many edits came, the rows are those that a
\* refresh of the same listing would make.
ReplanAgrees ==
    view # NoView /\ Plain(view.mapped) => view.rows = Mapping(view.mapped, view.listed)

\* The page's statuses (dropout_episode_rows) and the queue come from two
\* mappings: an episode is "missing" on the page iff it is in the queue.
PageAgrees ==
    Current /\ view.mapped = show /\ Plain(show) /\ show.kind = "dropout" =>
        \A e \in view.listed :
            PageStatus(show, e, view.disk.slots) = "missing" <=> \E a \in Queue : a.id = e

\* Nothing changed since the plan that a selection was taken from.
Quiet == /\ job.of.listed = remote /\ job.of.mapped = show /\ job.of.revision = show
         /\ lib.there /\ job.of.disk.index = lib.index

\* The executor plans anew, by code of its own, and refuses everything when one
\* selected action is not what it finds (PLAN_STALE): a selection whose listing,
\* configuration and index are still those of its plan is never refused.
SelectionRuns ==
    job # NoJob /\ Plain(show) /\ Quiet /\ Executable(job.rows, Plan(job.of)) => Runs

\* Whatever changed between plan and run, a run fills none but the slots that
\* were selected, by a mapping of its own, takes no file away, and a Dropout
\* episode it has placed leaves the queue.
PlacedAsAsked ==
    [][ job # NoJob /\ job' = NoJob /\ lib.there =>
        /\ lib.slots \subseteq lib'.slots
        /\ lib'.slots \ lib.slots \subseteq {a.dest : a \in job.rows}
        /\ \A a \in job.rows : a.dest \in lib'.slots \ lib.slots /\ job.kind = "dropout" =>
               \A b \in Queue' : b.id # a.id ]_vars

\* docs/web-only-foundation.md:67: the selection covers removals, and an action
\* that depends on another is selected with it or blocked.  What the queue
\* offers can be run with some selection.
QueuedCanRun ==
    \A a \in Queue : \E S \in SUBSET Planned : a \in S /\ Executable(S, Planned)

\* docs/web-only-foundation.md:57: never create library roots.
LibraryNotCreated ==
    [][job # NoJob /\ job' = NoJob => lib'.there = lib.there]_vars
=============================================================================
