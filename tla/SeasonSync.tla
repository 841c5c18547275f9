----------------------------- MODULE SeasonSync -----------------------------
(***************************************************************************)
(* The YouTube executor on one season folder: plan_sync (sync.py) diffs    *)
(* the listing against the saved index, and run_youtube_manifest           *)
(* (pipeline.py) archives, renames and downloads files, one file operation *)
(* after another, and saves the index at the points the code saves it. The *)
(* process may die between any two of them.                                *)
(*                                                                         *)
(* A run is either whole (no selection is active: every planned action is  *)
(* executed, as the pipeline's own callers do) or restricted to a          *)
(* selection, of which download_selected admits the downloads alone.       *)
(*                                                                         *)
(* A video file is known by its stem: the episode number and the title.    *)
(* The channel, the season and the sidecar files that move with the video  *)
(* are left out, and a title is fixed for its video; two videos may share  *)
(* one.                                                                    *)
(***************************************************************************)
EXTENDS Naturals, FiniteSets

CONSTANTS
    Videos,         \* the provider's videos
    Titles,         \* sanitized titles
    Title,          \* the title of every video
    Skip,           \* the videos the source's "skip" list excludes
    None,           \* no file, no index entry
    MaxChanges,     \* bound: changes of the playlist
    MaxFaults,      \* bound: crashes and failed moves
    MaxStuck        \* bound: temporary files that fail in one recovery

ASSUME SyncAssumption ==
    /\ IsFiniteSet(Videos)
    /\ Title \in [Videos -> Titles]
    /\ Skip \subseteq Videos
    /\ MaxChanges \in Nat
    /\ MaxFaults \in Nat
    /\ MaxStuck \in Nat

Slots == 1..Cardinality(Videos)
Stems == [ep : Slots, title : Titles]

\* An entry of the index: the stored basename, and whether it carries the
\* "-2" with which _disambiguate_stem marks it; no file has such a name.
Entries == [stem : Stems, dup : BOOLEAN]

ASSUME NoneAssumption == None \notin Videos /\ None \notin Stems /\ None \notin Entries

\* The selection of a run: the admitted downloads, of which there is one at
\* least; none where no selection is active.
Whole == {}
Downloads == [video : Videos, new : Stems]

Kinds == {"add", "remove", "replace", "rename", "refresh"}
Actions == [kind : Kinds, video : Videos, old : Entries \cup {None}, new : Stems \cup {None}]

VARIABLES
    live,       \* the listing: the playlist index of every listed video
    lib,        \* the season folder: the video in the file of every stem
    tmp,        \* its files with the rename prefix, by the stem they carry
    index,      \* the saved index
    mem,        \* the index as the run holds it
    pc,         \* where the run is
    sel,        \* its selection
    acts,       \* the actions it executes
    todo,       \* those left in the phase it is in
    passed,     \* the temporary names that failed in the last recovery
    bad,        \* something of the run failed
    clean,      \* history: a whole run has succeeded since the last disturbance
    orderly,    \* history: no crash and no failed move so far
    changes,    \* bound counter
    faults      \* bound counter

vars == <<live, lib, tmp, index, mem, pc, sel, acts, todo, bad, passed, clean,
          orderly, changes, faults>>
run == <<pc, sel, acts, todo, bad>>
history == <<passed, clean, orderly, changes, faults>>

Phases == {"idle", "admitted", "move", "recover", "stage", "land", "download", "commit", "finish"}

\* Listings number the videos they list from 1 on, without a gap.
Listing(f) ==
    \E n \in 0..Cardinality(Videos) :
        /\ \A e \in 1..n : \E v \in Videos : f[v] = e
        /\ \A v \in Videos : f[v] \in 0..n
        /\ \A v, w \in Videos : f[v] = f[w] /\ f[v] # 0 => v = w
Listings == {f \in [Videos -> 0..Cardinality(Videos)] : Listing(f)}
Listed(v) == live[v] # 0

\* The destination of a listed video: episode_stem without a folder to look at.
StemOf(v) == [ep |-> live[v], title |-> Title[v]]
Plain(s) == [stem |-> s, dup |-> FALSE]
NoFile == [s \in Stems |-> None]

\* The file an index entry names: None for a name with "-2".
FileAt(e) == IF e = None \/ e.dup THEN None ELSE lib[e.stem]

FilesType == /\ lib \in [Stems -> Videos \cup {None}]
             /\ tmp \in [Stems -> Videos \cup {None}]
IndexType == /\ index \in [Videos -> Entries \cup {None}]
             /\ mem \in [Videos -> Entries \cup {None}]
RunType == /\ pc \in Phases /\ sel \in SUBSET Downloads
           /\ acts \in SUBSET Actions /\ todo \in SUBSET acts
FlagType == passed \in SUBSET Stems /\ bad \in BOOLEAN /\ clean \in BOOLEAN /\ orderly \in BOOLEAN
BoundType == changes \in 0..MaxChanges /\ faults \in 0..MaxFaults

TypeOK == live \in Listings /\ FilesType /\ IndexType /\ RunType /\ FlagType /\ BoundType

\* A library a whole run has left behind, under the listing it was run for.
Init ==
    /\ live \in Listings
    /\ index = [v \in Videos |-> IF Listed(v) /\ v \notin Skip THEN Plain(StemOf(v)) ELSE None]
    /\ lib = [s \in Stems |->
                IF \E v \in Videos : index[v] = Plain(s)
                THEN CHOOSE v \in Videos : index[v] = Plain(s) ELSE None]
    /\ mem = index
    /\ tmp = NoFile
    /\ pc = "idle" /\ sel = Whole /\ acts = {} /\ todo = {} /\ bad = FALSE
    /\ passed = {} /\ clean = TRUE /\ orderly = TRUE /\ changes = 0 /\ faults = 0

-----------------------------------------------------------------------------
\* The plan.

\* Mutant of Planned: a removed video has no listing entry to build a stem from.
PlannedUnlisted(kind, v) ==
    [kind |-> kind, video |-> v, old |-> index[v], new |-> StemOf(v)]

Planned(kind, v) ==
    [kind |-> kind, video |-> v, old |-> index[v], new |-> IF Listed(v) THEN StemOf(v) ELSE None]

(***************************************************************************)
(* plan_sync, with the upgrades of _upgrade_low_res_actions. again: the    *)
(* videos to be fetched again, because the provider's metadata changed or  *)
(* the file is of a low resolution (which is looked at only where there is *)
(* a file; both come to the same action).                                  *)
(***************************************************************************)
\* Mutant of Unchanged: the index is believed, the files are not looked at.
UnchangedByIndex(v) == IF index[v] = Plain(StemOf(v)) THEN "refresh" ELSE "rename"

Unchanged(v) ==
    CASE index[v] = Plain(StemOf(v)) /\ FileAt(index[v]) # None -> "refresh"
      [] index[v] # Plain(StemOf(v)) /\ FileAt(index[v]) # None -> "rename"
      [] index[v] # Plain(StemOf(v)) /\ FileAt(index[v]) = None /\ lib[StemOf(v)] # None -> "refresh"
      [] OTHER -> "add"

Plan(again) ==
    {Planned("remove", v) : v \in {w \in Videos : index[w] # None /\ ~Listed(w)}}
    \cup {Planned("add", v) : v \in {w \in Videos : index[w] = None /\ Listed(w)}}
    \cup {Planned("replace", v) : v \in {w \in again : index[w] # None /\ Listed(w)}}
    \cup {Planned(Unchanged(v), v) : v \in {w \in Videos \ again : index[w] # None /\ Listed(w)}}

\* Mutant of Moving: what is fetched again is only written over.
MovingRemoved(a) == a.kind = "remove"

Moving(a) == a.kind \in {"remove", "replace"}
Fetching(a) == a.kind \in {"add", "replace"}

\* The actions are executed in the order of the listing.
First(a) == a \in todo /\ \A b \in todo : a.new.ep <= b.new.ep

-----------------------------------------------------------------------------
\* What the server offers, and the start of a run.

\* POST /api/jobs with downloads of the cached plan, which _plan_youtube_sync
\* has computed from the listing and the index.
Admit ==
    /\ pc = "idle"
    /\ \E S \in SUBSET {v \in Videos \ Skip : Listed(v) /\ index[v] = None} :
        /\ S # {}
        /\ sel' = {[video |-> v, new |-> StemOf(v)] : v \in S}
    /\ pc' = "admitted"
    /\ UNCHANGED <<live, lib, tmp, index, mem, acts, todo, bad, history>>

\* A whole run: no selection is active.
RunWhole ==
    /\ pc = "idle"
    /\ sel' = Whole /\ pc' = "admitted"
    /\ UNCHANGED <<live, lib, tmp, index, mem, acts, todo, bad, history>>

\* The provider's playlist changes. A run reads the listing once, in Begin:
\* what changes later is not seen before the next run.
ProviderChanges ==
    /\ pc \in {"idle", "admitted"} /\ changes < MaxChanges
    /\ live' \in Listings \ {live}
    /\ changes' = changes + 1 /\ clean' = FALSE
    /\ UNCHANGED <<lib, tmp, index, mem, run, passed, orderly, faults>>

\* _selected_youtube_actions: the planned actions the selection allows.
Admitted(a) == [video |-> a.video, new |-> a.new]
Selected(plan) ==
    IF sel = Whole THEN plan ELSE {a \in plan : a.kind = "add" /\ a.video \in {d.video : d \in sel}}

Goto(next, work) == pc' = next /\ todo' = work

\* Every admitted action is in the plan, and means what it meant.
StillMeant(S) == sel = Whole \/ sel = {Admitted(a) : a \in S}

\* A run whose plan differs from what was admitted ends (PLAN_STALE), and one
\* with nothing to do ends too, before it has looked for temporary files.
Begin ==
    /\ pc = "admitted"
    /\ \E again \in SUBSET Videos :
        LET S == Selected({a \in Plan(again) : a.video \notin Skip}) IN
        IF StillMeant(S) /\ S # {}
        THEN /\ acts' = S /\ Goto("move", {a \in S : Moving(a) /\ a.old # None})
             /\ UNCHANGED <<sel, clean>>
        ELSE /\ Goto("idle", {}) /\ sel' = Whole /\ UNCHANGED acts
             /\ clean' = IF sel = Whole THEN TRUE ELSE clean
    /\ UNCHANGED <<live, lib, tmp, index, mem, bad, passed, orderly, changes, faults>>

-----------------------------------------------------------------------------
\* _apply_youtube_job_remainder: files are moved and renamed, the index saved.

Rest(a) == todo' = todo \ {a} /\ UNCHANGED pc

\* move_episode_files: the file goes to the archive.
MoveOld(a) ==
    /\ pc = "move" /\ a \in todo
    /\ lib' = IF a.old.dup THEN lib ELSE [lib EXCEPT ![a.old.stem] = None]
    /\ Rest(a)
    /\ UNCHANGED <<live, tmp, index, mem, sel, acts, bad, history>>

\* An OSError is skipped: the file stays, and the run goes on.
MoveFails(a) ==
    /\ pc = "move" /\ a \in todo /\ faults < MaxFaults
    /\ Rest(a)
    /\ faults' = faults + 1 /\ orderly' = FALSE
    /\ UNCHANGED <<live, lib, tmp, index, mem, sel, acts, bad, passed, clean, changes>>

Moved ==
    /\ pc = "move" /\ todo = {}
    /\ Goto("recover", {}) /\ passed' = {}
    /\ UNCHANGED <<live, lib, tmp, index, mem, sel, acts, bad, clean, orderly, changes, faults>>

\* Mutant of RecoverOne: the file is dropped, whatever has its name.
RecoverByDropping(s) ==
    /\ pc = "recover" /\ tmp[s] # None /\ s \notin passed
    /\ tmp' = [tmp EXCEPT ![s] = None]
    /\ UNCHANGED <<live, lib, index, mem, run, history>>

\* recover_rename_temps, one file: it gets its name, unless that is taken.
RecoverOne(s) ==
    /\ pc = "recover" /\ tmp[s] # None /\ s \notin passed
    /\ lib' = IF lib[s] # None THEN lib ELSE [lib EXCEPT ![s] = tmp[s]]
    /\ tmp' = [tmp EXCEPT ![s] = None]
    /\ UNCHANGED <<live, index, mem, run, history>>

\* An OSError is skipped: the temporary file stays, and the run goes on.
RecoverFails(s) ==
    /\ pc = "recover" /\ tmp[s] # None /\ s \notin passed
    /\ Cardinality(passed) < MaxStuck
    /\ passed' = passed \cup {s}
    /\ UNCHANGED <<live, lib, tmp, index, mem, run, clean, orderly, changes, faults>>

Recovered ==
    /\ pc = "recover" /\ \A s \in Stems : tmp[s] # None => s \in passed
    /\ Goto("stage", {a \in acts : a.kind = "rename"})
    /\ UNCHANGED <<live, lib, tmp, index, mem, sel, acts, bad, history>>

\* Mutant of StageRename: files are renamed in one phase.
StageRenameDirect(a) ==
    /\ pc = "stage" /\ First(a)
    /\ lib' = IF FileAt(a.old) = None THEN lib
              ELSE [lib EXCEPT ![a.new] = lib[a.old.stem], ![a.old.stem] = None]
    /\ Rest(a)
    /\ UNCHANGED <<live, tmp, index, mem, sel, acts, bad, history>>

\* apply_renames, first phase: every file gets the prefix and its new stem.
StageRename(a) ==
    /\ pc = "stage" /\ First(a)
    /\ IF FileAt(a.old) = None
       THEN UNCHANGED <<lib, tmp>>
       ELSE /\ tmp' = [tmp EXCEPT ![a.new] = lib[a.old.stem]]
            /\ lib' = [lib EXCEPT ![a.old.stem] = None]
    /\ Rest(a)
    /\ UNCHANGED <<live, index, mem, sel, acts, bad, history>>

Staged ==
    /\ pc = "stage" /\ todo = {}
    /\ Goto("land", {a \in acts : a.kind = "rename"})
    /\ UNCHANGED <<live, lib, tmp, index, mem, sel, acts, bad, history>>

\* Second phase: the prefix goes; a file of that name is overwritten.
LandRename(a) ==
    /\ pc = "land" /\ First(a)
    /\ lib' = IF tmp[a.new] = None THEN lib ELSE [lib EXCEPT ![a.new] = tmp[a.new]]
    /\ tmp' = [tmp EXCEPT ![a.new] = None]
    /\ Rest(a)
    /\ UNCHANGED <<live, index, mem, sel, acts, bad, history>>

\* Mutant of AfterMoves: the names of renamed videos are left to the end.
AfterMovesOnly ==
    [v \in Videos |->
        IF \E a \in acts : a.video = v /\ Moving(a) /\ a.old # None THEN None ELSE mem[v]]

\* The index forgets what was moved, whether or not it was, and takes over
\* the names of what was renamed.
AfterMoves ==
    [v \in Videos |->
        IF \E a \in acts : a.video = v /\ Moving(a) /\ a.old # None THEN None
        ELSE IF \E a \in acts : a.video = v /\ a.kind = "rename" /\ mem[v] # None
             THEN Plain((CHOOSE a \in acts : a.video = v /\ a.kind = "rename").new) ELSE mem[v]]

SaveIndex ==
    /\ pc = "land" /\ todo = {}
    /\ mem' = AfterMoves /\ index' = AfterMoves
    /\ Goto("download", {a \in acts : Fetching(a)})
    /\ UNCHANGED <<live, lib, tmp, sel, acts, bad, history>>

-----------------------------------------------------------------------------
\* The download loop.

\* find_episode_mkv: some file of that episode.
\* Mutant of Occupied: no look at the folder before a selected download.
NeverOccupied(ep) == FALSE

Occupied(ep) == \E s \in Stems : s.ep = ep /\ lib[s] # None

(***************************************************************************)
(* The name under which _upsert_episode stores a video: with "-2" when its *)
(* file is there and find_episode_mkv prefers another file of the episode, *)
(* which depends on sizes and times.                                       *)
(***************************************************************************)
Marks(s) ==
    IF lib[s] # None /\ \E t \in Stems : t.ep = s.ep /\ t # s /\ lib[t] # None
    THEN BOOLEAN ELSE {FALSE}

AtDownload(a) == pc = "download" /\ First(a)

\* With a selection, a download whose episode has a file is done.
SkipOccupied(a) ==
    /\ AtDownload(a) /\ sel # Whole /\ a.kind = "add" /\ Occupied(a.new.ep)
    /\ Rest(a)
    /\ UNCHANGED <<live, lib, tmp, index, mem, sel, acts, bad, history>>

\* Without one, a file of the right name is taken for the video; the index is
\* not saved before the next download or the end of the run.
AdoptExisting(a) ==
    /\ AtDownload(a) /\ sel = Whole /\ a.kind = "add" /\ lib[a.new] # None
    /\ \E d \in Marks(a.new) : mem' = [mem EXCEPT ![a.video] = [stem |-> a.new, dup |-> d]]
    /\ Rest(a)
    /\ UNCHANGED <<live, lib, tmp, index, sel, acts, bad, history>>

NotSkipped(a) == sel = Whole \/ a.kind # "add" \/ ~Occupied(a.new.ep)

\* A download that fails is passed over.
DownloadFails(a) ==
    /\ AtDownload(a) /\ NotSkipped(a)
    /\ bad' = TRUE
    /\ Rest(a)
    /\ UNCHANGED <<live, lib, tmp, index, mem, sel, acts, history>>

\* A refused login ends the run; what the run held in memory is not saved.
AuthFails(a) ==
    /\ AtDownload(a) /\ NotSkipped(a)
    /\ bad' = FALSE /\ clean' = FALSE
    /\ mem' = index /\ acts' = {} /\ sel' = Whole
    /\ Goto("idle", {})
    /\ UNCHANGED <<live, lib, tmp, index, passed, orderly, changes, faults>>

\* promote_episode: the file is in the library, over any file of its name (a
\* whole run fetches an existing one anew if its resolution is low).
Promote(a) ==
    /\ AtDownload(a) /\ NotSkipped(a)
    /\ lib' = [lib EXCEPT ![a.new] = a.video]
    /\ pc' = "commit"
    /\ UNCHANGED <<live, tmp, index, mem, sel, acts, todo, bad, history>>

Commit(a) ==
    /\ pc = "commit" /\ First(a)
    /\ \E d \in Marks(a.new) : mem' = [mem EXCEPT ![a.video] = [stem |-> a.new, dup |-> d]]
    /\ Goto("download", todo \ {a})
    /\ index' = mem'
    /\ UNCHANGED <<live, lib, tmp, sel, acts, bad, history>>

-----------------------------------------------------------------------------
\* The end: refreshed and renamed videos are stored again, the index is saved.

Restored == {a \in acts : a.kind \in {"refresh", "rename"}}

Downloaded ==
    /\ pc = "download" /\ todo = {}
    /\ Goto("finish", Restored)
    /\ UNCHANGED <<live, lib, tmp, index, mem, sel, acts, bad, history>>

Restore(a) ==
    /\ pc = "finish" /\ First(a)
    /\ \E d \in Marks(a.new) : mem' = [mem EXCEPT ![a.video] = [stem |-> a.new, dup |-> d]]
    /\ Rest(a)
    /\ UNCHANGED <<live, lib, tmp, index, sel, acts, bad, history>>

Finish ==
    /\ pc = "finish" /\ todo = {}
    /\ index' = mem
    /\ clean' = IF sel = Whole THEN ~bad ELSE clean
    /\ acts' = {} /\ sel' = Whole /\ bad' = FALSE
    /\ Goto("idle", {})
    /\ UNCHANGED <<live, lib, tmp, mem, passed, orderly, changes, faults>>

\* The worker dies, is cancelled or times out, or a file operation that is not
\* guarded raises: the files stay as they are.
Crash ==
    /\ pc \notin {"idle", "admitted"} /\ faults < MaxFaults
    /\ mem' = index /\ acts' = {} /\ sel' = Whole /\ bad' = FALSE
    /\ Goto("idle", {})
    /\ faults' = faults + 1 /\ clean' = FALSE /\ orderly' = FALSE
    /\ UNCHANGED <<live, lib, tmp, index, passed, changes>>

PlanStep == Admit \/ RunWhole \/ ProviderChanges \/ Begin

MoveStep == Moved \/ \E a \in todo : MoveOld(a) \/ MoveFails(a)

RenameStep == \/ Recovered \/ Staged \/ SaveIndex
              \/ \E s \in Stems : RecoverOne(s) \/ RecoverFails(s)
              \/ \E a \in todo : StageRename(a) \/ LandRename(a)

DownloadStep == \/ Downloaded
                \/ \E a \in todo : \/ SkipOccupied(a) \/ AdoptExisting(a) \/ DownloadFails(a)
                                   \/ AuthFails(a) \/ Promote(a) \/ Commit(a)

EndStep == Finish \/ Crash \/ \E a \in todo : Restore(a)

Next == PlanStep \/ MoveStep \/ RenameStep \/ DownloadStep \/ EndStep

Spec == Init /\ [][Next]_vars

-----------------------------------------------------------------------------
\* Properties.

OwnTitle(v) == \A w \in Videos : Title[w] = Title[v] => w = v

(***************************************************************************)
(* A video on the disk stays there, under its name or under a temporary    *)
(* one, until the run archives it for a removal or a replacement of that   *)
(* very video: no rename, recovery or download overwrites it. Videos that  *)
(* share a title are safe as long as no run crashed.                       *)
(***************************************************************************)
Held(v) == \E s \in Stems : lib[s] = v \/ tmp[s] = v
Archived(v) == \E a \in todo : pc = "move" /\ a.video = v /\ Moving(a)
HeldVideosKept ==
    [][\A v \in Videos :
        Held(v) /\ ~Held(v)' /\ (OwnTitle(v) \/ orderly) => Archived(v)]_vars

(***************************************************************************)
(* Between runs, the index names exactly the files there are, as long as   *)
(* nothing but downloads failed.                                           *)
(***************************************************************************)
IndexMatchesLibrary ==
    pc = "idle" /\ orderly =>
        \A v \in Videos, s \in Stems : lib[s] = v <=> index[v] = Plain(s)

(***************************************************************************)
(* A whole run without a failure leaves the library that the listing asks  *)
(* for, whatever selected downloads, failed downloads and changes of the   *)
(* playlist came before.                                                   *)
(***************************************************************************)
Wanted(s) == {v \in Videos \ Skip : Listed(v) /\ StemOf(v) = s}
WholeRunSyncs ==
    pc = "idle" /\ clean /\ orderly =>
        \A s \in Stems : IF Wanted(s) = {} THEN lib[s] = None ELSE lib[s] \in Wanted(s)

(***************************************************************************)
(* Whatever crashed before, one whole run without a failure brings every   *)
(* listed video that does not share its title back to its place, and       *)
(* leaves no temporary file but those its recovery could not settle, which *)
(* cost no listed video its place. A run with nothing to do does not look  *)
(* for temporary files.                                                    *)
(***************************************************************************)
NothingToDo == \A v \in Videos \ Skip : ~Listed(v) /\ index[v] = None
WholeRunHeals ==
    pc = "idle" /\ clean =>
        /\ \A s \in Stems : tmp[s] # None => s \in passed \/ NothingToDo
        /\ \A v \in Videos \ Skip : Listed(v) /\ OwnTitle(v) => lib[StemOf(v)] = v

(***************************************************************************)
(* A run with selected downloads takes no file of the season away and      *)
(* changes none. Of a crash's leftovers it touches a temporary file only   *)
(* to give it its name, or to drop it where another has that name, and     *)
(* never drops the only copy of a video that shares its title with none.   *)
(***************************************************************************)
Settled(s) == lib'[s] = tmp[s] \/ (lib[s] # None /\ ~OwnTitle(tmp[s]))
SelectedRunsOnlyAdd ==
    [][sel # Whole /\ pc # "idle" =>
        \A s \in Stems : /\ lib[s] # None => lib'[s] = lib[s]
                         /\ tmp[s] # None /\ tmp'[s] # tmp[s] => Settled(s)]_vars

(***************************************************************************)
(* recover_rename_temps, by its docstring: it finishes the renames a crash *)
(* left behind.                                                            *)
(***************************************************************************)
RecoveryFinishesRenames ==
    [][\A s \in Stems :
        pc = "recover" /\ tmp[s] # None /\ tmp'[s] = None => lib'[s] = tmp[s]]_vars

=============================================================================
