-------------------------- MODULE DropoutDownload --------------------------
(***************************************************************************)
(* A selected download of a Dropout show, from its admission to its retry: *)
(* the executor of dropout.py, which lists, checks and places one episode  *)
(* after another; the coordinator, which records every confirmed item in   *)
(* the cached inventory and in the job's rows; and the retry of app.py,    *)
(* which verifies what is done, rescans the library and admits the rest.   *)
(*                                                                         *)
(* One show, whose configuration does not change (CatalogViews has the     *)
(* changes); a listing goes to a fixed slot, and two may share one.  How a *)
(* worker is started and stopped is JobCoordinator: here a job ends when   *)
(* its worker is gone and its output is read.  Only missing episodes are   *)
(* ever selected: POST /api/jobs plans with force=False, and a retry asks  *)
(* what the job asked.                                                     *)
(***************************************************************************)
EXTENDS Naturals, Sequences, FiniteSets

CONSTANTS
    Listings,       \* the show's listings, numbered in the order listed
    Slots,          \* (season, episode) pairs, in the order of sort_download_jobs
    Dest,           \* resolve_emby_target: the slot of every listing
    MaxJobs,        \* bound: download jobs
    MaxFaults,      \* bound: crashes and failed or cancelled work
    MaxEdits        \* bound: files the user puts into or takes out of the library

ASSUME DownloadAssumption ==
    /\ Listings \subseteq Nat /\ Slots \subseteq Nat
    /\ IsFiniteSet(Listings) /\ IsFiniteSet(Slots)
    /\ Dest \in [Listings -> Slots]
    /\ MaxJobs \in Nat /\ MaxFaults \in Nat /\ MaxEdits \in Nat

VARIABLES
    \* the library and the stores, which survive a crash
    files,      \* slots with an episode file
    scan,       \* view row: the inventory of its last scan, which names its plan
    shown,      \* view row: that inventory, patched with recorded downloads
    snap,       \* the inventory in the cache snapshot of the view
    jobs,       \* the jobs table, oldest first
    \* the worker process
    worker,     \* where it is
    todo,       \* the listings it has still to place
    cur,        \* the listing it is at
    tell,       \* the item results it has still to write for a finished slot
    bad,        \* an episode failed
    pipe,       \* item results written, not yet read
    \* the server
    up,
    reader,     \* where the coordinator is with the item result it handles
    copy,       \* the row as _record_downloaded_action has read it
    retry,      \* the retry under way
    \* history
    gone,       \* slots the user emptied, not filled since
    added,      \* slots the user filled, not emptied since
    faults, edits

vars == <<files, scan, shown, snap, jobs, worker, todo, cur, tell, bad, pipe,
          up, reader, copy, retry, gone, added, faults, edits>>
row == <<scan, shown, snap>>
process == <<worker, todo, cur, tell, bad>>
server == <<up, reader, copy>>
history == <<gone, added, faults, edits>>

At(ls) == {Dest[l] : l \in ls}
Active == {"running"}
Retryable == {"failed", "cancelled", "interrupted"}

\* asked: what the first job of the chain of retries selected; ids: what this
\* one did; done: its succeeded rows; base: the inventory of the view it was
\* admitted with; lost: slots the user emptied since it was seen that they are done.
Job == [status : Active \cup Retryable \cup {"succeeded"}, asked : SUBSET Listings,
        ids : SUBSET Listings, done : SUBSET Listings, base : SUBSET Slots,
        stop : BOOLEAN, lost : SUBSET Slots]
\* at: how far the request is; of: the job it retries; kept: completed and
\* verified; seen: the rescan, and then the plan read; rest: what to ask again.
Retry == [at : {"none", "verified", "scanned", "put", "selected", "refused"},
          of : 0..MaxJobs, kept : SUBSET Listings, seen : SUBSET Slots,
          rest : SUBSET Listings, base : SUBSET Slots, lost : SUBSET Slots]
NoRetry == [at |-> "none", of |-> 0, kept |-> {}, seen |-> {}, rest |-> {},
            base |-> {}, lost |-> {}]

TypeOK ==
    /\ files \in SUBSET Slots /\ scan \in SUBSET Slots
    /\ shown \in SUBSET Slots /\ snap \in SUBSET Slots
    /\ jobs \in Seq(Job) /\ Len(jobs) <= MaxJobs
    /\ worker \in {"off", "listing", "next", "fetched", "placed", "exited", "failed"}
    /\ todo \in SUBSET Listings /\ cur \in Listings \cup {0}
    /\ tell \in SUBSET Listings /\ bad \in BOOLEAN
    /\ pipe \in Seq(Listings)
    /\ up \in BOOLEAN /\ reader \in {"idle", "read", "stored"} /\ copy \in SUBSET Slots
    /\ retry \in Retry
    /\ gone \in SUBSET Slots /\ added \in SUBSET Slots
    /\ faults \in 0..MaxFaults /\ edits \in 0..MaxEdits

\* A library scanned when the view was published, before any download.
Init ==
    /\ files \in SUBSET Slots
    /\ scan = files /\ shown = files /\ snap = files
    /\ jobs = <<>>
    /\ worker = "off" /\ todo = {} /\ cur = 0 /\ tell = {} /\ bad = FALSE /\ pipe = <<>>
    /\ up = TRUE /\ reader = "idle" /\ copy = {} /\ retry = NoRetry
    /\ gone = {} /\ added = {} /\ faults = 0 /\ edits = 0

Last == Len(jobs)
Busy == Last > 0 /\ jobs[Last].status = "running"
Fault == faults < MaxFaults /\ faults' = faults + 1

(***************************************************************************)
(* Admission.                                                              *)
(***************************************************************************)
\* plan_series: a listing whose slot the row shows is "present", another is a
\* "download".  An action's id digests its action, so a row that has become
\* present is no longer the action that was selected.
Executable == {l \in Listings : Dest[l] \notin shown}

\* Mutant of NewJob: the row is written as queued and stays so.
NewJobQueued(asked, ids, base, lost) ==
    [status |-> "queued", asked |-> asked, ids |-> ids, done |-> {}, base |-> base,
     stop |-> FALSE, lost |-> lost]
NewJob(asked, ids, base, lost) ==
    [status |-> "running", asked |-> asked, ids |-> ids, done |-> {}, base |-> base,
     stop |-> FALSE, lost |-> lost]

StartWorker(job) ==
    /\ ~Busy /\ reader = "idle" /\ Len(jobs) < MaxJobs
    /\ jobs' = Append(jobs, job)
    /\ worker' = "listing" /\ todo' = {} /\ cur' = 0 /\ tell' = {} /\ bad' = FALSE

\* POST /api/jobs under manifest_lock: the ids must be executable in the plan
\* of the moment, whatever plan the browser saw.
PostDownload(ids) ==
    /\ up /\ ids # {} /\ ids \subseteq Executable
    /\ StartWorker(NewJob(ids, ids, scan, {}))
    /\ UNCHANGED <<files, row, pipe, server, retry, history>>

\* A refresh job with the disk part: it scans and publishes row and snapshot.
Refresh ==
    /\ up /\ ~Busy /\ reader = "idle"
    /\ scan' = files /\ shown' = files /\ snap' = files
    /\ UNCHANGED <<files, jobs, process, pipe, server, retry, history>>

(***************************************************************************)
(* The worker: _run_dropout.                                               *)
(***************************************************************************)
\* sort_download_jobs
First(l, ls) == l \in ls /\ \A m \in ls : Dest[l] < Dest[m] \/ (Dest[l] = Dest[m] /\ l <= m)
Selected == jobs[Last].ids

\* The library is listed once; what is already there is not a download of this
\* run and gets no item result.
List ==
    /\ worker = "listing"
    /\ todo' = {l \in Selected : Dest[l] \notin files}
    /\ worker' = "next"
    /\ UNCHANGED <<files, row, jobs, cur, tell, bad, pipe, server, retry, history>>

\* The configuration or a listing means something else than what was admitted,
\* the provider refuses the cookies, or it does not answer: nothing is done.
ListFails ==
    /\ worker = "listing" /\ Fault
    /\ worker' = "failed"
    /\ UNCHANGED <<files, row, jobs, todo, cur, tell, bad, pipe, server, retry,
                   gone, added, edits>>

\* worker.py answers an item_done with one item result for every selected
\* action of the slot.
Tells(s) == tell' = {l \in Selected : Dest[l] = s}

\* The slot was filled since the listing, by a sibling or by the user.
SkipOccupied ==
    /\ worker = "next"
    /\ \E l \in todo :
        /\ First(l, todo) /\ Dest[l] \in files
        /\ cur' = l /\ todo' = todo \ {l} /\ Tells(Dest[l])
    /\ worker' = "placed"
    /\ UNCHANGED <<files, row, jobs, bad, pipe, server, retry, history>>

\* Mutant of Fetch: the slot is not looked at again before the download.
FetchUnchecked ==
    /\ worker = "next"
    /\ \E l \in todo : First(l, todo) /\ cur' = l /\ todo' = todo \ {l}
    /\ worker' = "fetched"
    /\ UNCHANGED <<files, row, jobs, tell, bad, pipe, server, retry, history>>

Fetch ==
    /\ worker = "next"
    /\ \E l \in todo :
        /\ First(l, todo) /\ Dest[l] \notin files
        /\ cur' = l /\ todo' = todo \ {l}
    /\ worker' = "fetched"
    /\ UNCHANGED <<files, row, jobs, tell, bad, pipe, server, retry, history>>

\* A failed episode is reported and the run goes on; without authentication the
\* rest of it is left.
FetchFails ==
    /\ worker = "fetched" /\ Fault
    /\ bad' = TRUE /\ cur' = 0
    /\ todo' \in {todo, {}}
    /\ worker' = IF up THEN "next" ELSE "failed"
    /\ UNCHANGED <<files, row, jobs, tell, pipe, server, retry, gone, added, edits>>

\* promote_episode: the file appears in the library at once, by a rename, over
\* whatever is there.
Promote ==
    /\ worker = "fetched"
    /\ files' = files \cup {Dest[cur]}
    /\ gone' = gone \ {Dest[cur]} /\ added' = added \ {Dest[cur]}
    /\ worker' = "placed" /\ Tells(Dest[cur])
    /\ UNCHANGED <<row, jobs, todo, cur, bad, pipe, server, retry, faults, edits>>

PromoteFails ==
    /\ worker = "fetched" /\ Fault
    /\ worker' = "failed"
    /\ UNCHANGED <<files, row, jobs, todo, cur, tell, bad, pipe, server, retry,
                   gone, added, edits>>

\* In the order of the request's ids, which is that of the plan.  Without a
\* server the pipe is broken: emit raises.
Report ==
    /\ worker = "placed"
    /\ \E l \in tell :
        /\ First(l, tell)
        /\ tell' = tell \ {l}
        /\ pipe' = IF up THEN Append(pipe, l) ELSE pipe
    /\ worker' = IF ~up THEN "failed" ELSE IF tell' = {} THEN "next" ELSE "placed"
    /\ cur' = IF worker' = "next" THEN 0 ELSE cur
    /\ UNCHANGED <<files, row, jobs, todo, bad, server, retry, history>>

\* finish: the exit status tells whether an episode failed.
RunEnds ==
    /\ worker = "next" /\ todo = {}
    /\ worker' = IF bad THEN "failed" ELSE "exited"
    /\ UNCHANGED <<files, row, jobs, todo, cur, tell, bad, pipe, server, retry, history>>

(***************************************************************************)
(* The coordinator.                                                        *)
(***************************************************************************)
\* _record_downloaded_action runs in a thread: it reads the row, patches the
\* inventory in it, and writes row and snapshot.
RecordRead ==
    /\ up /\ reader = "idle" /\ pipe # <<>>
    /\ copy' = shown /\ reader' = "read"
    /\ UNCHANGED <<files, row, jobs, process, pipe, up, retry, history>>

\* Mutant of RecordWrite: the first confirmed item marks the whole selection.
RecordWriteAll ==
    /\ up /\ reader = "read"
    /\ shown' = copy \cup At(Selected)
    /\ snap' = snap \cup {Dest[Head(pipe)]}
    /\ reader' = "stored"
    /\ UNCHANGED <<files, scan, jobs, process, pipe, up, copy, retry, history>>

RecordWrite ==
    /\ up /\ reader = "read"
    /\ shown' = copy \cup {Dest[Head(pipe)]}
    /\ snap' = snap \cup {Dest[Head(pipe)]}
    /\ reader' = "stored"
    /\ UNCHANGED <<files, scan, jobs, process, pipe, up, copy, retry, history>>

\* Mutant of StoreItem: a result without its action's id counts for every item.
StoreItemAll ==
    /\ up /\ reader = "stored"
    /\ jobs' = [jobs EXCEPT ![Last].done = Selected]
    /\ pipe' = Tail(pipe) /\ reader' = "idle" /\ copy' = {}
    /\ UNCHANGED <<files, row, process, up, retry, history>>

StoreItem ==
    /\ up /\ reader = "stored"
    /\ jobs' = [jobs EXCEPT ![Last].done = @ \cup {Head(pipe)}]
    /\ pipe' = Tail(pipe) /\ reader' = "idle" /\ copy' = {}
    /\ UNCHANGED <<files, row, process, up, retry, history>>

Cancel ==
    /\ up /\ Busy /\ ~jobs[Last].stop /\ Fault
    /\ jobs' = [jobs EXCEPT ![Last].stop = TRUE]
    /\ worker' = "failed"
    /\ UNCHANGED <<files, row, todo, cur, tell, bad, pipe, server, retry, gone, added, edits>>

JobEnds ==
    /\ up /\ Busy /\ worker \in {"exited", "failed"} /\ pipe = <<>> /\ reader = "idle"
    /\ jobs' = [jobs EXCEPT ![Last].status =
                    IF jobs[Last].stop THEN "cancelled"
                    ELSE IF worker = "exited" THEN "succeeded" ELSE "failed"]
    /\ worker' = "off" /\ cur' = 0 /\ tell' = {} /\ todo' = {} /\ bad' = FALSE
    /\ UNCHANGED <<files, row, pipe, server, retry, history>>

\* The server dies with what it holds; its worker goes on until it notices or
\* until the next server stops it.
Crash ==
    /\ up /\ Fault
    /\ up' = FALSE /\ reader' = "idle" /\ copy' = {} /\ pipe' = <<>> /\ retry' = NoRetry
    /\ UNCHANGED <<files, row, jobs, process, gone, added, edits>>

Restart ==
    /\ ~up
    /\ up' = TRUE /\ worker' = "off" /\ cur' = 0 /\ tell' = {} /\ todo' = {} /\ bad' = FALSE
    /\ jobs' = IF Busy THEN [jobs EXCEPT ![Last].status = "interrupted"] ELSE jobs
    /\ UNCHANGED <<files, row, pipe, reader, copy, retry, history>>

(***************************************************************************)
(* POST /api/jobs/{id}/retry, one await after another.  Only the last step *)
(* holds manifest_lock, and only it looks at the active job.               *)
(***************************************************************************)
\* Mutant of RetryVerify: a succeeded row is taken at its word.
RetryVerifyTrusting(j) ==
    /\ up /\ retry.at \in {"none", "refused"} /\ j \in 1..Last /\ jobs[j].status \in Retryable
    /\ retry' = [NoRetry EXCEPT !.at = "verified", !.of = j, !.kept = jobs[j].done,
                              !.lost = jobs[j].lost \ At(jobs[j].ids)]
    /\ UNCHANGED <<files, row, jobs, process, pipe, server, history>>

\* store.completed_items, then verify_completed_actions: a download counts as
\* done where its slot has a file and had none in the view it was admitted with.
RetryVerify(j) ==
    /\ up /\ retry.at \in {"none", "refused"} /\ j \in 1..Last /\ jobs[j].status \in Retryable
    /\ LET verified == {l \in jobs[j].ids : Dest[l] \in files \ jobs[j].base}
       IN retry' = [NoRetry EXCEPT !.at = "verified", !.of = j,
                                   !.kept = jobs[j].done \cap verified,
                                   !.lost = jobs[j].lost \ At(jobs[j].ids)]
    /\ UNCHANGED <<files, row, jobs, process, pipe, server, history>>

\* refresh_cached_disk_views: a second scan; no plan is made for a library that
\* cannot be read.
RetryScan ==
    /\ up /\ retry.at = "verified"
    /\ retry' = [retry EXCEPT !.at = "scanned", !.seen = files]
    /\ UNCHANGED <<files, row, jobs, process, pipe, server, history>>

RetryPut ==
    /\ up /\ retry.at = "scanned"
    /\ scan' = retry.seen /\ shown' = retry.seen
    /\ retry' = [retry EXCEPT !.at = "put", !.seen = {}]
    /\ UNCHANGED <<files, snap, jobs, process, pipe, server, history>>

\* latest_plan and executable_selection: what is not completed and verified
\* must be executable now.
RetrySelect ==
    /\ up /\ retry.at = "put"
    /\ LET rest == jobs[retry.of].ids \ retry.kept
       IN retry' = IF rest \subseteq Executable
                   THEN [retry EXCEPT !.at = "selected", !.seen = {}, !.kept = {},
                                      !.rest = rest, !.base = scan]
                   ELSE [NoRetry EXCEPT !.at = "refused"]
    /\ UNCHANGED <<files, row, jobs, process, pipe, server, history>>

RetryStart ==
    /\ up /\ retry.at = "selected" /\ retry.rest # {}
    /\ StartWorker(NewJob(jobs[retry.of].asked, retry.rest, retry.base, retry.lost))
    /\ retry' = NoRetry
    /\ UNCHANGED <<files, row, pipe, server, history>>

\* JOB_CONFLICT: nothing is left to ask, or another job is active.
RetryConflict ==
    /\ up /\ retry.at = "selected" /\ (retry.rest = {} \/ Busy)
    /\ retry' = NoRetry
    /\ UNCHANGED <<files, row, jobs, process, pipe, server, history>>

(***************************************************************************)
(* The user, on the file system.                                           *)
(***************************************************************************)
PutFile(s) ==
    /\ edits < MaxEdits /\ edits' = edits + 1 /\ s \notin files
    /\ files' = files \cup {s} /\ added' = added \cup {s} /\ gone' = gone \ {s}
    /\ UNCHANGED <<row, jobs, process, pipe, server, retry, faults>>

TakeFile(s) ==
    /\ edits < MaxEdits /\ edits' = edits + 1 /\ s \in files
    /\ files' = files \ {s} /\ gone' = gone \cup {s} /\ added' = added \ {s}
    /\ jobs' = [j \in 1..Last |-> [jobs[j] EXCEPT !.lost = @ \cup {s}]]
    /\ retry' = IF retry.at \in {"none", "refused"} THEN retry ELSE [retry EXCEPT !.lost = @ \cup {s}]
    /\ UNCHANGED <<row, process, pipe, server, faults>>

Work == List \/ SkipOccupied \/ Fetch \/ Promote \/ Report \/ RunEnds
Failures == ListFails \/ FetchFails \/ PromoteFails
Coordinate == RecordRead \/ RecordWrite \/ StoreItem \/ JobEnds
RetrySteps == RetryScan \/ RetryPut \/ RetrySelect \/ RetryStart \/ RetryConflict

Next ==
    \/ \E ids \in SUBSET Listings : PostDownload(ids)
    \/ Refresh \/ Work \/ Failures \/ Coordinate \/ Cancel \/ Crash \/ Restart
    \/ \E j \in 1..MaxJobs : RetryVerify(j)
    \/ RetrySteps
    \/ \E s \in Slots : PutFile(s) \/ TakeFile(s)

Spec == Init /\ [][Next]_vars

(***************************************************************************)
(* Properties.                                                             *)
(***************************************************************************)
\* A job that succeeded, however many retries it took, leaves every episode the
\* first selection asked for in the library, but for those the user took out
\* after the retry had verified them: a retry drops no episode that is not there
\* (app.py:1869), and the worker reports no failed run as done.
SuccessIsComplete ==
    \A j \in 1..Last : jobs[j].status = "succeeded" =>
        At(jobs[j].asked) \subseteq files \cup jobs[j].lost

\* A succeeded row is a file: an item result never runs ahead of the rename
\* that places the episode (dropout.py:848), whichever listing of the slot it is
\* sent for, and a failed episode has none.
RecordedIsPlaced ==
    \A j \in 1..Last : At(jobs[j].done) \subseteq files \cup jobs[j].lost

\* The inventory, in the row and in the snapshot, hides no missing episode: what
\* the queue no longer offers is in the library unless the user took it out,
\* whatever retries and recorded items overwrite each other's rows.
InventoryHonest == shown \cup snap \subseteq files \cup gone

\* No episode is placed over another: the file a promotion replaces can only be
\* one the user put there while the episode was fetched (dropout.py:767).
NothingOverwritten ==
    [][worker = "fetched" /\ worker' = "placed" =>
          Dest[cur] \notin files \/ Dest[cur] \in added]_vars

\* README.md:159: a retry "checks library state, and skips verified completed
\* items".  So only changes others made to the library refuse it.
RetryAccepted == retry.at = "refused" => edits > 0
=============================================================================
