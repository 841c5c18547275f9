--------------------------- MODULE JobCoordinator ---------------------------
(***************************************************************************)
(* server/jobs.py and the jobs and job_items tables of server/job_store.py:*)
(* one asyncio thread that admits a job, runs it in private worker         *)
(* processes (one per target of a refresh, one for any other kind), reads  *)
(* their stdout, stops them on cancel, timeout, protocol error and         *)
(* shutdown, and, after a crash, stops what a previous server left behind. *)
(*                                                                         *)
(* An action is what the event loop runs between two awaits, a step of a   *)
(* worker process, or a fault.  Time is not modelled: a deadline may pass  *)
(* whenever the code waits with one.                                       *)
(***************************************************************************)
EXTENDS Naturals, Sequences, FiniteSets

CONSTANTS
  Jobs,        \* job ids, each used once (uuid4)
  MaxItems,    \* bound on the targets of a refresh, or the items of another job
  Retain,      \* how many finished jobs retain() keeps (100)
  PipeBound,   \* bound on the events a worker writes ahead of the reader
  MaxCrashes,  \* bound on the crashes of the server
  NoJob, NoWorker,
  Runner, ServerStop  \* callers of _terminate that are not a cancel request

Items == 1..MaxItems
Workers == Jobs \X Items       \* <<j, i>>: the i-th worker process of job j
Callers == Jobs \cup {Runner, ServerStop}   \* caller j is the cancel request for job j

ASSUME BoundsAssumption == /\ MaxItems \in Nat \ {0} /\ Retain \in Nat \ {0}
                           /\ PipeBound \in Nat \ {0} /\ MaxCrashes \in Nat
                           /\ IsFiniteSet(Jobs)
ASSUME NamesAssumption == /\ NoJob \notin Jobs /\ NoWorker \notin Workers
                          /\ Runner \notin Jobs /\ ServerStop \notin Jobs
                          /\ Runner # ServerStop

Active == {"queued", "running", "stopping"}
Terminal == {"succeeded", "failed", "cancelled", "interrupted"}
Errors == {"none", "SOURCE_TIMEOUT", "SOURCE_FAILED", "WORKER_FAILED"}
Verdicts == {"none", "ok", "bad"}

Event(type, item, ok) == [type |-> type, item |-> item, ok |-> ok]
Events == [type : {"item", "result", "error", "garbage"}, item : 0..MaxItems, ok : BOOLEAN]

VARIABLES
  \* the jobs table, in SQLite: it survives a crash
  status,     \* status[j], "absent" before the row exists, "deleted" after retain()
  born,       \* created_at, as a rank
  ident,      \* worker_pid and worker_start of the row written last
  \* the row of self._task's job and its job_items; the coordinator writes no other row's
  kind,       \* "refresh", or "single" for download, check and diagnostics
  want,       \* how many targets (refresh) or items (single) the request names
  item,       \* item[i]: the recorded result of item i
  error,      \* error_json
  \* JobCoordinator and the task of _run, in memory
  server,     \* "up", "closing" (shutdown under way) or "down"
  active,     \* the job of self._task, the last one started since boot
  pc,         \* where _run is; "idle" when the task is done or there is none
  idx,        \* the target _run is at
  cancelled,  \* the event self._cancel
  proc,       \* self._proc
  rd,         \* what read_stdout has collected of the current worker
  acc,        \* what _run has accumulated over the targets of a refresh
  call,       \* the _terminate and gather calls under way, by caller
  \* the current worker, seen from outside
  pipe,       \* what of its stdout is written and not yet read
  said,       \* how many item results it has written
  unread,     \* part of its request is still in the server's buffer
  clean,      \* it exited with status 0
  \* processes
  leader,     \* leader[w]: the worker itself
  kids,       \* kids[w]: its descendants in the process group
  crashes

dbVars == <<status, born, ident>>
rowVars == <<kind, want, item, error>>
taskVars == <<active, pc, idx, proc, acc>>
outVars == <<pipe, said, unread, clean>>
osVars == <<leader, kids>>
vars == <<dbVars, rowVars, server, taskVars, cancelled, rd, call, outVars, osVars, crashes>>

PCs == {"idle", "created", "spawn", "abort", "send", "wait", "kill", "drain"}
CallPhases == {"idle", "ask", "kill", "gather"}
NoCall == [phase |-> "idle", aim |-> NoWorker, awaits |-> NoJob]
FreshReader == [result |-> "none", error |-> "none", proto |-> FALSE,
                rows |-> FALSE, itemsOk |-> TRUE]
FreshAcc == [failed |-> FALSE, rows |-> FALSE, allOk |-> TRUE, error |-> "none"]

DbType == /\ status \in [Jobs -> {"absent", "deleted"} \cup Active \cup Terminal]
          /\ born \in [Jobs -> Nat]
          /\ ident \in Workers \cup {NoWorker}
RowType == /\ kind \in {"refresh", "single"} /\ want \in Items
           /\ item \in [Items -> {"none", "succeeded", "failed"}]
           /\ error \in Errors
TaskType == /\ active \in Jobs \cup {NoJob}
            /\ pc \in PCs /\ idx \in Items
            /\ proc \in Workers \cup {NoWorker}
            /\ acc \in [failed : BOOLEAN, rows : BOOLEAN, allOk : BOOLEAN, error : Errors]
ReaderType == rd \in [result : Verdicts, error : Errors, proto : BOOLEAN,
                      rows : BOOLEAN, itemsOk : BOOLEAN]
CallType == call \in [Callers -> [phase : CallPhases, aim : Workers \cup {NoWorker},
                                  awaits : Jobs \cup {NoJob}]]
OutType == /\ pipe \in Seq(Events) /\ said \in 0..MaxItems
           /\ unread \in BOOLEAN /\ clean \in BOOLEAN
OsType == /\ leader \in [Workers -> {"none", "waiting", "working", "finished", "exited", "reaped"}]
          /\ kids \in [Workers -> {"none", "holding", "detached"}]
ServerType == server \in {"up", "closing", "down"} /\ cancelled \in BOOLEAN

TypeOK == /\ DbType /\ RowType /\ TaskType /\ ReaderType /\ CallType
          /\ OutType /\ OsType /\ ServerType /\ crashes \in 0..MaxCrashes

Init ==
  /\ status = [j \in Jobs |-> "absent"]
  /\ born = [j \in Jobs |-> 0]
  /\ ident = NoWorker
  /\ kind = "single" /\ want = 1
  /\ item = [i \in Items |-> "none"]
  /\ error = "none"
  /\ server = "down"
  /\ active = NoJob /\ pc = "idle" /\ idx = 1 /\ proc = NoWorker
  /\ acc = FreshAcc /\ rd = FreshReader
  /\ cancelled = FALSE
  /\ call = [c \in Callers |-> NoCall]
  /\ pipe = <<>> /\ said = 0 /\ unread = FALSE /\ clean = FALSE
  /\ leader = [w \in Workers |-> "none"]
  /\ kids = [w \in Workers |-> "none"]
  /\ crashes = 0

-----------------------------------------------------------------------------
(***************************************************************************)
(* Signals and process groups.  start_new_session makes the worker the     *)
(* leader of its own group; the group exists until the leader is reaped    *)
(* and no descendant is left.                                              *)
(***************************************************************************)
Alive == {"waiting", "working", "finished"}
ZombieGroupExists(w) == leader[w] # "none"   \* defect: a reaped leader counts
LeaderExists(w) == leader[w] \in Alive \cup {"exited"}   \* defect: descendants do not count
GroupExists(w) == leader[w] \in Alive \cup {"exited"} \/ kids[w] # "none"

(* A defect: the leader alone is killed.                                   *)
KillLeader(ws) ==
  /\ leader' = [w \in Workers |-> IF w \in ws /\ leader[w] \in Alive THEN "exited" ELSE leader[w]]
  /\ UNCHANGED kids

(* killpg(w, SIGKILL): nobody in the group survives, the leader stays a    *)
(* zombie until its parent reaps it.                                       *)
Kill(ws) ==
  /\ leader' = [w \in Workers |-> IF w \in ws /\ leader[w] \in Alive THEN "exited" ELSE leader[w]]
  /\ kids' = [w \in Workers |-> IF w \in ws THEN "none" ELSE kids[w]]

(* The first step of _terminate(proc), up to its first sleep: SIGINT.      *)
Terminating(w) == [phase |-> "ask", aim |-> w, awaits |-> NoJob]

(* await gather(self._task): self._task is read when the await begins.     *)
Gathering == [phase |-> "gather", aim |-> NoWorker, awaits |-> active]

(* The process a call to _terminate signals: the one it was given.  The    *)
(* defect reads self._proc again after each sleep.                         *)
CurrentTarget(c) == proc
Target(c) == call[c].aim

(* SIGINT, then SIGTERM asked the group to stop, and it is still there     *)
(* five and two seconds later: SIGKILL.  A write cut short leaves a partial*)
(* line.                                                                   *)
Escalate(c) ==
  LET w == Target(c) IN
  /\ call[c].phase = "ask"
  /\ GroupExists(w)
  /\ call' = [call EXCEPT ![c].phase = "kill"]
  /\ Kill({w})
  /\ \/ UNCHANGED pipe
     \/ /\ w = proc /\ leader[w] = "working" /\ ~rd.proto
        /\ pipe' = Append(pipe, Event("garbage", 0, FALSE))
  /\ UNCHANGED <<dbVars, rowVars, server, taskVars, cancelled, rd, said, unread, clean, crashes>>

(* The group is gone: a cancel request or shutdown() goes on to wait for   *)
(* the task, the runner to drain its readers.                              *)
TerminateReturns(c) ==
  /\ call[c].phase \in {"ask", "kill"}
  /\ ~GroupExists(Target(c))
  /\ \/ /\ c # Runner
        /\ call' = [call EXCEPT ![c] = Gathering]
        /\ UNCHANGED pc
     \/ /\ c = Runner /\ pc = "kill"
        /\ call' = [call EXCEPT ![c] = NoCall]
        /\ pc' = "drain"
  /\ UNCHANGED <<dbVars, rowVars, server, active, idx, proc, acc, cancelled, rd,
                 outVars, osVars, crashes>>

-----------------------------------------------------------------------------
(* What the server process held in memory goes with it, and its ends of the*)
(* worker's pipes.  No new server writes to an old job's items, whose rows *)
(* are forgotten here too.                                                 *)
MemoryLost ==
  /\ server' = "down"
  /\ kind' = "single" /\ want' = 1
  /\ item' = [i \in Items |-> "none"]
  /\ error' = "none"
  /\ active' = NoJob /\ pc' = "idle" /\ idx' = 1 /\ proc' = NoWorker
  /\ acc' = FreshAcc /\ rd' = FreshReader
  /\ cancelled' = FALSE
  /\ call' = [c \in Callers |-> NoCall]
  /\ pipe' = <<>> /\ said' = 0 /\ unread' = FALSE /\ clean' = FALSE

(***************************************************************************)
(* Requests: start, cancel, shutdown.                                      *)
(***************************************************************************)
NothingRunning == \A k \in Jobs : status[k] # "running"   \* defect
NothingActive == \A k \in Jobs : status[k] \notin Active

Start(j, k, n) ==
  /\ server = "up"
  /\ status[j] = "absent"
  /\ NothingActive
  /\ status' = [status EXCEPT ![j] = "queued"]
  /\ born' = [born EXCEPT ![j] = 1 + Cardinality({i \in Jobs : born[i] > 0})]
  /\ ident' = NoWorker
  /\ kind' = k /\ want' = n
  /\ item' = [i \in Items |-> "none"] /\ error' = "none"
  /\ active' = j /\ pc' = "created" /\ idx' = 1 /\ acc' = FreshAcc
  /\ cancelled' = FALSE
  /\ UNCHANGED <<server, proc, rd, call, outVars, osVars, crashes>>

(* cancel() checks the row, marks it and reads self._proc without an await *)
(* between them.  Nobody knows the id of a job that start() has not yet    *)
(* returned, and its task is scheduled before the answer is sent.          *)
Cancel(j) ==
  /\ server = "up"
  /\ status[j] \in Active /\ pc # "created"
  /\ call[j].phase = "idle"
  /\ status' = [status EXCEPT ![j] = "stopping"]
  /\ cancelled' = TRUE
  /\ \/ /\ proc # NoWorker
        /\ call' = [call EXCEPT ![j] = Terminating(proc)]
     \/ /\ proc = NoWorker
        /\ call' = [call EXCEPT ![j] = Gathering]
  /\ UNCHANGED <<born, ident, rowVars, server, taskVars, rd, outVars, leader, kids, crashes>>

TaskDone(j) == pc = "idle" \/ active # j

CancelReturns(j) ==
  /\ call[j].phase = "gather"
  /\ TaskDone(call[j].awaits)
  /\ call' = [call EXCEPT ![j] = NoCall]
  /\ UNCHANGED <<dbVars, rowVars, server, taskVars, cancelled, rd, outVars, osVars, crashes>>

(* The lifespan's shutdown begins when no request is in flight.            *)
Shutdown ==
  /\ server = "up"
  /\ \A j \in Jobs : call[j].phase = "idle"
  /\ server' = "closing"
  /\ \/ /\ pc = "idle"
        /\ call' = [call EXCEPT ![ServerStop] = Gathering]
        /\ UNCHANGED cancelled
     \/ /\ pc # "idle" /\ proc = NoWorker
        /\ cancelled' = TRUE
        /\ call' = [call EXCEPT ![ServerStop] = Gathering]
     \/ /\ pc # "idle" /\ proc # NoWorker
        /\ cancelled' = TRUE
        /\ call' = [call EXCEPT ![ServerStop] = Terminating(proc)]
  /\ UNCHANGED <<dbVars, rowVars, taskVars, rd, outVars, leader, kids, crashes>>

ShutdownReturns ==
  /\ call[ServerStop].phase = "gather"
  /\ TaskDone(call[ServerStop].awaits)
  /\ MemoryLost
  /\ UNCHANGED <<dbVars, osVars, crashes>>

-----------------------------------------------------------------------------
(***************************************************************************)
(* The task: _run and _run_worker.                                         *)
(***************************************************************************)

(* The first slice of _run, up to create_subprocess_exec.                  *)
BeginRun ==
  /\ pc = "created"
  /\ status' = [status EXCEPT ![active] = "running"]
  /\ pc' = "spawn"
  /\ UNCHANGED <<born, ident, rowVars, server, active, idx, proc, acc, cancelled, rd, call,
                 outVars, osVars, crashes>>

(* The row names the worker.                                               *)
Record(w) == ident' = w

(* create_subprocess_exec returned.  The worker's identity is recorded,    *)
(* and only then is its request written, unless the job was cancelled      *)
(* while it was created.  A request that fits the pipe is the worker's; of *)
(* a larger one (it may hold whole cached views) the rest is in the        *)
(* server's buffer, and above the limit of that drain() waits.             *)
SpawnWorker ==
  LET w == <<active, idx>> IN
  /\ pc = "spawn"
  /\ proc' = w
  /\ Record(w)
  /\ said' = 0 /\ clean' = FALSE
  /\ \/ /\ cancelled
        /\ leader' = [leader EXCEPT ![w] = "waiting"]
        /\ unread' = FALSE
        /\ pc' = "abort"
        /\ call' = [call EXCEPT ![Runner] = Terminating(w)]
     \/ /\ ~cancelled
        /\ leader' = [leader EXCEPT ![w] = "working"]
        /\ unread' = FALSE
        /\ pc' = "wait"
        /\ UNCHANGED call
     \/ /\ ~cancelled
        /\ leader' = [leader EXCEPT ![w] = "waiting"]
        /\ unread' = TRUE
        /\ pc' \in {"send", "wait"}
        /\ UNCHANGED call
  /\ UNCHANGED <<status, born, rowVars, server, active, idx, acc, cancelled, rd, pipe,
                 kids, crashes>>

(* The worker reads on, the rest of a large request or part of it: drain() *)
(* returns once little is left.                                            *)
ReadsRequest ==
  /\ pc \in {"send", "wait", "kill"}
  /\ leader[proc] = "waiting"
  /\ \/ /\ leader' = [leader EXCEPT ![proc] = "working"]
        /\ unread' = FALSE
     \/ /\ pc = "send"
        /\ UNCHANGED <<leader, unread>>
  /\ pc' = IF pc = "send" THEN "wait" ELSE pc
  /\ UNCHANGED <<dbVars, rowVars, server, active, idx, proc, acc, cancelled, rd, call,
                 pipe, said, clean, kids, crashes>>

(* One line of stdout.  Publishing a refreshed view can turn a good result *)
(* into a failed one (the configuration changed), and what is done with an *)
(* item can itself raise.                                                  *)
ReadEvent ==
  LET e == Head(pipe)
      refresh == kind = "refresh"
  IN
  /\ pc \in {"wait", "kill", "drain"}
  /\ pipe # <<>> /\ ~rd.proto
  /\ \/ /\ e.type = "item"
        /\ \E ok \in IF refresh THEN {e.ok, FALSE} ELSE {e.ok} :
             /\ item' = [item EXCEPT ![e.item] = IF ok THEN "succeeded" ELSE "failed"]
             /\ rd' = IF refresh THEN [rd EXCEPT !.rows = TRUE, !.itemsOk = @ /\ ok] ELSE rd
     \/ /\ e.type = "result"
        /\ rd' = [rd EXCEPT !.result =
                    IF (IF refresh THEN rd.itemsOk ELSE e.ok) THEN "ok" ELSE "bad"]
        /\ UNCHANGED item
     \/ /\ e.type = "error"
        /\ rd' = [rd EXCEPT !.error = "WORKER_FAILED"]
        /\ UNCHANGED item
     \/ /\ e.type \in {"garbage", "item"}
        /\ rd' = [rd EXCEPT !.proto = TRUE]
        /\ UNCHANGED item
  /\ pipe' = IF rd'.proto THEN <<>> ELSE Tail(pipe)
  /\ UNCHANGED <<dbVars, kind, want, error, server, taskVars, cancelled, call, said, unread,
                 clean, osVars, crashes>>

(* Both readers are at the end of their streams: nobody holds the worker's *)
(* stdout and stderr open, and what was written has been read.  The defect *)
(* leaves the reader behind.                                               *)
ClosedNotRead == leader[proc] = "reaped" /\ kids[proc] # "holding"
Drained == leader[proc] = "reaped" /\ kids[proc] # "holding" /\ pipe = <<>>

RunnerKills ==
  /\ pc' = "kill"
  /\ call' = [call EXCEPT ![Runner] = Terminating(proc)]
  /\ UNCHANGED <<dbVars, rowVars, server, active, idx, proc, acc, cancelled, outVars,
                 leader, kids, crashes>>

(* A defect: the deadline is not disarmed by the kill.                     *)
TimeoutAgain ==
  /\ pc \in {"wait", "drain"}
  /\ ~Drained
  /\ rd' = [rd EXCEPT !.error = "SOURCE_TIMEOUT"]
  /\ RunnerKills

(* The deadline passed before the worker was gone and its output read.     *)
Timeout ==
  /\ pc = "wait"
  /\ ~Drained
  /\ rd' = [rd EXCEPT !.error = "SOURCE_TIMEOUT"]
  /\ RunnerKills

(* stdout was not protocol v1 and the worker still runs.                   *)
RejectOutput ==
  /\ pc = "wait"
  /\ rd.proto /\ leader[proc] # "reaped"
  /\ UNCHANGED rd
  /\ RunnerKills

(* What _run_worker returns: a status, an error, and what of the worker's  *)
(* result _run will look at (verdict, and whether it has any row).         *)
Out(s, e, verdict, rows) == [status |-> s, error |-> e, verdict |-> verdict, rows |-> rows]

WorkerFailure(e) == IF e = "none" THEN "WORKER_FAILED" ELSE e

(* The end of _run_worker, once the readers are done.  A protocol error is *)
(* raised before the cancellation is looked at, and so is, by              *)
(* wait_closed(), that the request could not be written to its end.        *)
WorkerOutcome ==
  IF rd.proto \/ unread THEN Out("failed", "WORKER_FAILED", rd.result, rd.rows)
  ELSE IF cancelled THEN Out("cancelled", rd.error, rd.result, rd.rows)
  ELSE IF ~clean \/ rd.error # "none" \/ rd.result = "none"
    THEN Out("failed", WorkerFailure(rd.error), rd.result, rd.rows)
  ELSE Out(IF rd.result = "ok" THEN "succeeded" ELSE "failed", "none", rd.result, rd.rows)

(* _run adds a target's outcome to the results of the refresh: the rows of *)
(* the worker's result, or one failed row made from its error.             *)
AddsRows(out) == IF out.verdict # "none" THEN out.rows ELSE out.error # "none"
RowsOk(out) == IF out.verdict # "none" THEN out.verdict = "ok" ELSE out.error = "none"

AccumulateLast(out) ==   \* defect: the last target's outcome replaces the others
  [failed |-> out.status = "failed", rows |-> AddsRows(out), allOk |-> RowsOk(out),
   error |-> out.error]

Accumulate(out) ==
  [failed |-> acc.failed \/ out.status = "failed",
   rows   |-> acc.rows \/ AddsRows(out),
   allOk  |-> acc.allOk /\ RowsOk(out),
   error  |-> IF out.status # "failed" THEN acc.error
              ELSE IF out.error = "none" THEN "SOURCE_FAILED" ELSE out.error]

FailureFirst(out, a) ==  \* defect: an earlier target's failure hides the cancellation
  IF a.failed \/ ~a.rows \/ ~a.allOk THEN "failed" ELSE out.status

RefreshStatus(out, a) ==
  IF out.status = "cancelled" THEN "cancelled"
  ELSE IF a.failed \/ ~a.rows \/ ~a.allOk THEN "failed"
  ELSE "succeeded"

ExpiredNewest(j) ==      \* defect: ORDER BY created_at without DESC
  LET done == {k \in Jobs : k = j \/ status[k] \in Terminal}
  IN {k \in done : Cardinality({i \in done : born[i] < born[k]}) >= Retain}

(* retain(): of the finished jobs, j now among them, the older ones go.    *)
Expired(j) ==
  LET done == {k \in Jobs : k = j \/ status[k] \in Terminal}
  IN {k \in done : Cardinality({i \in done : born[i] > born[k]}) >= Retain}

(* The last slice of _run: the final update and retain().                  *)
FinishJob(j, s, e) ==
  LET expired == Expired(j) IN
  /\ status' = [k \in Jobs |-> IF k \in expired THEN "deleted"
                               ELSE IF k = j THEN s ELSE status[k]]
  /\ error' = e
  /\ pc' = "idle" /\ idx' = 1 /\ acc' = FreshAcc

LastTargetMissed == idx > want   \* defect
LastTarget == idx = want

(* _run_worker has returned out: the next target of a refresh, or the end. *)
EndWorker(out) ==
  LET a == Accumulate(out) IN
  /\ proc' = NoWorker /\ rd' = FreshReader
  /\ \/ /\ kind = "single"
        /\ FinishJob(active, out.status, out.error)
     \/ /\ kind = "refresh"
        /\ out.status = "cancelled" \/ LastTarget
        /\ FinishJob(active, RefreshStatus(out, a), a.error)
     \/ /\ kind = "refresh"
        /\ out.status # "cancelled" /\ ~LastTarget
        /\ status' = [status EXCEPT ![active] = "running"]
        /\ pc' = "spawn" /\ idx' = idx + 1 /\ acc' = a
        /\ UNCHANGED error
  /\ UNCHANGED <<born, ident, kind, want, item, server, active, cancelled, outVars, osVars,
                 crashes>>

WorkerDone ==
  /\ pc \in {"wait", "drain"}
  /\ Drained
  /\ EndWorker(WorkerOutcome)
  /\ UNCHANGED call

(* The worker was spawned after the cancellation and is gone.              *)
AbortDone ==
  /\ pc = "abort"
  /\ ~GroupExists(proc)
  /\ EndWorker(Out("cancelled", "none", "none", FALSE))
  /\ call' = [call EXCEPT ![Runner] = NoCall]

(* drain() raised: the worker died before it had read enough.              *)
SendFails ==
  /\ pc = "send"
  /\ leader[proc] \notin Alive
  /\ EndWorker(Out("failed", "WORKER_FAILED", "none", FALSE))
  /\ UNCHANGED call

(* create_subprocess_exec raised.                                          *)
SpawnFails ==
  /\ pc = "spawn"
  /\ EndWorker(Out("failed", "WORKER_FAILED", "none", FALSE))
  /\ UNCHANGED call

-----------------------------------------------------------------------------
(***************************************************************************)
(* Crash and restart.                                                      *)
(***************************************************************************)

(* The server is killed; a worker it was creating may exist unrecorded.    *)
Crash ==
  /\ server # "down"
  /\ crashes < MaxCrashes
  /\ crashes' = crashes + 1
  /\ MemoryLost
  /\ \/ /\ pc = "spawn"
        /\ leader' = [leader EXCEPT ![<<active, idx>>] = "waiting"]
     \/ UNCHANGED leader
  /\ UNCHANGED <<dbVars, kids>>

(* recover(): the group of a recorded worker is killed only while a        *)
(* process with the recorded pid and start time exists.                    *)
AbandonedRunning == {w \in Workers : /\ leader[w] \in Alive \cup {"exited"}   \* defect
                                     /\ status[w[1]] = "running" /\ ident = w}

Abandoned == {w \in Workers : /\ leader[w] \in Alive \cup {"exited"}
                              /\ status[w[1]] \in Active /\ ident = w}

Recovered(j) == IF status[j] \in Active THEN "interrupted" ELSE status[j]

Restart ==
  /\ server = "down"
  /\ server' = "up"
  /\ Kill(Abandoned)
  /\ status' = [j \in Jobs |-> Recovered(j)]
  /\ UNCHANGED <<born, ident, rowVars, taskVars, cancelled, rd, call, outVars, crashes>>

-----------------------------------------------------------------------------
(***************************************************************************)
(* The worker process (server/worker.py): main, and its watch_parent       *)
(* thread.                                                                 *)
(***************************************************************************)
ServerUnchanged ==
  UNCHANGED <<dbVars, rowVars, server, taskVars, cancelled, rd, call, crashes>>

(* What is written after the reader gave up is never read.                 *)
Write(event) == pipe' = IF rd.proto THEN pipe ELSE Append(pipe, event)

(* An item_result.  A refresh worker has one target, its own.              *)
WriteItem(w, ok) ==
  LET refresh == kind = "refresh" IN
  /\ leader[w] = "working" /\ w = proc
  /\ Len(pipe) < PipeBound
  /\ said < IF refresh THEN 1 ELSE want
  /\ said' = said + 1
  /\ Write(Event("item", IF refresh THEN w[2] ELSE said + 1, ok))
  /\ UNCHANGED <<unread, clean, osVars>>
  /\ ServerUnchanged

(* The result, the last line of an operation that did not raise.  That of  *)
(* a refresh is recomputed by the reader from the items.                   *)
WriteResult(w, ok) ==
  /\ leader[w] = "working" /\ w = proc
  /\ Len(pipe) < PipeBound
  /\ kind = "refresh" => said = 1 /\ ok
  /\ leader' = [leader EXCEPT ![w] = "finished"]
  /\ Write(Event("result", 0, ok))
  /\ UNCHANGED <<said, unread, clean, kids>>
  /\ ServerUnchanged

(* Exit status 0; an operation waits for the processes it starts.          *)
ExitClean(w) ==
  /\ leader[w] = "finished" /\ kids[w] = "none"
  /\ leader' = [leader EXCEPT ![w] = "exited"]
  /\ clean' = (w = proc)
  /\ UNCHANGED <<pipe, said, unread, kids>>
  /\ ServerUnchanged

(* An exception or KeyboardInterrupt, reported or, when it breaks into a   *)
(* write, a line that is no valid event; or the kernel kills the process,  *)
(* which says nothing.  Descendants may outlive it.                        *)
Fail(w) ==
  /\ leader[w] \in Alive
  /\ leader' = [leader EXCEPT ![w] = "exited"]
  /\ \/ UNCHANGED pipe
     \/ /\ leader[w] # "waiting" /\ w = proc
        /\ \E type \in {"error", "garbage"} : Write(Event(type, 0, FALSE))
  /\ UNCHANGED <<said, unread, clean, kids>>
  /\ ServerUnchanged

(* The operation starts a process: one that inherits the worker's stdout   *)
(* or stderr, or one that has its own (ffmpeg behind pipes).               *)
SpawnChild(w) ==
  /\ leader[w] = "working" /\ kids[w] = "none"
  /\ \E k \in {"holding", "detached"} : kids' = [kids EXCEPT ![w] = k]
  /\ UNCHANGED <<outVars, leader>>
  /\ ServerUnchanged

ChildExits(w) ==
  /\ kids[w] # "none"
  /\ kids' = [kids EXCEPT ![w] = "none"]
  /\ UNCHANGED <<outVars, leader>>
  /\ ServerUnchanged

(* asyncio's child watcher, or init after a crash.                         *)
Reap(w) ==
  /\ leader[w] = "exited"
  /\ leader' = [leader EXCEPT ![w] = "reaped"]
  /\ UNCHANGED <<outVars, kids>>
  /\ ServerUnchanged

(* EOF on stdin: without a request the worker just exits; with one it      *)
(* kills its own group.                                                    *)
ParentLost(w) ==
  /\ w # proc
  /\ \/ /\ leader[w] = "waiting"
        /\ leader' = [leader EXCEPT ![w] = "exited"]
        /\ UNCHANGED kids
     \/ /\ leader[w] \in {"working", "finished"}
        /\ Kill({w})
  /\ UNCHANGED outVars
  /\ ServerUnchanged

-----------------------------------------------------------------------------
Request ==
  \/ \E j \in Jobs, k \in {"refresh", "single"}, n \in Items : Start(j, k, n)
  \/ \E j \in Jobs : Cancel(j)
  \/ Shutdown

CallStep == \/ \E c \in Callers : Escalate(c) \/ TerminateReturns(c)
            \/ \E j \in Jobs : CancelReturns(j)
            \/ ShutdownReturns

TaskStep == \/ BeginRun \/ SpawnWorker \/ SpawnFails \/ SendFails \/ ReadEvent \/ RejectOutput
            \/ WorkerDone \/ AbortDone

ProcessStep(w) ==
  \/ \E ok \in BOOLEAN : WriteItem(w, ok) \/ WriteResult(w, ok)
  \/ ExitClean(w) \/ Fail(w) \/ SpawnChild(w) \/ ChildExits(w) \/ Reap(w) \/ ParentLost(w)

Next == \/ Request \/ CallStep \/ TaskStep \/ Timeout \/ ReadsRequest
        \/ Crash \/ Restart
        \/ \E w \in Workers : ProcessStep(w)

Spec == Init /\ [][Next]_vars

(***************************************************************************)
(* Fairness: the event loop runs what is ready, deadlines pass, the kernel *)
(* reaps and reports EOF, and a supervisor restarts the server.  Workers   *)
(* and clients are never obliged to do anything: a worker need not even    *)
(* read its request.                                                       *)
(***************************************************************************)
Fairness ==
  /\ WF_vars(TaskStep) /\ WF_vars(Timeout) /\ WF_vars(ShutdownReturns) /\ WF_vars(Restart)
  /\ \A c \in Callers : WF_vars(Escalate(c)) /\ WF_vars(TerminateReturns(c))
  /\ \A j \in Jobs : WF_vars(CancelReturns(j))
  /\ \A w \in Workers : WF_vars(Reap(w)) /\ WF_vars(ParentLost(w))

FairSpec == Spec /\ Fairness

-----------------------------------------------------------------------------
(***************************************************************************)
(* Properties.                                                             *)
(***************************************************************************)

(* While the server is up, a row is queued, running or stopping exactly    *)
(* when the coordinator's task is running that job: no cancel, finish or   *)
(* retention leaves a row that blocks every later start (JobConflict), and *)
(* no second job is ever admitted.  While it is down at most one row is    *)
(* left for recover().                                                     *)
ActiveRowIffTask ==
  /\ server # "down" => \A j \in Jobs : status[j] \in Active <=> pc # "idle" /\ active = j
  /\ \A j, k \in Jobs : status[j] \in Active /\ status[k] \in Active => j = k

(* A worker that has its request, hence may be changing media, is the one  *)
(* its unfinished job row names, so that recover() can always find it; and *)
(* while a server is up it is the current one: none of an earlier job,     *)
(* target or server is still at work beside it.                            *)
WorkerFindable ==
  \A w \in Workers : leader[w] \in {"working", "finished"} =>
    /\ status[w[1]] \in Active /\ ident = w
    /\ server # "down" => w = proc

(* Once stop was asked for, a job that ends ends cancelled (interrupted,   *)
(* by a crash); it fails only when the worker's output was malformed or it *)
(* ended before it had read its request, and never succeeds.               *)
CancelWins ==
  [][\A j \in Jobs :
       /\ cancelled /\ active = j
       /\ status[j] \in Active /\ status'[j] \notin Active
       => \/ status'[j] \in {"cancelled", "interrupted"}
          \/ status'[j] = "failed" /\ (rd.proto \/ unread \/ pc = "spawn")]_vars

(* The result of an item is written only while its job is unfinished and,  *)
(* in a refresh, only while the worker of that very target is current.     *)
NoLateResults ==
  [][\A i \in Items :
       item[i] = "none" /\ item'[i] # "none" =>
         status[active] \in Active /\ (kind = "refresh" => i = idx)]_vars

(* A refresh that succeeded has a good result for every target it named.   *)
SucceededIsComplete ==
  active # NoJob /\ status[active] = "succeeded" /\ kind = "refresh"
    => \A i \in 1..want : item[i] = "succeeded"

(* A cancel request signals its own job's worker only, and the runner the  *)
(* worker it is waiting for: a cancel that is still escalating when its job*)
(* has ended and the next one runs never hits the next job's worker.       *)
OwnTarget ==
  /\ \A j \in Jobs : call[j].phase \in {"ask", "kill"} => Target(j) \in {j} \X Items
  /\ call[Runner].phase # "idle" => Target(Runner) = proc

(* The coordinator implements the lifecycle of JobLifecycle.  In           *)
(* particular the row of the job that just ended survives the retention    *)
(* that runs with its last update, so that the cancel request and the page *)
(* polling it find its outcome.                                            *)
JobPhase(j) == IF status[j] = "absent" THEN "unborn"
               ELSE IF status[j] = "deleted" THEN "forgotten"
               ELSE IF status[j] \in Active THEN "active" ELSE status[j]

Lifecycle == INSTANCE JobLifecycle WITH phase <- [j \in Jobs |-> JobPhase(j)]

ImplementsLifecycle == Lifecycle!Spec

(* drain() waits for the worker to read a large request.                   *)
AwaitsReading == pc = "send" /\ leader[proc] = "waiting"

(* Whatever its workers do, an admitted job ends, unless nobody cancels it *)
(* while its worker does not read a large request.                         *)
ActiveEnds ==
  \A j \in Jobs : status[j] \in Active ~> status[j] \notin Active \/ (AwaitsReading /\ ~cancelled)

(* docs/web-only-foundation.md:109, "Timeouts: refresh 300s/target;        *)
(* download 21600s/job; check/diagnostics 300s": every admitted job ends.  *)
(* It does not hold: the deadline is set after drain(), which waits for a  *)
(* worker that does not read a large request.                              *)
JobsTimeOut == \A j \in Jobs : status[j] \in Active ~> status[j] \notin Active

(* A cancel request is answered.                                           *)
CancelAnswered == \A j \in Jobs : call[j].phase # "idle" ~> call[j].phase = "idle"

(* The group a call has asked to stop: it will be killed, or, killed, is   *)
(* gone or has only its leader left for the kernel to reap.                *)
GroupGoes(c) ==
  \/ call[c].phase = "ask"
  \/ call[c].phase = "kill" /\ (leader[Target(c)] = "exited" \/ ~GroupExists(Target(c)))

(* The step that _run waits for comes of itself or at a deadline.          *)
TaskGoesOn ==
  \/ pc \in {"created", "spawn", "wait"}
  \/ pc = "send" /\ leader[proc] \notin Alive
  \/ pc \in {"abort", "kill"} /\ GroupGoes(Runner)
  \/ pc = "drain" /\ (Drained \/ (pipe # <<>> /\ ~rd.proto))

(* No wait but one depends on a worker, a descendant of one or a client.   *)
(* _run has no deadline any more when it waits for both readers after a    *)
(* kill (jobs.py, _run_worker), nor have cancel() and shutdown() for a     *)
(* group they have killed, or for the task: whoever held a pipe open is    *)
(* gone by then, and the task waits for none of them.  It has none yet     *)
(* when it waits for drain(): that is up to the worker, but no longer than *)
(* until the job is cancelled, however early or often.                     *)
OnlyDrainHangs ==
  /\ pc # "idle" => \/ TaskGoesOn
                    \/ /\ AwaitsReading
                       /\ cancelled => \E c \in Callers : call[c].phase = "ask" /\ Target(c) = proc
  /\ \A c \in Callers : call[c].phase # "idle" => GroupGoes(c) \/ call[c].phase = "gather"

(* How far _run is with a target.                                          *)
Stages == [created |-> 0, spawn |-> 1, send |-> 2, wait |-> 3, abort |-> 4, kill |-> 4,
           drain |-> 6]
Stage == Stages[pc] + (IF call[Runner].phase = "kill" THEN 1 ELSE 0)

(* Nor does _run go round: it takes its targets in their order and each    *)
(* through its stages once, and when it has killed a worker no more is     *)
(* written that it would have to read.                                     *)
OnlyForward ==
  [][pc # "idle" /\ pc' # "idle" =>
       \/ idx' > idx
       \/ idx' = idx /\ Stage' > Stage
       \/ idx' = idx /\ Stage' = Stage /\ (pc = "drain" => Len(pipe') <= Len(pipe))]_vars

(* docs/web-only-foundation.md:99, "Keep lock until worker and descendants *)
(* are reaped": a job whose worker left a process behind is still active.  *)
(* It does not hold: a worker that dies by itself is reaped, its group is  *)
(* not looked at.                                                          *)
LockKeptForDescendants ==
  \A w \in Workers : kids[w] # "none" => status[w[1]] \in Active

(* docs/ux-checklist.md:24, "Cancel shows Stopping until descendants have  *)
(* exited": a job that is stopping is shown so until it has its outcome.   *)
(* It does not hold: a target that fails rather than stops leads a refresh *)
(* on to the next one, which is announced as running.                      *)
StoppingIsShown ==
  [][\A j \in Jobs : status[j] = "stopping" /\ status'[j] \in Active
       => status'[j] = "stopping"]_vars

=============================================================================
