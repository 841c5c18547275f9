----------------------- MODULE JobCoordinator_proofs -----------------------
(***************************************************************************)
(* Theorems about JobCoordinator for any number of jobs, items, crashes and*)
(* kept rows.                                                              *)
(***************************************************************************)
EXTENDS JobCoordinator, FiniteSetTheorems, TLAPS

-----------------------------------------------------------------------------
(***************************************************************************)
(* Types.  The target _run is at is one of those the request names; this is*)
(* what keeps the index in range when _run moves to the next one.          *)
(***************************************************************************)
TypeInv == TypeOK /\ idx <= want

LEMMA Bounds ==
  /\ 1 \in Items /\ 0 \in 0..MaxItems /\ 0 \in 0..MaxCrashes
  /\ \A n \in Items : n \in 0..MaxItems
  BY BoundsAssumption DEF Items

LEMMA KillType == ASSUME NEW ws, OsType, Kill(ws) PROVE OsType'
  BY DEF Kill, OsType

LEMMA SeqType ==
  ASSUME NEW S, NEW s \in Seq(S)
  PROVE  /\ \A e \in S : Append(s, e) \in Seq(S)
         /\ s # <<>> => Tail(s) \in Seq(S)
         /\ <<>> \in Seq(S)
  OBVIOUS

LEMMA EventType ==
  ASSUME NEW type \in {"item", "result", "error", "garbage"},
         NEW n \in 0..MaxItems, NEW ok \in BOOLEAN
  PROVE  Event(type, n, ok) \in Events
  BY DEF Event, Events

LEMMA WriteType ==
  ASSUME NEW e \in Events, OutType, Write(e)
  PROVE  pipe' \in Seq(Events)
  BY DEF Write, OutType

LEMMA CallValues ==
  ASSUME NEW w \in Workers \cup {NoWorker}, TaskType
  PROVE  LET C == [phase : CallPhases, aim : Workers \cup {NoWorker}, awaits : Jobs \cup {NoJob}]
         IN  NoCall \in C /\ Terminating(w) \in C /\ Gathering \in C
  BY DEF NoCall, Terminating, Gathering, CallPhases, TaskType

LEMMA FreshValues ==
  /\ FreshReader \in [result : Verdicts, error : Errors, proto : BOOLEAN,
                      rows : BOOLEAN, itemsOk : BOOLEAN]
  /\ FreshAcc \in [failed : BOOLEAN, rows : BOOLEAN, allOk : BOOLEAN, error : Errors]
  BY DEF FreshReader, FreshAcc, Verdicts, Errors

LEMMA InitType == Init => TypeInv
  <1> SUFFICES ASSUME Init PROVE TypeInv OBVIOUS
  <1>1. DbType BY DEF Init, DbType
  <1>2. RowType /\ idx <= want BY BoundsAssumption DEF Init, RowType, Items, Errors
  <1>3. TaskType BY BoundsAssumption, FreshValues DEF Init, TaskType, PCs, Items
  <1>4. CallType BY <1>3, CallValues DEF Init, CallType
  <1>5. ReaderType BY FreshValues DEF Init, ReaderType
  <1>6. OutType
    <2>1. pipe \in Seq(Events) /\ said \in 0..MaxItems BY Bounds DEF Init
    <2>2. unread \in BOOLEAN /\ clean \in BOOLEAN BY DEF Init
    <2> QED BY <2>1, <2>2 DEF OutType
  <1>7. OsType BY DEF Init, OsType
  <1>8. ServerType BY DEF Init, ServerType
  <1>9. crashes \in 0..MaxCrashes BY Bounds DEF Init
  <1> QED BY <1>1, <1>2, <1>3, <1>4, <1>5, <1>6, <1>7, <1>8, <1>9 DEF TypeInv, TypeOK

(* What a new server process starts from.                                  *)
LEMMA MemoryLostType ==
  ASSUME TypeInv, MemoryLost
  PROVE  /\ RowType' /\ TaskType' /\ ReaderType' /\ CallType' /\ OutType' /\ ServerType'
         /\ (idx <= want)'
  <1>1. RowType' /\ (idx <= want)' BY BoundsAssumption DEF MemoryLost, RowType, Items, Errors
  <1>2. TaskType' BY BoundsAssumption, FreshValues DEF MemoryLost, TaskType, PCs, Items
  <1>3. CallType' BY CallValues DEF MemoryLost, CallType, TypeInv, TypeOK
  <1>4. ReaderType' BY FreshValues DEF MemoryLost, ReaderType
  <1>5. OutType'
    <2>1. pipe' \in Seq(Events) /\ said' \in 0..MaxItems BY Bounds DEF MemoryLost
    <2>2. unread' \in BOOLEAN /\ clean' \in BOOLEAN BY DEF MemoryLost
    <2> QED BY <2>1, <2>2 DEF OutType
  <1>6. ServerType' BY DEF MemoryLost, ServerType
  <1> QED BY <1>1, <1>2, <1>3, <1>4, <1>5, <1>6

(* The steps of a worker process and of the kernel.                        *)
LEMMA ProcessType == ASSUME TypeInv, NEW w \in Workers, ProcessStep(w) PROVE TypeInv'
  <1> USE DEF TypeInv, TypeOK
  <1>a. ServerUnchanged => DbType' /\ RowType' /\ TaskType' /\ ReaderType' /\ CallType'
                           /\ ServerType' /\ (crashes \in 0..MaxCrashes)' /\ (idx <= want)'
    BY DEF ServerUnchanged, dbVars, rowVars, taskVars, DbType, RowType, TaskType, ReaderType,
       CallType, ServerType
  <1>1. CASE \E ok \in BOOLEAN : WriteItem(w, ok)
    <2> PICK ok \in BOOLEAN : WriteItem(w, ok) BY <1>1
    <2>1. w[2] \in 0..MaxItems /\ want \in 1..MaxItems
      BY BoundsAssumption DEF Workers, Items, RowType
    <2>2. said' \in 0..MaxItems /\ clean' \in BOOLEAN /\ said + 1 \in 0..MaxItems
      BY <2>1, BoundsAssumption DEF WriteItem, OutType
    <2>3. pipe' \in Seq(Events) BY <2>1, <2>2, EventType, WriteType DEF WriteItem
    <2>4. OsType' BY DEF WriteItem, osVars, OsType
    <2> QED BY <1>a, <2>2, <2>3, <2>4 DEF WriteItem, OutType
  <1>2. CASE \E ok \in BOOLEAN : WriteResult(w, ok)
    <2> PICK ok \in BOOLEAN : WriteResult(w, ok) BY <1>2
    <2>1. pipe' \in Seq(Events) BY BoundsAssumption, EventType, WriteType DEF WriteResult
    <2>2. OutType' BY <2>1 DEF WriteResult, OutType
    <2>3. OsType' BY DEF WriteResult, OsType
    <2> QED BY <1>a, <2>2, <2>3 DEF WriteResult
  <1>3. CASE ExitClean(w)
    BY <1>3, <1>a DEF ExitClean, OutType, OsType
  <1>4. CASE Fail(w)
    <2>1. ASSUME NEW type \in {"error", "garbage"}, Write(Event(type, 0, FALSE))
          PROVE  pipe' \in Seq(Events)
      <3>1. Event(type, 0, FALSE) \in Events BY Bounds, EventType
      <3> QED BY <2>1, <3>1, WriteType
    <2>2. pipe' \in Seq(Events) BY <1>4, <2>1 DEF Fail, OutType
    <2>3. OutType' /\ OsType' BY <1>4, <2>2 DEF Fail, OutType, OsType
    <2> QED BY <1>4, <1>a, <2>3 DEF Fail
  <1>5. CASE SpawnChild(w) \/ ChildExits(w) \/ Reap(w)
    BY <1>5, <1>a DEF SpawnChild, ChildExits, Reap, outVars, OutType, OsType
  <1>6. CASE ParentLost(w)
    <2>1. OsType' BY <1>6, KillType DEF ParentLost, OsType
    <2> QED BY <1>6, <1>a, <2>1 DEF ParentLost, outVars, OutType
  <1> QED BY <1>1, <1>2, <1>3, <1>4, <1>5, <1>6 DEF ProcessStep

(* Calls to _terminate and what waits for them.                            *)
LEMMA CallStepType == ASSUME TypeInv, CallStep PROVE TypeInv'
  <1> USE DEF TypeInv, TypeOK
  <1>1. CASE \E c \in Callers : Escalate(c)
    <2> PICK c \in Callers : Escalate(c) BY <1>1
    <2>1. PICK w : w = Target(c) OBVIOUS
    <2>2. OsType' BY <2>1, KillType DEF Escalate
    <2>3. CallType' BY DEF Escalate, CallType, CallPhases
    <2>4. pipe' \in Seq(Events)
      <3>1. Event("garbage", 0, FALSE) \in Events BY Bounds, EventType
      <3>2. pipe' = pipe \/ pipe' = Append(pipe, Event("garbage", 0, FALSE))
        BY Zenon DEF Escalate
      <3>3. pipe \in Seq(Events) BY DEF OutType
      <3> QED BY Zenon, SeqType, <3>1, <3>2, <3>3
    <2>5. OutType' BY <2>4 DEF Escalate, OutType
    <2> QED BY <2>2, <2>3, <2>5 DEF Escalate, dbVars, rowVars, taskVars, DbType, RowType,
               TaskType, ReaderType, ServerType
  <1>2. CASE \E c \in Callers : TerminateReturns(c)
    <2> PICK c \in Callers : TerminateReturns(c) BY <1>2
    <2>1. CallType' BY CallValues DEF TerminateReturns, CallType
    <2>2. TaskType' BY DEF TerminateReturns, TaskType, PCs
    <2> QED BY <2>1, <2>2 DEF TerminateReturns, dbVars, rowVars, outVars, osVars, DbType,
               RowType, ReaderType, ServerType, OutType, OsType
  <1>3. CASE \E j \in Jobs : CancelReturns(j)
    <2> PICK j \in Jobs : CancelReturns(j) BY <1>3
    <2>1. CallType' BY CallValues DEF CancelReturns, CallType
    <2> QED BY <2>1 DEF CancelReturns, dbVars, rowVars, taskVars, outVars, osVars, DbType,
               RowType, TaskType, ReaderType, ServerType, OutType, OsType
  <1>4. CASE ShutdownReturns
    <2>1. MemoryLost BY <1>4 DEF ShutdownReturns
    <2> QED BY <1>4, <2>1, MemoryLostType DEF ShutdownReturns, dbVars, osVars, DbType, OsType
  <1> QED BY <1>1, <1>2, <1>3, <1>4 DEF CallStep


(* What _run_worker can return.                                            *)
Outs == [status : {"succeeded", "failed", "cancelled"}, error : Errors,
         verdict : Verdicts, rows : BOOLEAN]

LEMMA OutcomeType ==
  ASSUME TypeOK
  PROVE  /\ WorkerOutcome \in Outs
         /\ Out("cancelled", "none", "none", FALSE) \in Outs
         /\ Out("failed", "WORKER_FAILED", "none", FALSE) \in Outs
  <1>1. rd.error \in Errors /\ rd.result \in Verdicts /\ rd.rows \in BOOLEAN
    BY DEF TypeOK, ReaderType
  <1>2. WorkerFailure(rd.error) \in Errors BY <1>1 DEF WorkerFailure, Errors
  <1>3. "none" \in Errors /\ "WORKER_FAILED" \in Errors /\ "none" \in Verdicts
    BY DEF Errors, Verdicts
  <1> QED BY <1>1, <1>2, <1>3 DEF WorkerOutcome, Out, Outs

LEMMA AccumulateType ==
  ASSUME TypeOK, NEW out \in Outs
  PROVE  /\ Accumulate(out) \in [failed : BOOLEAN, rows : BOOLEAN, allOk : BOOLEAN, error : Errors]
         /\ RefreshStatus(out, Accumulate(out)) \in {"succeeded", "failed", "cancelled"}
  <1>1. acc.failed \in BOOLEAN /\ acc.rows \in BOOLEAN /\ acc.allOk \in BOOLEAN /\ acc.error \in Errors
    BY DEF TypeOK, TaskType
  <1>2. out.error \in Errors /\ out.rows \in BOOLEAN BY DEF Outs
  <1>3. AddsRows(out) \in BOOLEAN /\ RowsOk(out) \in BOOLEAN BY <1>2 DEF AddsRows, RowsOk
  <1>4. (IF out.status # "failed" THEN acc.error
         ELSE IF out.error = "none" THEN "SOURCE_FAILED" ELSE out.error) \in Errors
    BY <1>1, <1>2 DEF Errors
  <1>5. Accumulate(out) \in [failed : BOOLEAN, rows : BOOLEAN, allOk : BOOLEAN, error : Errors]
    BY <1>1, <1>3, <1>4 DEF Accumulate
  <1> QED BY <1>5 DEF RefreshStatus

LEMMA FinishType ==
  ASSUME TypeOK, NEW j \in Jobs, NEW s \in {"succeeded", "failed", "cancelled"},
         NEW e \in Errors, FinishJob(j, s, e)
  PROVE  /\ status' \in [Jobs -> {"absent", "deleted"} \cup Active \cup Terminal]
         /\ error' \in Errors /\ pc' \in PCs /\ idx' = 1 /\ acc' = FreshAcc
  BY DEF FinishJob, TypeOK, DbType, Terminal, PCs

LEMMA EndWorkerType ==
  ASSUME TypeInv, NEW out \in Outs, EndWorker(out), active \in Jobs, CallType'
  PROVE  TypeInv'
  <1> USE DEF TypeInv, TypeOK
  <1> DEFINE a == Accumulate(out)
  <1>1. /\ a \in [failed : BOOLEAN, rows : BOOLEAN, allOk : BOOLEAN, error : Errors]
        /\ RefreshStatus(out, a) \in {"succeeded", "failed", "cancelled"}
    BY AccumulateType
  <1>2. /\ out.status \in {"succeeded", "failed", "cancelled"} /\ out.error \in Errors
        /\ a.error \in Errors
    BY <1>1 DEF Outs
  <1> HIDE DEF a
  <1>3. \/ \E s \in {"succeeded", "failed", "cancelled"}, e \in Errors : FinishJob(active, s, e)
        \/ /\ idx # want
           /\ status' = [status EXCEPT ![active] = "running"]
           /\ pc' = "spawn" /\ idx' = idx + 1 /\ acc' = a /\ error' = error
    BY <1>1, <1>2, Zenon DEF EndWorker, a, LastTarget
  <1>4. idx \in Items /\ want \in Items BY DEF TaskType, RowType
  <1>5. /\ status' \in [Jobs -> {"absent", "deleted"} \cup Active \cup Terminal]
        /\ error' \in Errors /\ pc' \in PCs
        /\ acc' \in [failed : BOOLEAN, rows : BOOLEAN, allOk : BOOLEAN, error : Errors]
        /\ idx' \in Items /\ idx' <= want
    <2>1. CASE \E s \in {"succeeded", "failed", "cancelled"}, e \in Errors : FinishJob(active, s, e)
      <3>1. /\ status' \in [Jobs -> {"absent", "deleted"} \cup Active \cup Terminal]
            /\ error' \in Errors /\ pc' \in PCs /\ idx' = 1 /\ acc' = FreshAcc
        BY <2>1, FinishType
      <3> QED BY <3>1, <1>4, Bounds, FreshValues, BoundsAssumption DEF Items
    <2>2. CASE /\ idx # want
               /\ status' = [status EXCEPT ![active] = "running"]
               /\ pc' = "spawn" /\ idx' = idx + 1 /\ acc' = a /\ error' = error
      <3>1. idx' \in Items /\ idx' <= want BY <2>2, <1>4, BoundsAssumption DEF Items
      <3>2. status' \in [Jobs -> {"absent", "deleted"} \cup Active \cup Terminal]
        BY <2>2 DEF DbType, Active
      <3> QED BY <2>2, <1>1, <3>1, <3>2 DEF RowType, PCs
    <2> QED BY <1>3, <2>1, <2>2
  <1>6. DbType' BY <1>5 DEF EndWorker, DbType
  <1>7. RowType' /\ (idx <= want)' BY <1>5 DEF EndWorker, RowType
  <1>8. TaskType' BY <1>5 DEF EndWorker, TaskType
  <1>9. ReaderType' BY FreshValues DEF EndWorker, ReaderType
  <1>10. OutType' /\ OsType' /\ ServerType' /\ (crashes \in 0..MaxCrashes)'
    BY DEF EndWorker, outVars, osVars, OutType, OsType, ServerType
  <1> QED BY <1>6, <1>7, <1>8, <1>9, <1>10

(* _run and _run_worker.                                                   *)
LEMMA TaskStepType ==
  ASSUME TypeInv, TaskStep \/ Timeout \/ ReadsRequest, active \in Jobs
  PROVE  TypeInv'
  <1> USE DEF TypeInv, TypeOK
  <1>1. CASE BeginRun
    BY <1>1 DEF BeginRun, rowVars, outVars, osVars, DbType, RowType, TaskType, ReaderType,
       CallType, ServerType, OutType, OsType, Active, PCs
  <1>2. CASE SpawnWorker
    <2>1. <<active, idx>> \in Workers BY DEF Workers, TaskType
    <2>2. DbType' BY <1>2, <2>1 DEF SpawnWorker, Record, DbType
    <2>3. TaskType' BY <1>2, <2>1 DEF SpawnWorker, TaskType, PCs
    <2>4. CallType' BY <1>2, <2>1, CallValues DEF SpawnWorker, CallType
    <2>5. said' \in 0..MaxItems /\ pipe' \in Seq(Events) BY <1>2, Bounds DEF SpawnWorker, OutType
    <2>6. OutType' BY <1>2, <2>5 DEF SpawnWorker, OutType
    <2>7. OsType' BY <1>2, <2>1 DEF SpawnWorker, OsType
    <2> QED BY <1>2, <2>2, <2>3, <2>4, <2>6, <2>7
            DEF SpawnWorker, rowVars, RowType, ReaderType, ServerType
  <1>3. CASE ReadsRequest
    <2>1. leader' \in [Workers -> {"none", "waiting", "working", "finished", "exited", "reaped"}]
      BY <1>3 DEF ReadsRequest, OsType
    <2>2. TaskType' /\ OsType' BY <1>3, <2>1 DEF ReadsRequest, TaskType, OsType, PCs
    <2>3. OutType' BY <1>3 DEF ReadsRequest, OutType
    <2> QED BY <1>3, <2>2, <2>3 DEF ReadsRequest, dbVars, rowVars, DbType, RowType,
               ReaderType, CallType, ServerType
  <1>4. CASE ReadEvent
    <2>1. ReaderType' BY <1>4 DEF ReadEvent, ReaderType, Verdicts, Errors
    <2>2. item' \in [Items -> {"none", "succeeded", "failed"}] BY <1>4 DEF ReadEvent, RowType
    <2>3. RowType' BY <1>4, <2>2 DEF ReadEvent, RowType
    <2>4. pipe' \in Seq(Events)
      <3>1. pipe' = <<>> \/ pipe' = Tail(pipe) BY <1>4 DEF ReadEvent
      <3>2. pipe \in Seq(Events) /\ pipe # <<>> BY <1>4 DEF ReadEvent, OutType
      <3> QED BY Zenon, SeqType, <3>1, <3>2
    <2>5. OutType' BY <1>4, <2>4 DEF ReadEvent, OutType
    <2> QED BY <1>4, <2>1, <2>3, <2>5 DEF ReadEvent, dbVars, taskVars, osVars, DbType,
               TaskType, CallType, ServerType, OsType
  <1>5. CASE Timeout \/ RejectOutput
    <2>1. RunnerKills BY <1>5 DEF Timeout, RejectOutput
    <2>2. ReaderType' BY <1>5 DEF Timeout, RejectOutput, ReaderType, Errors
    <2>3. CallType' BY <2>1, CallValues DEF RunnerKills, CallType, TaskType
    <2>4. TaskType' BY <2>1 DEF RunnerKills, TaskType, PCs
    <2> QED BY <2>1, <2>2, <2>3, <2>4 DEF RunnerKills, dbVars, rowVars, outVars, DbType,
               RowType, ServerType, OutType, OsType
  <1>6. CASE WorkerDone \/ SpawnFails \/ SendFails
    <2>1. PICK out \in Outs : EndWorker(out)
      BY <1>6, OutcomeType DEF WorkerDone, SpawnFails, SendFails
    <2>2. CallType' BY <1>6 DEF WorkerDone, SpawnFails, SendFails, CallType
    <2> QED BY <2>1, <2>2, EndWorkerType
  <1>7. CASE AbortDone
    <2>1. PICK out \in Outs : EndWorker(out) BY <1>7, OutcomeType DEF AbortDone
    <2>2. CallType' BY <1>7, CallValues DEF AbortDone, CallType
    <2> QED BY <2>1, <2>2, EndWorkerType
  <1> QED BY <1>1, <1>2, <1>3, <1>4, <1>5, <1>6, <1>7 DEF TaskStep

LEMMA RankType == ASSUME TypeOK PROVE Cardinality({i \in Jobs : born[i] > 0}) \in Nat
  BY FS_CardinalityType, FS_Subset, BoundsAssumption

(* Requests, the crash and the restart.                                    *)
LEMMA OtherType == ASSUME TypeInv, Request \/ Crash \/ Restart PROVE TypeInv'
  <1> USE DEF TypeInv, TypeOK
  <1>1. CASE \E j \in Jobs, k \in {"refresh", "single"}, n \in Items : Start(j, k, n)
    <2> PICK j \in Jobs, k \in {"refresh", "single"}, n \in Items : Start(j, k, n) BY <1>1
    <2>1. DbType' BY RankType DEF Start, DbType, Active
    <2>2. RowType' BY DEF Start, RowType, Errors
    <2>3. TaskType' BY Bounds, FreshValues DEF Start, TaskType, PCs
    <2>4. idx' <= want' BY BoundsAssumption DEF Start, Items
    <2> QED BY <2>1, <2>2, <2>3, <2>4 DEF Start, outVars, osVars, ReaderType, CallType,
               ServerType, OutType, OsType
  <1>2. CASE \E j \in Jobs : Cancel(j)
    <2> PICK j \in Jobs : Cancel(j) BY <1>2
    <2>1. DbType' BY DEF Cancel, DbType, Active
    <2>2. CallType' BY CallValues DEF Cancel, CallType, TaskType
    <2> QED BY <2>1, <2>2 DEF Cancel, rowVars, taskVars, outVars, RowType, TaskType,
               ReaderType, ServerType, OutType, OsType
  <1>3. CASE Shutdown
    <2>1. CallType' BY <1>3, CallValues DEF Shutdown, CallType, TaskType
    <2>2. ServerType' BY <1>3 DEF Shutdown, ServerType
    <2> QED BY <1>3, <2>1, <2>2 DEF Shutdown, dbVars, rowVars, taskVars, outVars, DbType,
               RowType, TaskType, ReaderType, OutType, OsType
  <1>4. CASE Crash
    <2>1. MemoryLost BY <1>4 DEF Crash
    <2>2. crashes' \in 0..MaxCrashes BY <1>4, BoundsAssumption DEF Crash
    <2>3. OsType' BY <1>4 DEF Crash, OsType
    <2> QED BY <1>4, <2>1, <2>2, <2>3, MemoryLostType DEF Crash, dbVars, DbType
  <1>5. CASE Restart
    <2>1. OsType' BY <1>5, KillType DEF Restart
    <2>2. DbType' BY <1>5 DEF Restart, Recovered, DbType, Terminal
    <2> QED BY <1>5, <2>1, <2>2 DEF Restart, rowVars, taskVars, outVars, RowType, TaskType,
               ReaderType, CallType, ServerType, OutType
  <1> QED BY <1>1, <1>2, <1>3, <1>4, <1>5 DEF Request

(***************************************************************************)
(* One job at a time, and its row and its task tell the same story.        *)
(***************************************************************************)
RowFollowsTask ==
  /\ server = "down" => pc = "idle"
  /\ pc # "idle" => active \in Jobs
  /\ ActiveRowIffTask

LEMMA ActiveInJobs ==
  ASSUME TypeInv, RowFollowsTask, TaskStep \/ Timeout \/ ReadsRequest
  PROVE  active \in Jobs
  BY DEF RowFollowsTask, TaskStep, Timeout, BeginRun, SpawnWorker, ReadsRequest, ReadEvent,
     RejectOutput, WorkerDone, SpawnFails, SendFails, AbortDone

LEMMA TypeStep == ASSUME TypeInv, RowFollowsTask, [Next]_vars PROVE TypeInv'
  <1>1. CASE Request \/ Crash \/ Restart BY <1>1, OtherType
  <1>2. CASE CallStep BY <1>2, CallStepType
  <1>3. CASE TaskStep \/ Timeout \/ ReadsRequest BY <1>3, ActiveInJobs, TaskStepType
  <1>4. CASE \E w \in Workers : ProcessStep(w) BY <1>4, ProcessType
  <1>5. CASE UNCHANGED vars
    BY <1>5 DEF vars, dbVars, rowVars, taskVars, outVars, osVars, TypeInv, TypeOK, DbType,
       RowType, TaskType, ReaderType, CallType, OutType, OsType, ServerType
  <1> QED BY <1>1, <1>2, <1>3, <1>4, <1>5 DEF Next

(* Steps that write neither a status nor the task's place, or only move it *)
(* on, keep rows and task together.                                        *)
LEMMA Quiet ==
  ASSUME RowFollowsTask, UNCHANGED <<status, active>>,
         server' = server \/ (server = "up" /\ server' = "closing"),
         pc' = pc \/ (pc # "idle" /\ pc' # "idle")
  PROVE  RowFollowsTask'
  BY DEF RowFollowsTask, ActiveRowIffTask

(* The active job's row takes another active status.                       *)
LEMMA Marked ==
  ASSUME TypeInv, RowFollowsTask, pc # "idle", pc' # "idle", UNCHANGED <<active, server>>,
         NEW s \in Active, status' = [status EXCEPT ![active] = s]
  PROVE  RowFollowsTask'
  BY DEF RowFollowsTask, ActiveRowIffTask, TypeInv, TypeOK, DbType, ServerType, TaskType

LEMMA Finished ==
  ASSUME TypeInv, RowFollowsTask, pc # "idle", UNCHANGED <<active, server>>,
         NEW s \in {"succeeded", "failed", "cancelled"}, NEW e, FinishJob(active, s, e)
  PROVE  RowFollowsTask'
  <1>1. \A k \in Jobs : status'[k] \notin Active
    BY DEF RowFollowsTask, ActiveRowIffTask, FinishJob, Active
  <1> QED BY <1>1 DEF RowFollowsTask, ActiveRowIffTask, FinishJob

LEMMA EndWorkerRows ==
  ASSUME TypeInv, RowFollowsTask, NEW out \in Outs, EndWorker(out), pc # "idle"
  PROVE  RowFollowsTask'
  <1> DEFINE a == Accumulate(out)
  <1>1. /\ RefreshStatus(out, a) \in {"succeeded", "failed", "cancelled"}
        /\ out.status \in {"succeeded", "failed", "cancelled"}
    BY AccumulateType DEF Outs, TypeInv
  <1> HIDE DEF a
  <1>2. \/ \E s \in {"succeeded", "failed", "cancelled"} : \E e : FinishJob(active, s, e)
        \/ status' = [status EXCEPT ![active] = "running"] /\ pc' = "spawn"
    BY <1>1, Zenon DEF EndWorker, a
  <1>3. UNCHANGED <<active, server>> BY DEF EndWorker
  <1>4. "running" \in Active BY DEF Active
  <1> QED BY <1>2, <1>3, <1>4, Finished, Marked

LEMMA NobodyStarts == TypeInv /\ server = "down" /\ RowFollowsTask => pc = "idle"
  BY DEF RowFollowsTask

LEMMA RowStep == ASSUME TypeInv, RowFollowsTask, [Next]_vars PROVE RowFollowsTask'
  <1>1. CASE \E j \in Jobs, k \in {"refresh", "single"}, n \in Items : Start(j, k, n)
    <2> PICK j \in Jobs, k \in {"refresh", "single"}, n \in Items : Start(j, k, n) BY <1>1
    <2>1. \A i \in Jobs : status'[i] \in Active <=> i = j
      BY DEF Start, NothingActive, TypeInv, TypeOK, DbType, Active
    <2> QED BY <2>1 DEF Start, RowFollowsTask, ActiveRowIffTask
  <1>2. CASE \E j \in Jobs : Cancel(j)
    <2> PICK j \in Jobs : Cancel(j) BY <1>2
    <2>1. active = j /\ pc # "idle" BY DEF Cancel, RowFollowsTask, ActiveRowIffTask
    <2>2. "stopping" \in Active BY DEF Active
    <2> QED BY <2>1, <2>2, Marked DEF Cancel, taskVars
  <1>3. CASE Shutdown
    BY <1>3, Quiet DEF Shutdown, dbVars, taskVars
  <1>4. CASE ShutdownReturns \/ Crash
    <2>1. status' = status /\ server' = "down" /\ pc' = "idle"
      BY <1>4 DEF ShutdownReturns, Crash, MemoryLost, dbVars
    <2> QED BY <2>1 DEF RowFollowsTask, ActiveRowIffTask
  <1>5. CASE Restart
    <2>1. \A i \in Jobs : status'[i] \notin Active
      BY <1>5 DEF Restart, Recovered, Active
    <2> QED BY <1>5, <2>1 DEF Restart, RowFollowsTask, ActiveRowIffTask, taskVars
  <1>6. CASE \E c \in Callers : Escalate(c) \/ TerminateReturns(c)
    BY <1>6, Quiet DEF Escalate, TerminateReturns, dbVars, taskVars
  <1>7. CASE \E j \in Jobs : CancelReturns(j)
    BY <1>7, Quiet DEF CancelReturns, dbVars, taskVars
  <1>8. CASE BeginRun
    <2>1. "running" \in Active BY DEF Active
    <2> QED BY <1>8, <2>1, Marked DEF BeginRun
  <1>9. CASE SpawnWorker \/ ReadsRequest \/ ReadEvent \/ RejectOutput \/ Timeout
    BY <1>9, Quiet DEF SpawnWorker, ReadsRequest, ReadEvent, RejectOutput, Timeout, RunnerKills,
       dbVars, taskVars
  <1>10. CASE WorkerDone \/ AbortDone \/ SpawnFails \/ SendFails
    <2>1. PICK out \in Outs : EndWorker(out)
      BY <1>10, OutcomeType DEF WorkerDone, AbortDone, SpawnFails, SendFails, TypeInv
    <2>2. pc # "idle" BY <1>10 DEF WorkerDone, AbortDone, SpawnFails, SendFails
    <2> QED BY <2>1, <2>2, EndWorkerRows
  <1>11. CASE \E w \in Workers : ProcessStep(w)
    <2>1. ServerUnchanged
      BY <1>11 DEF ProcessStep, WriteItem, WriteResult, ExitClean, Fail, SpawnChild, ChildExits,
         Reap, ParentLost
    <2> QED BY <2>1, Quiet DEF ServerUnchanged, dbVars, taskVars
  <1>12. CASE UNCHANGED vars BY <1>12, Quiet DEF vars, dbVars, taskVars
  <1> QED BY <1>1, <1>2, <1>3, <1>4, <1>5, <1>6, <1>7, <1>8, <1>9, <1>10, <1>11, <1>12
          DEF Next, Request, CallStep, TaskStep

LEMMA InitRows == Init => RowFollowsTask
  BY NamesAssumption DEF Init, RowFollowsTask, ActiveRowIffTask, Active

LEMMA Invariance == Spec => [](TypeInv /\ RowFollowsTask)
  <1>1. Init => TypeInv /\ RowFollowsTask BY InitType, InitRows
  <1>2. TypeInv /\ RowFollowsTask /\ [Next]_vars => (TypeInv /\ RowFollowsTask)'
    BY TypeStep, RowStep
  <1> QED BY <1>1, <1>2, PTL DEF Spec

(* Every variable of the coordinator keeps its type, _run's index included.*)
THEOREM TypeCorrect == Spec => []TypeOK
  BY Invariance, PTL DEF TypeInv

(* While the server is up a row is active exactly when the coordinator's   *)
(* task is running its job, and no two rows are ever active, whatever the  *)
(* number of jobs, workers and crashes.                                    *)
THEOREM OneActiveJob == Spec => []ActiveRowIffTask
  BY Invariance, PTL DEF RowFollowsTask

-----------------------------------------------------------------------------
(***************************************************************************)
(* Where the worker processes are.  self._proc is the worker of the target *)
(* _run is at; a _terminate under way was given its caller's own worker;   *)
(* and a worker that may be changing media is the one its row names and,   *)
(* while the server is up, the current one.                                *)
(***************************************************************************)
Attended == {"abort", "send", "wait", "kill", "drain"}

ProcInv == /\ proc # NoWorker <=> pc \in Attended
           /\ proc # NoWorker => proc = <<active, idx>> /\ ident = proc

CallInv ==
  /\ call[Runner].phase # "idle" => call[Runner].aim = proc /\ pc \in {"abort", "kill"}
  /\ \A j \in Jobs : call[j].phase \in {"ask", "kill"} => call[j].aim \in {j} \X Items

Busy(w) == leader[w] \in {"working", "finished"}

BusyInv == \A w \in Workers : Busy(w) =>
             /\ status[w[1]] \in Active /\ ident = w
             /\ server # "down" => w = proc

WorkerInv == ProcInv /\ CallInv /\ BusyInv

Base == TypeInv /\ RowFollowsTask

LEMMA BaseTypes ==
  ASSUME Base
  PROVE  /\ status \in [Jobs -> {"absent", "deleted"} \cup Active \cup Terminal]
         /\ born \in [Jobs -> Nat]
         /\ leader \in [Workers -> {"none", "waiting", "working", "finished", "exited", "reaped"}]
         /\ call \in [Callers -> [phase : CallPhases, aim : Workers \cup {NoWorker},
                                  awaits : Jobs \cup {NoJob}]]
         /\ proc \in Workers \cup {NoWorker} /\ idx \in Items /\ pc \in PCs
         /\ active \in Jobs \cup {NoJob}
  BY DEF Base, TypeInv, TypeOK, DbType, OsType, CallType, TaskType

LEMMA ProcStep == ASSUME Base, ProcInv, [Next]_vars PROVE ProcInv'
  <1>1. CASE \E j \in Jobs, k \in {"refresh", "single"}, n \in Items : Start(j, k, n)
    <2>1. pc = "idle" \/ active \notin Jobs
      BY <1>1 DEF Start, NothingActive, Base, RowFollowsTask, ActiveRowIffTask
    <2>2. pc = "idle" BY <2>1 DEF Base, RowFollowsTask
    <2> QED BY <1>1, <2>2 DEF Start, ProcInv, Attended
  <1>2. CASE \E j \in Jobs : Cancel(j) BY <1>2 DEF Cancel, taskVars, ProcInv
  <1>3. CASE Shutdown \/ Restart
    BY <1>3 DEF Shutdown, Restart, dbVars, taskVars, ProcInv
  <1>4. CASE ShutdownReturns \/ Crash
    BY <1>4 DEF ShutdownReturns, Crash, MemoryLost, ProcInv, Attended
  <1>5. CASE \E c \in Callers : Escalate(c) \/ TerminateReturns(c)
    BY <1>5 DEF Escalate, TerminateReturns, dbVars, taskVars, ProcInv, Attended
  <1>6. CASE \E j \in Jobs : CancelReturns(j)
    BY <1>6 DEF CancelReturns, dbVars, taskVars, ProcInv
  <1>7. CASE SpawnWorker
    <2>1. <<active, idx>> \in Workers
      BY <1>7, ActiveInJobs, BaseTypes DEF Workers, Base, TaskStep
    <2> QED BY <1>7, <2>1, NamesAssumption DEF SpawnWorker, Record, ProcInv, Attended
  <1>8. CASE BeginRun \/ ReadsRequest \/ ReadEvent \/ RejectOutput \/ Timeout
    BY <1>8 DEF BeginRun, ReadsRequest, ReadEvent, RejectOutput, Timeout, RunnerKills, dbVars,
       taskVars, ProcInv, Attended
  <1>9. CASE WorkerDone \/ AbortDone \/ SpawnFails \/ SendFails
    <2>1. proc' = NoWorker /\ pc' \in {"idle", "spawn"}
      BY <1>9 DEF WorkerDone, AbortDone, SpawnFails, SendFails, EndWorker, FinishJob
    <2> QED BY <2>1 DEF ProcInv, Attended
  <1>10. CASE \E w \in Workers : ProcessStep(w)
    <2>1. ServerUnchanged
      BY <1>10 DEF ProcessStep, WriteItem, WriteResult, ExitClean, Fail, SpawnChild, ChildExits,
         Reap, ParentLost
    <2> QED BY <2>1 DEF ServerUnchanged, dbVars, taskVars, ProcInv
  <1>11. CASE UNCHANGED vars BY <1>11 DEF vars, dbVars, taskVars, ProcInv
  <1> QED BY <1>1, <1>2, <1>3, <1>4, <1>5, <1>6, <1>7, <1>8, <1>9, <1>10, <1>11
          DEF Next, Request, CallStep, TaskStep

LEMMA CallerNames == /\ Runner \in Callers /\ ServerStop \in Callers /\ Runner # ServerStop
                     /\ \A j \in Jobs : j \in Callers /\ j # Runner /\ j # ServerStop
  BY NamesAssumption DEF Callers

LEMMA CallStepInv == ASSUME Base, ProcInv, CallInv, [Next]_vars PROVE CallInv'
  <1> USE CallerNames, BaseTypes
  <1>0. \A j \in Jobs : active = j /\ proc # NoWorker => proc \in {j} \X Items
    BY DEF ProcInv
  <1>1. CASE \E j \in Jobs, k \in {"refresh", "single"}, n \in Items : Start(j, k, n)
    <2>1. pc = "idle"
      BY <1>1 DEF Start, NothingActive, Base, RowFollowsTask, ActiveRowIffTask
    <2> QED BY <1>1, <2>1 DEF Start, CallInv
  <1>2. CASE \E j \in Jobs : Cancel(j)
    <2> PICK j \in Jobs : Cancel(j) BY <1>2
    <2>1. active = j BY DEF Cancel, Base, RowFollowsTask, ActiveRowIffTask
    <2>2. \E v : /\ call' = [call EXCEPT ![j] = v]
                 /\ v.phase \in {"ask", "kill"} => v.aim \in {j} \X Items
      BY <2>1, <1>0 DEF Cancel, Terminating, Gathering
    <2>3. UNCHANGED <<proc, pc>> BY DEF Cancel, taskVars
    <2> QED BY <2>2, <2>3 DEF CallInv
  <1>3. CASE Shutdown
    BY <1>3 DEF Shutdown, dbVars, taskVars, CallInv
  <1>4. CASE ShutdownReturns \/ Crash
    BY <1>4 DEF ShutdownReturns, Crash, MemoryLost, CallInv, NoCall
  <1>5. CASE \E c \in Callers : Escalate(c)
    BY <1>5 DEF Escalate, taskVars, CallInv
  <1>6. CASE \E c \in Callers : TerminateReturns(c)
    BY <1>6 DEF TerminateReturns, CallInv, Gathering, NoCall
  <1>7. CASE \E j \in Jobs : CancelReturns(j)
    BY <1>7 DEF CancelReturns, taskVars, CallInv, NoCall
  <1>8. CASE SpawnWorker
    BY <1>8 DEF SpawnWorker, CallInv, Terminating
  <1>9. CASE BeginRun \/ ReadsRequest \/ ReadEvent \/ Restart
    BY <1>9 DEF BeginRun, ReadsRequest, ReadEvent, Restart, taskVars, CallInv
  <1>10. CASE RejectOutput \/ Timeout
    BY <1>10 DEF RejectOutput, Timeout, RunnerKills, CallInv, Terminating
  <1>11. CASE WorkerDone \/ SpawnFails \/ SendFails
    BY <1>11 DEF WorkerDone, SpawnFails, SendFails, CallInv
  <1>12. CASE AbortDone
    BY <1>12 DEF AbortDone, CallInv, NoCall
  <1>13. CASE \E w \in Workers : ProcessStep(w)
    <2>1. ServerUnchanged
      BY <1>13 DEF ProcessStep, WriteItem, WriteResult, ExitClean, Fail, SpawnChild, ChildExits,
         Reap, ParentLost
    <2> QED BY <2>1 DEF ServerUnchanged, dbVars, taskVars, CallInv
  <1>14. CASE UNCHANGED vars BY <1>14 DEF vars, dbVars, taskVars, CallInv
  <1> QED BY <1>1, <1>2, <1>3, <1>4, <1>5, <1>6, <1>7, <1>8, <1>9, <1>10, <1>11, <1>12, <1>13,
             <1>14 DEF Next, Request, CallStep, TaskStep

(* A step that leaves statuses, recorded identities and the current worker *)
(* alone, and puts no process to work, keeps BusyInv.                      *)
LEMMA NobodyNewBusy ==
  ASSUME BusyInv, UNCHANGED <<status, ident, proc>>,
         server' = server \/ server' = "down" \/ server # "down",
         \A w \in Workers : Busy(w)' => Busy(w)
  PROVE  BusyInv'
  BY DEF BusyInv

LEMMA KillCalms == ASSUME NEW ws, Kill(ws) PROVE \A w \in Workers : Busy(w)' => Busy(w) /\ w \notin ws
  BY DEF Kill, Busy, Alive

LEMMA NobodyBusy == ASSUME \A w \in Workers : ~Busy(w)' PROVE BusyInv'
  BY DEF BusyInv

LEMMA BusyStep == ASSUME Base, ProcInv, BusyInv, [Next]_vars PROVE BusyInv'
  <1> USE BaseTypes, NamesAssumption
  <1>0. \A w \in Workers : Busy(w) /\ server # "down" => w = proc BY DEF BusyInv
  <1>1. CASE \E j \in Jobs, k \in {"refresh", "single"}, n \in Items : Start(j, k, n)
    <2>1. pc = "idle"
      BY <1>1 DEF Start, NothingActive, Base, RowFollowsTask, ActiveRowIffTask
    <2>2. server = "up" /\ leader' = leader BY <1>1 DEF Start, osVars
    <2>3. \A w \in Workers : ~Busy(w)' BY <2>1, <2>2, <1>0 DEF ProcInv, Attended, Busy
    <2> QED BY <2>3, NobodyBusy
  <1>2. CASE \E j \in Jobs : Cancel(j)
    <2> PICK j \in Jobs : Cancel(j) BY <1>2
    <2> QED BY DEF Cancel, taskVars, BusyInv, Busy, Active
  <1>3. CASE Shutdown \/ ShutdownReturns \/ Crash
    <2>1. UNCHANGED <<status, ident>> /\ (server' = "down" \/ (proc' = proc /\ server # "down"))
      BY <1>3 DEF Shutdown, ShutdownReturns, Crash, MemoryLost, dbVars, taskVars
    <2>2. \A w \in Workers : Busy(w)' => Busy(w)
      BY <1>3 DEF Shutdown, ShutdownReturns, Crash, osVars, Busy
    <2> QED BY <2>1, <2>2 DEF BusyInv
  <1>4. CASE Restart
    <2>1. \A w \in Workers : Busy(w) => w \in Abandoned
      BY DEF BusyInv, Abandoned, Busy, Alive
    <2>2. \A w \in Workers : ~Busy(w)' BY <1>4, <2>1, KillCalms DEF Restart
    <2> QED BY <2>2, NobodyBusy
  <1>5. CASE \E c \in Callers : Escalate(c)
    <2>1. PICK ws : Kill(ws) BY <1>5 DEF Escalate
    <2>2. UNCHANGED <<status, ident, proc, server>> BY <1>5 DEF Escalate, dbVars, taskVars
    <2> QED BY <2>1, <2>2, KillCalms, NobodyNewBusy
  <1>6. CASE (\E c \in Callers : TerminateReturns(c)) \/ (\E j \in Jobs : CancelReturns(j))
    BY <1>6, NobodyNewBusy DEF TerminateReturns, CancelReturns, dbVars, taskVars, osVars, Busy
  <1>7. CASE BeginRun
    <2>1. active \in Jobs BY <1>7, ActiveInJobs DEF Base, TaskStep
    <2> QED BY <1>7, <2>1 DEF BeginRun, osVars, BusyInv, Busy, Active
  <1>8. CASE SpawnWorker
    <2>1. server # "down" BY <1>8 DEF SpawnWorker, Base, RowFollowsTask
    <2>2. \A w \in Workers : ~Busy(w) BY <1>8, <2>1, <1>0 DEF SpawnWorker, ProcInv, Attended
    <2>3. active \in Jobs BY <1>8, ActiveInJobs DEF Base, TaskStep
    <2>4. status[active] \in Active /\ status' = status
      BY <1>8, <2>3 DEF SpawnWorker, Base, RowFollowsTask, ActiveRowIffTask
    <2>5. proc' = <<active, idx>> /\ ident' = proc' BY <1>8 DEF SpawnWorker, Record
    <2>6. \A w \in Workers : Busy(w)' => w = proc' BY <1>8, <2>2 DEF SpawnWorker, Busy
    <2> QED BY <2>4, <2>5, <2>6 DEF BusyInv
  <1>9. CASE ReadsRequest
    <2>1. server # "down" /\ pc # "idle" /\ active \in Jobs
      BY <1>9, ActiveInJobs DEF ReadsRequest, Base, RowFollowsTask, TaskStep
    <2>2. status[active] \in Active BY <2>1 DEF Base, RowFollowsTask, ActiveRowIffTask
    <2>3. proc = <<active, idx>> /\ ident = proc BY <1>9 DEF ReadsRequest, ProcInv, Attended
    <2>4. UNCHANGED <<status, ident, proc, server>> BY <1>9 DEF ReadsRequest, dbVars
    <2>5. \A w \in Workers : Busy(w)' => w = proc
      BY <1>9, <2>1, <1>0 DEF ReadsRequest, Busy
    <2> QED BY <2>2, <2>3, <2>4, <2>5 DEF BusyInv
  <1>10. CASE ReadEvent \/ RejectOutput \/ Timeout
    BY <1>10, NobodyNewBusy DEF ReadEvent, RejectOutput, Timeout, RunnerKills, dbVars, taskVars,
       osVars, Busy
  <1>11. CASE WorkerDone \/ AbortDone \/ SpawnFails \/ SendFails
    <2>1. server # "down"
      BY <1>11 DEF WorkerDone, AbortDone, SpawnFails, SendFails, Base, RowFollowsTask
    <2>2. proc \in Workers => ~Busy(proc)
      BY <1>11 DEF WorkerDone, AbortDone, SpawnFails, SendFails, ProcInv, Attended, Drained,
         GroupExists, Alive, Busy
    <2>3. \A w \in Workers : ~Busy(w) BY <2>1, <2>2, <1>0
    <2>4. leader' = leader
      BY <1>11 DEF WorkerDone, AbortDone, SpawnFails, SendFails, EndWorker, osVars
    <2> QED BY <2>3, <2>4, NobodyBusy DEF Busy
  <1>12. CASE \E w \in Workers : ProcessStep(w)
    <2> PICK w \in Workers : ProcessStep(w) BY <1>12
    <2>1. ServerUnchanged
      BY DEF ProcessStep, WriteItem, WriteResult, ExitClean, Fail, SpawnChild, ChildExits, Reap,
         ParentLost
    <2>2. \A v \in Workers : Busy(v)' => Busy(v)
      <3>1. CASE ParentLost(w)
        BY <3>1, KillCalms DEF ParentLost, Busy
      <3>2. CASE ~ParentLost(w)
        BY <3>2 DEF ProcessStep, WriteItem, WriteResult, ExitClean, Fail, SpawnChild, ChildExits,
           Reap, osVars, Busy
      <3> QED BY <3>1, <3>2
    <2> QED BY <2>1, <2>2, NobodyNewBusy DEF ServerUnchanged, dbVars, taskVars
  <1>13. CASE UNCHANGED vars BY <1>13, NobodyNewBusy DEF vars, dbVars, taskVars, osVars, Busy
  <1> QED BY <1>1, <1>2, <1>3, <1>4, <1>5, <1>6, <1>7, <1>8, <1>9, <1>10, <1>11, <1>12, <1>13
          DEF Next, Request, CallStep, TaskStep

LEMMA InitWorkers == Init => WorkerInv
  BY CallerNames DEF Init, WorkerInv, ProcInv, Attended, CallInv, NoCall, BusyInv, Busy

LEMMA WorkerInvariance == Spec => [](Base /\ WorkerInv)
  <1>1. Init => WorkerInv BY InitWorkers
  <1>2. Base /\ WorkerInv /\ [Next]_vars => WorkerInv'
    BY ProcStep, CallStepInv, BusyStep DEF WorkerInv
  <1>3. Spec => []Base BY Invariance, PTL DEF Base
  <1> QED BY <1>1, <1>2, <1>3, PTL DEF Spec

(* A worker that has its request is always the one named by its unfinished *)
(* job's row, which is where recover() looks after a crash; and no worker  *)
(* of an earlier target, job or server is at work beside the current one   *)
(* while a server is up.                                                   *)
THEOREM BusyWorkerFindable == Spec => []WorkerFindable
  <1>1. WorkerInv => WorkerFindable BY DEF WorkerInv, BusyInv, Busy, WorkerFindable
  <1> QED BY <1>1, WorkerInvariance, PTL

(* A cancel request that outlives its job signals no other job's worker.   *)
THEOREM CancelHitsOwnWorker == Spec => []OwnTarget
  <1>1. WorkerInv => OwnTarget BY DEF WorkerInv, CallInv, OwnTarget, Target
  <1> QED BY <1>1, WorkerInvariance, PTL

-----------------------------------------------------------------------------
(***************************************************************************)
(* Retention.  Ranks grow with every start, so nothing finished is younger *)
(* than the job at hand.                                                   *)
(***************************************************************************)
Admitted == {i \in Jobs : born[i] > 0}

BornInv == /\ \A j \in Jobs : status[j] = "absent" => born[j] = 0
           /\ \A j \in Jobs : born[j] <= Cardinality(Admitted)
           /\ pc # "idle" => \A j \in Jobs : born[j] <= born[active]

LEMMA BornStart ==
  ASSUME Base, BornInv, NEW j \in Jobs, NEW k, NEW n, Start(j, k, n)
  PROVE  BornInv'
  <1> USE BaseTypes
  <1>1. IsFiniteSet(Admitted) /\ Cardinality(Admitted) \in Nat
    BY FS_Subset, FS_CardinalityType, BoundsAssumption DEF Admitted
  <1>2. j \notin Admitted BY DEF Start, BornInv, Admitted
  <1>3. born' = [born EXCEPT ![j] = 1 + Cardinality(Admitted)] BY DEF Start, Admitted
  <1>4. Admitted' = Admitted \cup {j}
    <2>1. \A i \in Jobs : born'[i] > 0 <=> i = j \/ born[i] > 0 BY <1>1, <1>3
    <2> QED BY <2>1 DEF Admitted
  <1>5. Cardinality(Admitted') = Cardinality(Admitted) + 1
    BY <1>1, <1>2, <1>4, FS_AddElement
  <1>6. \A i \in Jobs : born'[i] <= Cardinality(Admitted) + 1
    BY <1>1, <1>3 DEF BornInv
  <1>7. born'[j] = Cardinality(Admitted) + 1 BY <1>1, <1>3
  <1>8. \A i \in Jobs : status'[i] = "absent" => born'[i] = 0
    BY <1>3 DEF Start, BornInv
  <1>9. active' = j BY DEF Start
  <1> QED BY <1>5, <1>6, <1>7, <1>8, <1>9 DEF BornInv

LEMMA BornQuiet ==
  ASSUME BornInv, UNCHANGED born, pc' # "idle" => pc # "idle" /\ active' = active,
         \A j \in Jobs : status'[j] = "absent" => status[j] = "absent"
  PROVE  BornInv'
  BY DEF BornInv, Admitted

(* What a step does to statuses and ranks.                                 *)
LEMMA StatusMoves ==
  ASSUME Base, [Next]_vars
  PROVE  \/ \E j \in Jobs, k \in {"refresh", "single"}, n \in Items : Start(j, k, n)
         \/ \E j \in Jobs : /\ j = active /\ pc # "idle" /\ pc' # "idle"
                            /\ \E s \in Active : status' = [status EXCEPT ![j] = s]
                            /\ UNCHANGED <<born, active>>
         \/ \E s \in {"succeeded", "failed", "cancelled"}, e \in Errors :
              /\ pc # "idle" /\ active \in Jobs /\ FinishJob(active, s, e)
              /\ UNCHANGED <<born, active>>
         \/ Restart
         \/ UNCHANGED dbVars /\ (pc' # "idle" => pc # "idle" /\ active' = active)
         \/ UNCHANGED <<status, born>> /\ pc # "idle" /\ UNCHANGED active
  <1>1. CASE \E j \in Jobs, k \in {"refresh", "single"}, n \in Items : Start(j, k, n)
    BY <1>1
  <1>2. CASE \E j \in Jobs : Cancel(j)
    <2> PICK j \in Jobs : Cancel(j) BY <1>2
    <2>1. active = j /\ pc # "idle" BY DEF Cancel, Base, RowFollowsTask, ActiveRowIffTask
    <2> QED BY <2>1 DEF Cancel, taskVars, Active
  <1>3. CASE BeginRun
    <2>1. active \in Jobs BY <1>3, ActiveInJobs DEF Base, TaskStep
    <2> QED BY <1>3, <2>1 DEF BeginRun, Active
  <1>4. CASE WorkerDone \/ AbortDone \/ SpawnFails \/ SendFails
    <2>1. PICK out \in Outs : EndWorker(out)
      BY <1>4, OutcomeType DEF WorkerDone, AbortDone, SpawnFails, SendFails, Base, TypeInv
    <2>2. pc # "idle" BY <1>4 DEF WorkerDone, AbortDone, SpawnFails, SendFails
    <2>3. active \in Jobs BY <2>2 DEF Base, RowFollowsTask
    <2> DEFINE a == Accumulate(out)
    <2>4. /\ RefreshStatus(out, a) \in {"succeeded", "failed", "cancelled"}
          /\ out.status \in {"succeeded", "failed", "cancelled"}
          /\ a.error \in Errors /\ out.error \in Errors
      BY AccumulateType DEF Outs, Base, TypeInv
    <2> HIDE DEF a
    <2>5. \/ \E s \in {"succeeded", "failed", "cancelled"}, e \in Errors : FinishJob(active, s, e)
          \/ status' = [status EXCEPT ![active] = "running"] /\ pc' = "spawn"
      BY <2>1, <2>4, Zenon DEF EndWorker, a
    <2>6. UNCHANGED <<born, active>> BY <2>1 DEF EndWorker
    <2> QED BY <2>2, <2>3, <2>5, <2>6 DEF Active
  <1>5. CASE Shutdown \/ ShutdownReturns \/ Crash
    BY <1>5 DEF Shutdown, ShutdownReturns, Crash, MemoryLost, taskVars
  <1>6. CASE Restart BY <1>6
  <1>7. CASE (\E c \in Callers : Escalate(c) \/ TerminateReturns(c))
             \/ (\E j \in Jobs : CancelReturns(j))
    BY <1>7 DEF Escalate, TerminateReturns, CancelReturns, taskVars
  <1>8. CASE SpawnWorker \/ ReadsRequest \/ ReadEvent \/ RejectOutput \/ Timeout
    BY <1>8 DEF SpawnWorker, ReadsRequest, ReadEvent, RejectOutput, Timeout, RunnerKills,
       dbVars, taskVars
  <1>9. CASE \E w \in Workers : ProcessStep(w)
    <2>1. ServerUnchanged
      BY <1>9 DEF ProcessStep, WriteItem, WriteResult, ExitClean, Fail, SpawnChild, ChildExits,
         Reap, ParentLost
    <2> QED BY <2>1 DEF ServerUnchanged, taskVars
  <1>10. CASE UNCHANGED vars BY <1>10 DEF vars, taskVars
  <1> QED BY <1>1, <1>2, <1>3, <1>4, <1>5, <1>6, <1>7, <1>8, <1>9, <1>10
          DEF Next, Request, CallStep, TaskStep

LEMMA FinishKeeps ==
  ASSUME Base, BornInv, pc # "idle", active \in Jobs, NEW s, NEW e, FinishJob(active, s, e)
  PROVE  /\ active \notin Expired(active)
         /\ Expired(active) \subseteq {k \in Jobs : k = active \/ status[k] \in Terminal}
  <1> DEFINE done == {k \in Jobs : k = active \/ status[k] \in Terminal}
  <1>1. {i \in done : born[i] > born[active]} = {}
    BY BaseTypes DEF BornInv
  <1>2. ~(Cardinality({i \in done : born[i] > born[active]}) >= Retain)
    BY <1>1, FS_EmptySet, BoundsAssumption
  <1> QED BY <1>2 DEF Expired

LEMMA BornStep == ASSUME Base, BornInv, [Next]_vars PROVE BornInv'
  <1> USE BaseTypes
  <1>1. CASE \E j \in Jobs, k \in {"refresh", "single"}, n \in Items : Start(j, k, n)
    BY <1>1, BornStart
  <1>2. CASE \E j \in Jobs : /\ j = active /\ pc # "idle" /\ pc' # "idle"
                             /\ \E s \in Active : status' = [status EXCEPT ![j] = s]
                             /\ UNCHANGED <<born, active>>
    <2>1. \A j \in Jobs : status'[j] = "absent" => status[j] = "absent" BY <1>2 DEF Active
    <2> QED BY <1>2, <2>1, BornQuiet
  <1>3. CASE \E s \in {"succeeded", "failed", "cancelled"}, e \in Errors :
               /\ pc # "idle" /\ active \in Jobs /\ FinishJob(active, s, e)
               /\ UNCHANGED <<born, active>>
    <2>1. \A j \in Jobs : status'[j] = "absent" => status[j] = "absent" BY <1>3 DEF FinishJob
    <2> QED BY <1>3, <2>1, BornQuiet
  <1>4. CASE Restart
    <2>1. \A j \in Jobs : status'[j] = "absent" => status[j] = "absent"
      BY <1>4 DEF Restart, Recovered
    <2> QED BY <1>4, <2>1, BornQuiet DEF Restart, taskVars
  <1>5. CASE UNCHANGED dbVars /\ (pc' # "idle" => pc # "idle" /\ active' = active)
    BY <1>5, BornQuiet DEF dbVars
  <1>6. CASE UNCHANGED <<status, born>> /\ pc # "idle" /\ UNCHANGED active
    BY <1>6, BornQuiet
  <1> QED BY <1>1, <1>2, <1>3, <1>4, <1>5, <1>6, StatusMoves

LEMMA InitBorn == Init => BornInv
  <1> SUFFICES ASSUME Init PROVE BornInv OBVIOUS
  <1>1. Cardinality(Admitted) \in Nat
    BY FS_Subset, FS_CardinalityType, BoundsAssumption DEF Admitted
  <1> QED BY <1>1 DEF Init, BornInv

LEMMA BornInvariance == Spec => [](Base /\ BornInv)
  <1>1. Base /\ BornInv /\ [Next]_vars => BornInv' BY BornStep
  <1>2. Spec => []Base BY Invariance, PTL DEF Base
  <1> QED BY <1>1, <1>2, InitBorn, PTL DEF Spec

-----------------------------------------------------------------------------
(***************************************************************************)
(* The coordinator implements JobLifecycle.                                *)
(***************************************************************************)
Phase == [j \in Jobs |-> JobPhase(j)]

LEMMA PhaseInit == Init => Lifecycle!Init
  BY DEF Init, Lifecycle!Init, JobPhase

LEMMA PhaseStep == ASSUME Base, BornInv, [Next]_vars
                   PROVE  [Lifecycle!Next]_(Phase)
  <1> USE BaseTypes
  <1>1. CASE \E j \in Jobs, k \in {"refresh", "single"}, n \in Items : Start(j, k, n)
    <2> PICK j \in Jobs, k \in {"refresh", "single"}, n \in Items : Start(j, k, n) BY <1>1
    <2>1. Phase[j] = "unborn" BY DEF Start, Phase, JobPhase
    <2>2. \A k2 \in Jobs : Phase[k2] # "active"
      BY DEF Start, NothingActive, Phase, JobPhase, Active, Terminal
    <2>3. Phase' = [Phase EXCEPT ![j] = "active"]
      BY DEF Start, Phase, JobPhase, Active
    <2>4. Lifecycle!Admit(j) BY <2>1, <2>2, <2>3 DEF Lifecycle!Admit, Phase
    <2> QED BY <2>4 DEF Lifecycle!Next
  <1>2. CASE \E j \in Jobs : /\ j = active /\ pc # "idle" /\ pc' # "idle"
                             /\ \E s \in Active : status' = [status EXCEPT ![j] = s]
                             /\ UNCHANGED <<born, active>>
    <2> PICK j \in Jobs, s \in Active : j = active /\ status' = [status EXCEPT ![j] = s]
      BY <1>2
    <2>1. status[j] \in Active BY <1>2 DEF Base, RowFollowsTask, ActiveRowIffTask
    <2>2. Phase' = Phase BY <2>1 DEF Phase, JobPhase, Active
    <2> QED BY <2>2
  <1>3. CASE \E s \in {"succeeded", "failed", "cancelled"}, e \in Errors :
               /\ pc # "idle" /\ active \in Jobs /\ FinishJob(active, s, e)
               /\ UNCHANGED <<born, active>>
    <2> PICK s \in {"succeeded", "failed", "cancelled"}, e \in Errors : FinishJob(active, s, e) BY <1>3
    <2> DEFINE expired == Expired(active)
    <2>1. active \notin expired
          /\ expired \subseteq {k \in Jobs : k = active \/ status[k] \in Terminal}
      BY <1>3, FinishKeeps
    <2>2. status[active] \in Active BY <1>3 DEF Base, RowFollowsTask, ActiveRowIffTask
    <2>3. Phase[active] = "active" BY <2>2, <1>3 DEF Phase, JobPhase, Active
    <2>4. expired \subseteq {k \in Jobs : Phase[k] \in {"succeeded", "failed", "cancelled", "interrupted"}}
      BY <2>1 DEF Phase, JobPhase, Terminal, Active
    <2>5. Phase' = [k \in Jobs |-> IF k = active THEN s
                                   ELSE IF k \in expired THEN "forgotten" ELSE Phase[k]]
      BY <2>1 DEF FinishJob, Phase, JobPhase, Active, Terminal
    <2>6. Lifecycle!Finish(active, s, expired)
      BY <2>3, <2>4, <2>5 DEF Lifecycle!Finish, Lifecycle!Outcomes, Phase
    <2>7. expired \in SUBSET Jobs /\ s \in Lifecycle!Outcomes
      BY <2>4 DEF Lifecycle!Outcomes
    <2> QED BY <1>3, <2>6, <2>7 DEF Lifecycle!Next
  <1>4. CASE Restart
    <2>1. CASE \A j \in Jobs : status[j] \notin Active
      <3>1. Phase' = Phase BY <1>4, <2>1 DEF Restart, Recovered, Phase, JobPhase
      <3> QED BY <3>1
    <2>2. CASE \E j \in Jobs : status[j] \in Active
      <3> PICK j \in Jobs : status[j] \in Active BY <2>2
      <3>1. \A k \in Jobs : status[k] \in Active => k = j
        BY DEF Base, RowFollowsTask, ActiveRowIffTask
      <3>2. Phase[j] = "active" BY DEF Phase, JobPhase, Active
      <3>3. Phase' = [k \in Jobs |-> IF k = j THEN "interrupted"
                                     ELSE IF k \in {} THEN "forgotten" ELSE Phase[k]]
        BY <1>4, <3>1 DEF Restart, Recovered, Phase, JobPhase, Active
      <3>4. Lifecycle!Finish(j, "interrupted", {})
        BY <3>2, <3>3 DEF Lifecycle!Finish, Phase
      <3> QED BY <3>4 DEF Lifecycle!Next, Lifecycle!Outcomes
    <2> QED BY <2>1, <2>2
  <1>5. CASE status' = status
    <2>1. Phase' = Phase BY <1>5 DEF Phase, JobPhase
    <2> QED BY <2>1
  <1> QED BY <1>1, <1>2, <1>3, <1>4, <1>5, StatusMoves DEF dbVars

(* Every behaviour of the coordinator is one of JobLifecycle: one admission*)
(* at a time, and outcomes that are never revised.                         *)
THEOREM Refinement == Spec => ImplementsLifecycle
  <1>1. Base /\ BornInv /\ [Next]_vars => [Lifecycle!Next]_(Phase) BY PhaseStep
  <1> QED BY <1>1, PhaseInit, BornInvariance, PTL
          DEF Spec, ImplementsLifecycle, Lifecycle!Spec, Phase

=============================================================================
