-------------------------- MODULE JobResults_proofs --------------------------
(***************************************************************************)
(* Theorems about what JobCoordinator reports: the outcome of a cancelled  *)
(* job, the recorded results of items and a refresh that succeeded.  They  *)
(* rest on what a refresh worker writes to its stdout, and what of it has  *)
(* been read, at each place of _run_worker.                                *)
(***************************************************************************)
EXTENDS JobCoordinator_proofs

-----------------------------------------------------------------------------
(***************************************************************************)
(* A job that was asked to stop.                                           *)
(***************************************************************************)
Excused == rd.proto \/ unread \/ pc = "spawn"

(* While drain() waits, part of the request is unread.                     *)
UnreadInv == pc = "send" => unread

LEMMA UnreadStep == ASSUME Base, UnreadInv, [Next]_vars PROVE UnreadInv'
  <1>1. CASE SpawnWorker BY <1>1 DEF SpawnWorker, UnreadInv
  <1>2. CASE Request
    <2>1. CASE (\E j \in Jobs : Cancel(j)) \/ Shutdown
      BY <2>1 DEF Cancel, Shutdown, taskVars, outVars, UnreadInv
    <2> QED BY <1>2, <2>1 DEF Request, Start, UnreadInv
  <1>3. CASE CallStep
    <2>1. CASE \E c \in Callers : TerminateReturns(c)
      BY <2>1 DEF TerminateReturns, outVars, UnreadInv
    <2>2. CASE (\E c \in Callers : Escalate(c)) \/ (\E j \in Jobs : CancelReturns(j))
      BY <2>2 DEF Escalate, CancelReturns, taskVars, outVars, UnreadInv
    <2>3. CASE ShutdownReturns BY <2>3 DEF ShutdownReturns, MemoryLost, UnreadInv
    <2> QED BY <1>3, <2>1, <2>2, <2>3 DEF CallStep
  <1>4. CASE BeginRun \/ ReadsRequest BY <1>4 DEF BeginRun, ReadsRequest, UnreadInv
  <1>5. CASE ReadEvent BY <1>5, Zenon DEF ReadEvent, taskVars, UnreadInv
  <1>6. CASE Timeout \/ RejectOutput BY <1>6 DEF Timeout, RejectOutput, RunnerKills, UnreadInv
  <1>7. CASE WorkerDone \/ AbortDone \/ SpawnFails \/ SendFails
    BY <1>7 DEF WorkerDone, AbortDone, SpawnFails, SendFails, EndWorker, FinishJob, UnreadInv
  <1>8. CASE Crash \/ Restart
    BY <1>8 DEF Crash, MemoryLost, Restart, taskVars, outVars, UnreadInv
  <1>9. CASE \E w \in Workers : ProcessStep(w)
    <2>1. ServerUnchanged /\ unread' = unread
      BY <1>9, Zenon DEF ProcessStep, WriteItem, WriteResult, ExitClean, Fail, SpawnChild, ChildExits,
         Reap, ParentLost, outVars
    <2> QED BY <2>1 DEF ServerUnchanged, taskVars, UnreadInv
  <1>10. CASE UNCHANGED vars BY <1>10 DEF vars, taskVars, outVars, UnreadInv
  <1> QED BY <1>1, <1>2, <1>3, <1>4, <1>5, <1>6, <1>7, <1>8, <1>9, <1>10 DEF Next, TaskStep

LEMMA CancelledEnd ==
  ASSUME Base, BornInv, cancelled, pc # "idle", active \in Jobs,
         NEW out \in Outs, EndWorker(out),
         out.status = "cancelled" \/ (out.status = "failed" /\ Excused)
  PROVE  \/ status'[active] \in Active
         \/ status'[active] = "cancelled"
         \/ status'[active] = "failed" /\ Excused
  <1> USE BaseTypes
  <1> DEFINE a == Accumulate(out)
  <1>1. out.status = "failed" => a.failed BY DEF Accumulate
  <1>2. ASSUME NEW s, NEW e, FinishJob(active, s, e) PROVE status'[active] = s
    BY <1>2, FinishKeeps DEF FinishJob
  <1>3. CASE kind = "single" /\ FinishJob(active, out.status, out.error)
    BY <1>2, <1>3
  <1>4. CASE kind = "refresh" /\ FinishJob(active, RefreshStatus(out, a), a.error)
    <2>1. status'[active] = RefreshStatus(out, a) BY <1>2, <1>4
    <2> QED BY <2>1, <1>1 DEF RefreshStatus
  <1>5. CASE status' = [status EXCEPT ![active] = "running"]
    BY <1>5 DEF Active
  <1> QED BY <1>3, <1>4, <1>5 DEF EndWorker

(* Whatever the workers wrote, however many targets are left and whichever *)
(* server ends the job: one that was asked to stop ends cancelled or       *)
(* interrupted, or failed for the two reasons CancelWins names.            *)
THEOREM CancelPrevails == Spec => CancelWins
  <1>1. Base /\ BornInv /\ UnreadInv /\ [Next]_vars =>
          [\A j \in Jobs :
             /\ cancelled /\ active = j
             /\ status[j] \in Active /\ status'[j] \notin Active
             => \/ status'[j] \in {"cancelled", "interrupted"}
                \/ status'[j] = "failed" /\ Excused]_vars
    <2> SUFFICES ASSUME Base, BornInv, UnreadInv, [Next]_vars, NEW j \in Jobs, cancelled, active = j,
                        status[j] \in Active, status'[j] \notin Active
                 PROVE  \/ status'[j] \in {"cancelled", "interrupted"}
                        \/ status'[j] = "failed" /\ Excused
      OBVIOUS
    <2> USE BaseTypes
    <2>1. CASE WorkerDone \/ AbortDone \/ SpawnFails \/ SendFails
      <3>1. PICK out \in Outs :
               /\ EndWorker(out)
               /\ \/ out.status = "cancelled"
                  \/ out.status = "failed" /\ Excused
        <4>1. CASE WorkerDone
          <5>1. WorkerOutcome \in Outs BY OutcomeType DEF Base, TypeInv
          <5> QED BY <4>1, <5>1 DEF WorkerDone, WorkerOutcome, Out, Excused
        <4>2. CASE AbortDone
          BY <4>2, OutcomeType DEF AbortDone, Out, Base, TypeInv
        <4>3. CASE SpawnFails \/ SendFails
          BY <4>3, OutcomeType DEF SpawnFails, SendFails, Out, Base, TypeInv, UnreadInv, Excused
        <4> QED BY <2>1, <4>1, <4>2, <4>3
      <3>2. pc # "idle" BY <2>1 DEF WorkerDone, AbortDone, SpawnFails, SendFails
      <3> QED BY <3>1, <3>2, CancelledEnd
    <2>2. CASE Restart BY <2>2 DEF Restart, Recovered
    <2>3. CASE \E i \in Jobs, k \in {"refresh", "single"}, n \in Items : Start(i, k, n)
      BY <2>3 DEF Start, NothingActive
    <2>4. CASE BeginRun \/ (\E i \in Jobs : Cancel(i)) BY <2>4 DEF BeginRun, Cancel, Active
    <2>5. CASE Shutdown \/ ShutdownReturns \/ Crash
      BY <2>5 DEF Shutdown, ShutdownReturns, Crash, dbVars
    <2>6. CASE (\E c \in Callers : Escalate(c) \/ TerminateReturns(c))
               \/ (\E i \in Jobs : CancelReturns(i))
      BY <2>6 DEF Escalate, TerminateReturns, CancelReturns, dbVars
    <2>7. CASE SpawnWorker \/ ReadsRequest \/ ReadEvent \/ RejectOutput \/ Timeout
      BY <2>7 DEF SpawnWorker, ReadsRequest, ReadEvent, RejectOutput, Timeout, RunnerKills, dbVars
    <2>8. CASE \E w \in Workers : ProcessStep(w)
      <3>1. ServerUnchanged
        BY <2>8 DEF ProcessStep, WriteItem, WriteResult, ExitClean, Fail, SpawnChild, ChildExits,
           Reap, ParentLost
      <3> QED BY <3>1 DEF ServerUnchanged, dbVars
    <2>9. CASE UNCHANGED vars BY <2>9 DEF vars, dbVars
    <2> QED BY <2>1, <2>2, <2>3, <2>4, <2>5, <2>6, <2>7, <2>8, <2>9
            DEF Next, Request, CallStep, TaskStep
  <1>2. Init => UnreadInv BY DEF Init, UnreadInv
  <1>3. Base /\ UnreadInv /\ [Next]_vars => UnreadInv' BY UnreadStep
  <1>4. Spec => []UnreadInv
    <2>1. Spec => []Base BY Invariance, PTL DEF Base
    <2> QED BY <1>2, <1>3, <2>1, PTL DEF Spec
  <1> QED BY <1>1, <1>4, BornInvariance, PTL DEF Spec, CancelWins, Excused

-----------------------------------------------------------------------------
(***************************************************************************)
(* The stdout of a refresh worker.  It writes the item of its own target,  *)
(* then the result, then at most noise; what is not yet in the pipe and    *)
(* not yet read has not been written.  Until its request is sent there is  *)
(* nothing to read, and no reader has seen anything.                       *)
(***************************************************************************)
Reading == {"wait", "kill", "drain"}

(* It has not written its result.                                          *)
Early == {"waiting", "working"}

Sent(type) == \E n \in 1..Len(pipe) : pipe[n].type = type

QuietInv ==
  pc \notin Reading => /\ pipe = <<>> /\ rd = FreshReader
                       /\ proc # NoWorker => said = 0 /\ ~Busy(proc)

ProtoInv == rd.proto => pipe = <<>>

OwnItems == \A n \in 1..Len(pipe) : pipe[n].type = "item" => pipe[n].item = idx

(* The item comes before the result, and only once.                        *)
ItemThenResult ==
  \A n \in 1..Len(pipe) : pipe[n].type = "result" =>
    /\ rd.rows \/ \E m \in 1..Len(pipe) : m < n /\ pipe[m].type = "item"
    /\ \A m \in 1..Len(pipe) : m > n => pipe[m].type # "item"

ResultIsLast == Sent("result") \/ rd.result # "none" => leader[proc] \notin Early

ResultRead == rd.result # "none" => rd.rows /\ ~Sent("item")

ItemNotLost == said > 0 => rd.rows \/ Sent("item")

(* What the reader holds against the recorded results.                     *)
RowsRecorded == /\ rd.rows /\ rd.itemsOk => item[idx] = "succeeded"
                /\ rd.result = "ok" => rd.itemsOk

Stream == /\ OwnItems /\ ItemThenResult /\ ResultIsLast /\ ResultRead /\ ItemNotLost
          /\ RowsRecorded

StreamInv == pc \in Reading /\ kind = "refresh" /\ ~rd.proto => Stream

(* A refresh that has met no failure has good results for every target it  *)
(* is past, and one that ended well for every target it named.             *)
PastInv == /\ pc # "idle" /\ kind = "refresh" /\ ~acc.failed
                => \A i \in Items : i < idx => item[i] = "succeeded"
           /\ SucceededIsComplete

LEMMA AppendAt ==
  ASSUME NEW s \in Seq(Events), NEW e \in Events
  PROVE  /\ Len(s) \in Nat /\ Len(Append(s, e)) = Len(s) + 1
         /\ \A n \in 1..Len(s) : Append(s, e)[n] = s[n]
         /\ Append(s, e)[Len(s) + 1] = e
  OBVIOUS

LEMMA TailAt ==
  ASSUME NEW s \in Seq(Events), s # <<>>
  PROVE  /\ Len(s) \in Nat /\ Len(s) >= 1 /\ Len(Tail(s)) = Len(s) - 1
         /\ \A n \in 1..(Len(s) - 1) : Tail(s)[n] = s[n + 1]
         /\ Head(s) = s[1]
  OBVIOUS

(* A write at the end of the pipe, by the kind of event.                   *)
LEMMA NoiseKeeps ==
  ASSUME Base, Stream, NEW type \in {"error", "garbage"}, pipe' = Append(pipe, Event(type, 0, FALSE)),
         UNCHANGED <<rd, item, idx, said, proc>>, leader'[proc] \in Early => leader[proc] \in Early
  PROVE  Stream'
  <1> DEFINE e == Event(type, 0, FALSE)
  <1>1. pipe \in Seq(Events) /\ e \in Events
    BY Bounds, EventType DEF Base, TypeInv, TypeOK, OutType
  <1>2. e.type # "item" /\ e.type # "result" BY DEF Event
  <1> HIDE DEF e
  <1>3. /\ Len(pipe) \in Nat /\ Len(pipe') = Len(pipe) + 1
        /\ \A n \in 1..Len(pipe) : pipe'[n] = pipe[n]
        /\ pipe'[Len(pipe) + 1] = e
    BY <1>1, AppendAt DEF e
  <1>4. ASSUME NEW n \in 1..Len(pipe'), pipe'[n].type = "item" \/ pipe'[n].type = "result"
        PROVE  n \in 1..Len(pipe) /\ pipe'[n] = pipe[n]
    <2>1. n # Len(pipe) + 1 BY <1>2, <1>3, <1>4
    <2> QED BY <2>1, <1>3
  <1>5. ASSUME NEW n \in 1..Len(pipe) PROVE n \in 1..Len(pipe') /\ pipe'[n] = pipe[n]
    BY <1>3
  <1>6. OwnItems' BY <1>4 DEF Stream, OwnItems
  <1>7. ItemThenResult'
    <2> SUFFICES ASSUME NEW n \in 1..Len(pipe'), pipe'[n].type = "result"
                 PROVE  /\ rd.rows \/ \E m \in 1..Len(pipe') : m < n /\ pipe'[m].type = "item"
                        /\ \A m \in 1..Len(pipe') : m > n => pipe'[m].type # "item"
      BY DEF ItemThenResult
    <2>1. n \in 1..Len(pipe) /\ pipe[n].type = "result" BY <1>4
    <2> QED BY <2>1, <1>4, <1>5 DEF Stream, ItemThenResult
  <1>8. Sent("result")' => Sent("result") BY <1>4 DEF Sent
  <1>9. Sent("item")' <=> Sent("item") BY <1>4, <1>5 DEF Sent
  <1> QED BY <1>6, <1>7, <1>8, <1>9
          DEF Stream, ResultIsLast, ResultRead, ItemNotLost, RowsRecorded

LEMMA ItemKeeps ==
  ASSUME Base, Stream, NEW ok \in BOOLEAN, pipe' = Append(pipe, Event("item", idx, ok)),
         UNCHANGED <<rd, item, idx, proc, leader>>, leader[proc] = "working"
  PROVE  Stream'
  <1> DEFINE e == Event("item", idx, ok)
  <1>1. pipe \in Seq(Events) /\ e \in Events
    BY Bounds, EventType DEF Base, TypeInv, TypeOK, OutType, TaskType
  <1>2. e.type = "item" /\ e.item = idx BY DEF Event
  <1> HIDE DEF e
  <1>3. /\ Len(pipe) \in Nat /\ Len(pipe') = Len(pipe) + 1
        /\ \A n \in 1..Len(pipe) : pipe'[n] = pipe[n]
        /\ pipe'[Len(pipe) + 1] = e
    BY <1>1, AppendAt DEF e
  <1>4. rd.result = "none" /\ ~Sent("result") BY DEF Stream, ResultIsLast, Early
  <1>5. OwnItems' BY <1>2, <1>3 DEF Stream, OwnItems
  <1>6. ~Sent("result")' BY <1>2, <1>3, <1>4 DEF Sent
  <1>7. ItemThenResult' BY <1>6 DEF Sent, ItemThenResult
  <1>8. Sent("item")' BY <1>2, <1>3 DEF Sent
  <1> QED BY <1>4, <1>5, <1>6, <1>7, <1>8
          DEF Stream, ResultIsLast, ResultRead, ItemNotLost, RowsRecorded

LEMMA ResultKeeps ==
  ASSUME Base, Stream, NEW ok \in BOOLEAN, pipe' = Append(pipe, Event("result", 0, ok)),
         UNCHANGED <<rd, item, idx, proc, said>>, said > 0, leader[proc] = "working",
         leader'[proc] \notin Early
  PROVE  Stream'
  <1> DEFINE e == Event("result", 0, ok)
  <1>1. pipe \in Seq(Events) /\ e \in Events
    BY Bounds, EventType DEF Base, TypeInv, TypeOK, OutType
  <1>2. e.type = "result" BY DEF Event
  <1> HIDE DEF e
  <1>3. /\ Len(pipe) \in Nat /\ Len(pipe') = Len(pipe) + 1
        /\ \A n \in 1..Len(pipe) : pipe'[n] = pipe[n]
        /\ pipe'[Len(pipe) + 1] = e
    BY <1>1, AppendAt DEF e
  <1>4. rd.result = "none" /\ ~Sent("result") BY DEF Stream, ResultIsLast, Early
  <1>5. OwnItems' BY <1>2, <1>3 DEF Stream, OwnItems
  <1>6. Sent("item")' <=> Sent("item") BY <1>2, <1>3 DEF Sent
  <1>7. rd.rows \/ Sent("item") BY DEF Stream, ItemNotLost
  <1>8. ItemThenResult' BY <1>2, <1>3, <1>4, <1>7 DEF Sent, ItemThenResult
  <1> QED BY <1>4, <1>5, <1>6, <1>8
          DEF Stream, ResultIsLast, ResultRead, ItemNotLost, RowsRecorded

(* The reader takes the first event of the pipe.                           *)
LEMMA ReadKeeps ==
  ASSUME Base, Stream, ReadEvent, kind = "refresh", ~rd'.proto
  PROVE  Stream'
  <1> USE BaseTypes
  <1>1. /\ pipe \in Seq(Events) /\ pipe # <<>>
        /\ item \in [Items -> {"none", "succeeded", "failed"}]
        /\ rd \in [result : Verdicts, error : Errors, proto : BOOLEAN,
                   rows : BOOLEAN, itemsOk : BOOLEAN]
    BY DEF ReadEvent, Base, TypeInv, TypeOK, OutType, RowType, ReaderType
  <1>2. pipe' = Tail(pipe) BY DEF ReadEvent
  <1>3. UNCHANGED <<idx, said, proc, leader>> BY DEF ReadEvent, taskVars, osVars
  <1> DEFINE e == pipe[1]
  <1>4. /\ Len(pipe) \in Nat /\ Len(pipe) >= 1 /\ Len(pipe') = Len(pipe) - 1
        /\ \A n \in 1..Len(pipe') : n + 1 \in 1..Len(pipe) /\ pipe'[n] = pipe[n + 1]
        /\ Head(pipe) = e /\ 1 \in 1..Len(pipe)
    BY <1>1, <1>2, TailAt
  <1>5. \A n \in 1..Len(pipe) : n # 1 => n - 1 \in 1..Len(pipe') /\ pipe'[n - 1] = pipe[n]
    <2> SUFFICES ASSUME NEW n \in 1..Len(pipe), n # 1
                 PROVE  n - 1 \in 1..Len(pipe') /\ pipe'[n - 1] = pipe[n]
      OBVIOUS
    <2>1. n - 1 \in 1..Len(pipe') BY <1>4
    <2>2. pipe'[n - 1] = pipe[(n - 1) + 1] BY <2>1, <1>4
    <2> QED BY <2>1, <2>2
  <1> HIDE DEF e
  <1>6. \/ /\ e.type = "item" /\ rd'.rows /\ rd'.result = rd.result
           /\ rd'.itemsOk => item' = [item EXCEPT ![e.item] = "succeeded"]
        \/ /\ e.type = "result" /\ UNCHANGED item
           /\ rd' = [rd EXCEPT !.result = IF rd.itemsOk THEN "ok" ELSE "bad"]
        \/ /\ e.type = "error" /\ UNCHANGED item
           /\ rd' = [rd EXCEPT !.error = "WORKER_FAILED"]
    <2>1. e \in Events BY <1>1, <1>4 DEF e
    <2>2. e.ok \in BOOLEAN BY <2>1 DEF Events
    <2>3. ~(rd' = [rd EXCEPT !.proto = TRUE]) BY <1>1
    <2>4. ASSUME NEW ok \in {e.ok, FALSE},
                 item' = [item EXCEPT ![e.item] = IF ok THEN "succeeded" ELSE "failed"],
                 rd' = [rd EXCEPT !.rows = TRUE, !.itemsOk = @ /\ ok]
          PROVE  /\ rd'.rows /\ rd'.result = rd.result
                 /\ rd'.itemsOk => item' = [item EXCEPT ![e.item] = "succeeded"]
      <3>1. rd'.rows = TRUE /\ rd'.result = rd.result /\ rd'.itemsOk = (rd.itemsOk /\ ok)
        BY <1>1, <2>4
      <3>2. CASE ok BY <3>1, <3>2, <2>4
      <3>3. CASE ~ok BY <3>1, <3>3
      <3> QED BY <3>2, <3>3
    <2> QED BY <1>4, <2>2, <2>3, <2>4 DEF ReadEvent
  <1>7. OwnItems' BY <1>3, <1>4 DEF Stream, OwnItems
  <1>8. Sent("item")' => Sent("item") BY <1>4 DEF Sent
  <1>9. Sent("result")' => Sent("result") BY <1>4 DEF Sent
  <1>10. Sent("item") /\ e.type # "item" => Sent("item")' BY <1>5 DEF Sent, e
  <1>11. e.type = "item" => rd'.rows
    BY <1>1, <1>6
  <1>12. rd.rows => rd'.rows BY <1>1, <1>6
  <1>13. ItemThenResult'
    <2> SUFFICES ASSUME NEW n \in 1..Len(pipe'), pipe'[n].type = "result"
                 PROVE  /\ rd'.rows \/ \E m \in 1..Len(pipe') : m < n /\ pipe'[m].type = "item"
                        /\ \A m \in 1..Len(pipe') : m > n => pipe'[m].type # "item"
      BY DEF ItemThenResult
    <2>1. n + 1 \in 1..Len(pipe) /\ pipe[n + 1].type = "result" BY <1>4
    <2>2. rd.rows \/ \E m \in 1..Len(pipe) : m < n + 1 /\ pipe[m].type = "item"
      BY <2>1 DEF Stream, ItemThenResult
    <2>3. ASSUME NEW m \in 1..Len(pipe), m < n + 1, pipe[m].type = "item"
          PROVE  rd'.rows \/ \E k \in 1..Len(pipe') : k < n /\ pipe'[k].type = "item"
      <3>1. CASE m = 1 BY <3>1, <2>3, <1>11 DEF e
      <3>2. CASE m # 1
        <4>1. m - 1 \in 1..Len(pipe') /\ pipe'[m - 1].type = "item" BY <3>2, <2>3, <1>5
        <4>2. m - 1 < n BY <2>3
        <4> QED BY <4>1, <4>2
      <3> QED BY <3>1, <3>2
    <2>4. ASSUME NEW m \in 1..Len(pipe'), m > n PROVE pipe'[m].type # "item"
      <3>1. m + 1 \in 1..Len(pipe) /\ m + 1 > n + 1 /\ pipe'[m] = pipe[m + 1] BY <2>4, <1>4
      <3> QED BY <3>1, <2>1 DEF Stream, ItemThenResult
    <2> QED BY <2>2, <2>3, <2>4, <1>12
  <1>14. e.type = "result" => rd.rows /\ ~Sent("item")'
    <2> SUFFICES ASSUME e.type = "result" PROVE rd.rows /\ ~Sent("item")' OBVIOUS
    <2>1. rd.rows BY <1>4 DEF Stream, ItemThenResult, e
    <2>2. \A m \in 1..Len(pipe) : m > 1 => pipe[m].type # "item"
      BY <1>4 DEF Stream, ItemThenResult, e
    <2>3. ASSUME NEW m \in 1..Len(pipe') PROVE pipe'[m].type # "item"
      <3>1. m + 1 \in 1..Len(pipe) /\ m + 1 > 1 /\ pipe'[m] = pipe[m + 1] BY <1>4
      <3> QED BY <3>1, <2>2
    <2> QED BY <2>1, <2>3 DEF Sent
  <1>15. e.type = "result" => Sent("result") BY <1>4 DEF Sent, e
  <1>16. e.type = "item" => e.item = idx /\ Sent("item") BY <1>4 DEF Stream, OwnItems, Sent, e
  <1>17. CASE e.type = "item"
    <2>1. rd.result = "none" BY <1>16, <1>17 DEF Stream, ResultRead
    <2>2. rd'.result = "none" BY <1>1, <1>6, <1>17, <2>1
    <2>3. rd'.itemsOk => item'[idx] = "succeeded"
      BY <1>1, <1>6, <1>16, <1>17
    <2>4. ResultIsLast' BY <1>3, <1>9, <2>2 DEF Stream, ResultIsLast
    <2>5. ResultRead' /\ ItemNotLost' BY <1>11, <1>17, <2>2 DEF ResultRead, ItemNotLost
    <2>6. RowsRecorded' BY <1>3, <2>2, <2>3 DEF RowsRecorded
    <2> QED BY <1>7, <1>13, <2>4, <2>5, <2>6 DEF Stream
  <1>18. CASE e.type = "result"
    <2>1. /\ rd'.result = (IF rd.itemsOk THEN "ok" ELSE "bad") /\ UNCHANGED item
          /\ rd'.rows = rd.rows /\ rd'.itemsOk = rd.itemsOk
      BY <1>1, <1>6, <1>18
    <2>2. rd.rows /\ ~Sent("item")' BY <1>14, <1>18
    <2>3. ResultIsLast' BY <1>3, <1>15, <1>18 DEF Stream, ResultIsLast
    <2>4. ResultRead' /\ ItemNotLost' BY <2>1, <2>2 DEF ResultRead, ItemNotLost
    <2>5. RowsRecorded' BY <1>3, <2>1 DEF Stream, RowsRecorded
    <2> QED BY <1>7, <1>13, <2>3, <2>4, <2>5 DEF Stream
  <1>19. CASE e.type = "error"
    <2>1. /\ rd'.result = rd.result /\ UNCHANGED item
          /\ rd'.rows = rd.rows /\ rd'.itemsOk = rd.itemsOk
      BY <1>1, <1>6, <1>19
    <2>2. ResultIsLast' BY <1>3, <1>9, <2>1 DEF Stream, ResultIsLast
    <2>3. ResultRead' BY <1>8, <2>1 DEF Stream, ResultRead
    <2>4. ItemNotLost' BY <1>3, <1>10, <1>19, <2>1 DEF Stream, ItemNotLost
    <2>5. RowsRecorded' BY <1>3, <2>1 DEF Stream, RowsRecorded
    <2> QED BY <1>7, <1>13, <2>2, <2>3, <2>4, <2>5 DEF Stream
  <1> QED BY <1>6, <1>17, <1>18, <1>19

-----------------------------------------------------------------------------
(***************************************************************************)
(* One step.                                                               *)
(***************************************************************************)
ResultInv == QuietInv /\ ProtoInv /\ StreamInv /\ PastInv

LEMMA AttendedWorker ==
  ASSUME Base, ProcInv
  PROVE  /\ pc \in Reading => proc \in Workers /\ proc = <<active, idx>>
         /\ proc # NoWorker => proc \in Workers
         /\ pc # "idle" => active \in Jobs /\ status[active] \in Active
  BY BaseTypes DEF ProcInv, Reading, Attended, Base, RowFollowsTask, ActiveRowIffTask

LEMMA NotWorking == ASSUME NEW ws, Kill(ws) PROVE \A w \in Workers : leader'[w] \in Early => leader[w] \in Early
  BY DEF Kill, Alive, Early

(* A step that leaves the stream, what was read of it and the results.     *)
LEMMA StreamSame ==
  ASSUME Base, ProcInv, QuietInv, ProtoInv, StreamInv,
         UNCHANGED <<kind, pipe, item, idx, said, proc>>,
         rd'.result = rd.result /\ rd'.rows = rd.rows /\ rd'.itemsOk = rd.itemsOk /\ rd'.proto = rd.proto,
         pc \in Reading <=> pc' \in Reading,
         pc \notin Reading => rd' = rd,
         \A w \in Workers : w = proc =>
           /\ leader'[w] \in Early => leader[w] \in Early
           /\ pc \notin Reading => (Busy(w)' => Busy(w))
  PROVE  QuietInv' /\ ProtoInv' /\ StreamInv'
  <1>1. QuietInv' BY AttendedWorker DEF QuietInv
  <1>2. ProtoInv' BY DEF ProtoInv
  <1>3. Stream /\ pc \in Reading => Stream'
    <2> SUFFICES ASSUME Stream, pc \in Reading PROVE Stream' OBVIOUS
    <2>1. leader'[proc] \in Early => leader[proc] \in Early BY AttendedWorker
    <2>2. Sent("item")' <=> Sent("item") BY DEF Sent
    <2>3. Sent("result")' <=> Sent("result") BY DEF Sent
    <2>4. OwnItems' BY DEF Stream, OwnItems
    <2>5. ItemThenResult' BY DEF Stream, ItemThenResult
    <2> QED BY <2>1, <2>2, <2>3, <2>4, <2>5
            DEF Stream, ResultIsLast, ResultRead, ItemNotLost, RowsRecorded
  <1> QED BY <1>1, <1>2, <1>3 DEF StreamInv

(* A write by the current worker, which is at work and hence being read.   *)
LEMMA StreamWrite ==
  ASSUME Base, ProcInv, QuietInv, ProtoInv, StreamInv, NEW e,
         UNCHANGED <<kind, rd, proc, pc>>, proc \in Workers, Busy(proc), Write(e),
         Stream /\ kind = "refresh" /\ pipe' = Append(pipe, e) => Stream'
  PROVE  QuietInv' /\ ProtoInv' /\ StreamInv'
  <1>1. pc \in Reading BY NamesAssumption DEF QuietInv
  <1>2. QuietInv' BY <1>1 DEF QuietInv
  <1>3. ProtoInv' BY DEF ProtoInv, Write
  <1>4. StreamInv' BY <1>1 DEF StreamInv, Write
  <1> QED BY <1>2, <1>3, <1>4

LEMMA ProcessResults ==
  ASSUME Base, ProcInv, QuietInv, ProtoInv, StreamInv, NEW w \in Workers, ProcessStep(w)
  PROVE  QuietInv' /\ ProtoInv' /\ StreamInv'
  <1> USE BaseTypes, AttendedWorker
  <1>0. ServerUnchanged
    BY DEF ProcessStep, WriteItem, WriteResult, ExitClean, Fail, SpawnChild, ChildExits,
       Reap, ParentLost
  <1>u. UNCHANGED <<kind, item, idx, proc, pc, rd>> BY <1>0 DEF ServerUnchanged, rowVars, taskVars
  <1>1. CASE \E ok \in BOOLEAN : WriteItem(w, ok)
    <2> PICK ok \in BOOLEAN : WriteItem(w, ok) BY <1>1
    <2> DEFINE e == Event("item", IF kind = "refresh" THEN w[2] ELSE said + 1, ok)
    <2>1. Busy(proc) /\ proc \in Workers /\ Write(e) BY DEF WriteItem, Busy
    <2>2. ASSUME Stream, kind = "refresh", pipe' = Append(pipe, e) PROVE Stream'
      <3>1. pc \in Reading BY <2>1, NamesAssumption DEF QuietInv
      <3>2. proc = <<active, idx>> BY <3>1
      <3>3. pipe' = Append(pipe, Event("item", idx, ok)) BY <2>2, <3>2 DEF WriteItem
      <3>4. UNCHANGED leader /\ leader[proc] = "working" BY DEF WriteItem, osVars
      <3> QED BY <2>2, <3>3, <3>4, <1>u, ItemKeeps
    <2> HIDE DEF e
    <2> QED BY <2>1, <2>2, <1>u, StreamWrite
  <1>2. CASE \E ok \in BOOLEAN : WriteResult(w, ok)
    <2> PICK ok \in BOOLEAN : WriteResult(w, ok) BY <1>2
    <2> DEFINE e == Event("result", 0, ok)
    <2>1. Busy(proc) /\ proc \in Workers /\ Write(e) BY DEF WriteResult, Busy
    <2>2. ASSUME Stream, kind = "refresh", pipe' = Append(pipe, e) PROVE Stream'
      <3>1. said > 0 /\ UNCHANGED said BY <2>2 DEF WriteResult
      <3>2. leader[proc] = "working" /\ leader'[proc] \notin Early BY <2>1 DEF WriteResult, Early
      <3> QED BY <2>2, <3>1, <3>2, <1>u, ResultKeeps
    <2> HIDE DEF e
    <2> QED BY <2>1, <2>2, <1>u, StreamWrite
  <1>3. CASE Fail(w)
    <2>1. \A v \in Workers : /\ leader'[v] \in Early => leader[v] \in Early
                             /\ Busy(v)' => Busy(v)
      BY <1>3 DEF Fail, Busy, Early
    <2>2. UNCHANGED said BY <1>3 DEF Fail
    <2>3. CASE UNCHANGED pipe BY <2>1, <2>2, <2>3, <1>u, StreamSame
    <2>4. CASE /\ leader[w] # "waiting" /\ w = proc
               /\ \E type \in {"error", "garbage"} : Write(Event(type, 0, FALSE))
      <3> PICK type \in {"error", "garbage"} : Write(Event(type, 0, FALSE)) BY <2>4
      <3> DEFINE e == Event(type, 0, FALSE)
      <3>1. Busy(proc) /\ proc \in Workers /\ Write(e) BY <2>4, <1>3 DEF Fail, Busy, Alive
      <3>2. ASSUME Stream, pipe' = Append(pipe, e) PROVE Stream'
        BY <3>1, <3>2, <2>1, <2>2, <1>u, NoiseKeeps
      <3> HIDE DEF e
      <3> QED BY <3>1, <3>2, <1>u, StreamWrite
    <2> QED BY <1>3, <2>3, <2>4 DEF Fail
  <1>4. CASE ExitClean(w) \/ SpawnChild(w) \/ ChildExits(w) \/ Reap(w) \/ ParentLost(w)
    <2>1. UNCHANGED <<pipe, said>>
      BY <1>4 DEF ExitClean, SpawnChild, ChildExits, Reap, ParentLost, outVars
    <2>2. \A v \in Workers : v = proc => /\ leader'[v] \in Early => leader[v] \in Early
                                         /\ Busy(v)' => Busy(v)
      <3>1. CASE ExitClean(w) \/ Reap(w) BY <3>1 DEF ExitClean, Reap, Busy, Early
      <3>2. CASE SpawnChild(w) \/ ChildExits(w) BY <3>2 DEF SpawnChild, ChildExits, Busy, Early
      <3>3. CASE ParentLost(w) BY <3>3 DEF ParentLost, Kill, Busy, Early
      <3> QED BY <1>4, <3>1, <3>2, <3>3
    <2> QED BY <2>1, <2>2, <1>u, StreamSame
  <1> QED BY <1>1, <1>2, <1>3, <1>4 DEF ProcessStep

(* Steps that record no result and end no target.                          *)
LEMMA PastSame ==
  ASSUME PastInv, UNCHANGED <<kind, want, item, active, idx, acc>>,
         pc' # "idle" => pc # "idle",
         active \in Jobs /\ status'[active] = "succeeded" => status[active] = "succeeded",
         active = NoJob \/ active \in Jobs
  PROVE  PastInv'
  BY DEF PastInv, SucceededIsComplete

LEMMA ReadResults ==
  ASSUME Base, ProcInv, ResultInv, ReadEvent
  PROVE  ResultInv'
  <1> USE BaseTypes, AttendedWorker
  <1>1. pc \in Reading /\ pc' \in Reading /\ pc # "idle" /\ UNCHANGED <<kind, want, active, idx, acc, pc, status>>
    BY DEF ReadEvent, Reading, taskVars, dbVars
  <1>2. ~rd.proto /\ pipe # <<>> BY DEF ReadEvent
  <1>3. QuietInv' BY <1>1 DEF QuietInv
  <1>4. ProtoInv' BY DEF ReadEvent, ProtoInv
  <1>5. StreamInv' BY <1>1, <1>2, ReadKeeps DEF ResultInv, StreamInv
  <1>6. PastInv'
    <2>1. status'[active] # "succeeded" BY <1>1 DEF Active
    <2>2. ASSUME kind = "refresh", NEW i \in Items, i < idx PROVE item'[i] = item[i]
      <3>1. Stream BY <1>1, <1>2, <2>2 DEF ResultInv, StreamInv
      <3>2. /\ pipe \in Seq(Events) /\ item \in [Items -> {"none", "succeeded", "failed"}]
        BY DEF Base, TypeInv, TypeOK, OutType, RowType
      <3>3. Head(pipe) = pipe[1] /\ 1 \in 1..Len(pipe) BY <1>2, <3>2, TailAt
      <3>4. Head(pipe).type = "item" => Head(pipe).item = idx BY <3>1, <3>3 DEF Stream, OwnItems
      <3>5. UNCHANGED item \/ (Head(pipe).type = "item" /\ \E v : item' = [item EXCEPT ![Head(pipe).item] = v])
        BY DEF ReadEvent
      <3>6. i # idx BY <2>2 DEF Items
      <3> QED BY <3>2, <3>4, <3>5, <3>6
    <2> QED BY <1>1, <2>1, <2>2 DEF ResultInv, PastInv, SucceededIsComplete
  <1> QED BY <1>3, <1>4, <1>5, <1>6 DEF ResultInv

(* A target that met no failure has its good result.                       *)
LEMMA TargetGood ==
  ASSUME Base, ProcInv, ResultInv, WorkerDone, kind = "refresh",
         WorkerOutcome.status = "succeeded"
  PROVE  item[idx] = "succeeded"
  <1>1. ~rd.proto /\ rd.result = "ok" BY DEF WorkerOutcome, Out
  <1>2. pc \in Reading BY DEF WorkerDone, Reading
  <1>3. Stream BY <1>1, <1>2 DEF ResultInv, StreamInv
  <1> QED BY <1>1, <1>3 DEF Stream, ResultRead, RowsRecorded

LEMMA EndResults ==
  ASSUME Base, ProcInv, ResultInv, WorkerDone \/ AbortDone \/ SpawnFails \/ SendFails
  PROVE  ResultInv'
  <1> USE BaseTypes, AttendedWorker
  <1>1. PICK out \in Outs :
          /\ EndWorker(out)
          /\ kind = "refresh" /\ out.status = "succeeded" => item[idx] = "succeeded"
    <2>1. CASE WorkerDone
      <3>1. WorkerOutcome \in Outs BY OutcomeType DEF Base, TypeInv
      <3> QED BY <2>1, <3>1, TargetGood DEF WorkerDone
    <2>2. CASE AbortDone
      BY <2>2, OutcomeType DEF AbortDone, Out, Base, TypeInv
    <2>3. CASE SpawnFails \/ SendFails
      <3> DEFINE o == Out("failed", "WORKER_FAILED", "none", FALSE)
      <3>1. o \in Outs /\ o.status = "failed" BY OutcomeType DEF Out, Base, TypeInv
      <3>2. EndWorker(o) BY <2>3 DEF SpawnFails, SendFails
      <3> HIDE DEF o
      <3> QED BY <3>1, <3>2
    <2> QED BY <2>1, <2>2, <2>3
  <1>2. pipe' = <<>>
    <2>1. pipe = <<>>
      BY DEF WorkerDone, Drained, AbortDone, SpawnFails, SendFails, ResultInv, QuietInv, Reading
    <2> QED BY <1>1, <2>1 DEF EndWorker, outVars
  <1>3. pc # "idle" /\ active \in Jobs
    BY DEF WorkerDone, AbortDone, SpawnFails, SendFails
  <1>4. /\ proc' = NoWorker /\ rd' = FreshReader
        /\ UNCHANGED <<kind, want, item, active>> /\ pc' \notin Reading
    BY <1>1 DEF EndWorker, FinishJob, Reading
  <1>5. QuietInv' /\ ProtoInv' /\ StreamInv'
    BY <1>2, <1>4 DEF QuietInv, ProtoInv, StreamInv
  <1>6. PastInv'
    <2> SUFFICES ASSUME kind = "refresh" PROVE PastInv'
      BY <1>4 DEF PastInv, SucceededIsComplete
    <2> DEFINE a == Accumulate(out)
    <2>1. ~a.failed => ~acc.failed /\ out.status # "failed" BY DEF Accumulate
    <2>2. idx \in Items /\ want \in Items /\ idx <= want /\ out.status \in {"succeeded", "failed", "cancelled"}
      BY DEF Base, TypeInv, TypeOK, RowType, Outs
    <2>3. ~acc.failed => \A i \in Items : i < idx => item[i] = "succeeded"
      BY <1>3 DEF ResultInv, PastInv
    <2>4. ASSUME out.status # "cancelled", ~a.failed, NEW i \in Items, i <= idx
          PROVE  item[i] = "succeeded"
      <3>1. out.status = "succeeded" BY <2>1, <2>2, <2>4
      <3>2. CASE i = idx BY <1>1, <3>1, <3>2
      <3>3. CASE i < idx BY <2>1, <2>3, <2>4, <3>3
      <3> QED BY <2>2, <2>4, <3>2, <3>3 DEF Items
    <2> HIDE DEF a
    <2>5. CASE /\ out.status = "cancelled" \/ LastTarget
               /\ FinishJob(active, RefreshStatus(out, a), a.error)
      <3>1. status'[active] = "succeeded" => RefreshStatus(out, a) = "succeeded"
        BY <1>3, <2>5 DEF FinishJob
      <3>2. pc' = "idle" BY <2>5 DEF FinishJob
      <3>3. ASSUME RefreshStatus(out, a) = "succeeded", NEW i \in 1..want PROVE item[i] = "succeeded"
        <4>1. out.status # "cancelled" /\ ~a.failed BY <3>3 DEF RefreshStatus
        <4>2. idx = want BY <2>5, <4>1 DEF LastTarget
        <4>3. i \in Items /\ i <= idx BY <2>2, <4>2, BoundsAssumption DEF Items
        <4> QED BY <2>4, <4>1, <4>3
      <3> QED BY <1>4, <3>1, <3>2, <3>3 DEF PastInv, SucceededIsComplete
    <2>6. CASE /\ out.status # "cancelled"
               /\ status' = [status EXCEPT ![active] = "running"] /\ idx' = idx + 1 /\ acc' = a
      <3>1. status'[active] # "succeeded" BY <1>3, <2>6
      <3>2. ASSUME ~a.failed, NEW i \in Items, i < idx + 1 PROVE item[i] = "succeeded"
        <4>1. i <= idx BY <2>2, <3>2 DEF Items
        <4> QED BY <2>4, <2>6, <3>2, <4>1
      <3> QED BY <1>4, <2>6, <3>1, <3>2 DEF PastInv, SucceededIsComplete
    <2>7. \/ /\ out.status = "cancelled" \/ LastTarget
             /\ FinishJob(active, RefreshStatus(out, a), a.error)
          \/ /\ out.status # "cancelled"
             /\ status' = [status EXCEPT ![active] = "running"] /\ idx' = idx + 1 /\ acc' = a
      <3>1. kind # "single" OBVIOUS
      <3> QED BY <1>1, <3>1, Zenon DEF EndWorker, a
    <2> QED BY <2>5, <2>6, <2>7
  <1> QED BY <1>5, <1>6 DEF ResultInv

(* A call to _terminate was given a process.                               *)
AimInv == \A c \in Callers : call[c].phase \in {"ask", "kill"} => call[c].aim \in Workers

LEMMA AimStep == ASSUME Base, ProcInv, AimInv, [Next]_vars PROVE AimInv'
  <1> USE BaseTypes, AttendedWorker
  <1>1. \/ call' = call
        \/ \E c \in Callers, v \in {NoCall, Gathering} \cup {Terminating(w) : w \in Workers} :
             call' = [call EXCEPT ![c] = v]
        \/ \E c \in Callers : call[c].phase = "ask" /\ call' = [call EXCEPT ![c].phase = "kill"]
        \/ call' = [c \in Callers |-> NoCall]
    <2>1. CASE Request
      BY <2>1, CallerNames DEF Request, Start, Cancel, Shutdown
    <2>2. CASE CallStep \/ Crash
      BY <2>2, CallerNames DEF CallStep, Escalate, TerminateReturns, CancelReturns, ShutdownReturns,
         Crash, MemoryLost
    <2>3. CASE SpawnWorker
      <3>1. <<active, idx>> \in Workers BY <2>3 DEF SpawnWorker, Workers
      <3> QED BY <2>3, <3>1, CallerNames DEF SpawnWorker
    <2>4. CASE Timeout \/ RejectOutput
      <3>1. proc \in Workers BY <2>4 DEF Timeout, RejectOutput, Reading
      <3> QED BY <2>4, <3>1, CallerNames DEF Timeout, RejectOutput, RunnerKills
    <2>5. CASE BeginRun \/ SpawnFails \/ ReadsRequest \/ SendFails \/ ReadEvent \/ WorkerDone
               \/ AbortDone \/ Restart
      BY <2>5, CallerNames DEF BeginRun, SpawnFails, ReadsRequest, SendFails, ReadEvent, WorkerDone,
         AbortDone, Restart
    <2>6. CASE \E w \in Workers : ProcessStep(w)
      <3>1. ServerUnchanged
        BY <2>6 DEF ProcessStep, WriteItem, WriteResult, ExitClean, Fail, SpawnChild, ChildExits,
           Reap, ParentLost
      <3> QED BY <3>1 DEF ServerUnchanged
    <2>7. CASE UNCHANGED vars BY <2>7 DEF vars
    <2> QED BY <2>1, <2>2, <2>3, <2>4, <2>5, <2>6, <2>7 DEF Next, TaskStep
  <1> QED BY <1>1 DEF AimInv, NoCall, Gathering, Terminating

LEMMA ResultStep == ASSUME Base, ProcInv, AimInv, ResultInv, [Next]_vars PROVE ResultInv'
  <1> USE BaseTypes, AttendedWorker
  <1>0. /\ QuietInv /\ ProtoInv /\ StreamInv /\ PastInv
        /\ active = NoJob \/ active \in Jobs
    BY DEF ResultInv
  <1>1. CASE \E j \in Jobs, k \in {"refresh", "single"}, n \in Items : Start(j, k, n)
    <2> PICK j \in Jobs, k \in {"refresh", "single"}, n \in Items : Start(j, k, n) BY <1>1
    <2>1. pc = "idle" BY DEF Start, NothingActive
    <2>2. proc = NoWorker BY <2>1 DEF ProcInv, Attended
    <2>3. pc' \notin Reading /\ UNCHANGED <<pipe, rd, proc>> BY DEF Start, Reading, outVars
    <2>4. status'[active'] = "queued" /\ idx' = 1 BY DEF Start
    <2>5. PastInv' BY <2>4 DEF PastInv, SucceededIsComplete, Items
    <2> QED BY <1>0, <2>1, <2>2, <2>3, <2>5 DEF ResultInv, QuietInv, ProtoInv, StreamInv, Reading
  <1>2. CASE (\E j \in Jobs : Cancel(j)) \/ Shutdown
    <2>1. UNCHANGED <<kind, want, pipe, item, idx, said, proc, rd, pc, acc, active, leader>>
      BY <1>2 DEF Cancel, Shutdown, rowVars, taskVars, outVars
    <2>2. QuietInv' /\ ProtoInv' /\ StreamInv' BY <1>0, <2>1, StreamSame DEF Busy
    <2>3. active \in Jobs /\ status'[active] = "succeeded" => status[active] = "succeeded"
      BY <1>2 DEF Cancel, Shutdown, dbVars
    <2>4. PastInv' BY <1>0, <2>1, <2>3, PastSame
    <2> QED BY <2>2, <2>4 DEF ResultInv
  <1>3. CASE ShutdownReturns \/ Crash
    <2>1. /\ pc' = "idle" /\ pipe' = <<>> /\ rd' = FreshReader /\ proc' = NoWorker /\ active' = NoJob
      BY <1>3 DEF ShutdownReturns, Crash, MemoryLost
    <2> QED BY <2>1 DEF ResultInv, QuietInv, ProtoInv, StreamInv, PastInv, SucceededIsComplete, Reading
  <1>4. CASE Restart
    <2>1. UNCHANGED <<kind, want, pipe, item, idx, said, proc, rd, pc, acc, active>>
      BY <1>4 DEF Restart, rowVars, taskVars, outVars
    <2>2. Kill(Abandoned) BY <1>4 DEF Restart
    <2>3. QuietInv' /\ ProtoInv' /\ StreamInv'
      BY <1>0, <2>1, <2>2, NotWorking, KillCalms, StreamSame
    <2>4. active \in Jobs /\ status'[active] = "succeeded" => status[active] = "succeeded"
      BY <1>4 DEF Restart, Recovered
    <2>5. PastInv' BY <1>0, <2>1, <2>4, PastSame
    <2> QED BY <2>3, <2>5 DEF ResultInv
  <1>5. CASE \E c \in Callers : Escalate(c)
    <2> PICK c \in Callers : Escalate(c) BY <1>5
    <2>1. UNCHANGED <<kind, want, item, idx, said, proc, rd, pc, acc, active, status>>
      BY DEF Escalate, rowVars, taskVars, dbVars
    <2>2. Kill({Target(c)}) BY DEF Escalate
    <2>3. QuietInv' /\ ProtoInv' /\ StreamInv'
      <3>1. CASE UNCHANGED pipe BY <1>0, <2>1, <2>2, <3>1, NotWorking, KillCalms, StreamSame
      <3>2. CASE /\ Target(c) = proc /\ leader[Target(c)] = "working" /\ ~rd.proto
                 /\ pipe' = Append(pipe, Event("garbage", 0, FALSE))
        <4> DEFINE e == Event("garbage", 0, FALSE)
        <4>1. Busy(proc) /\ Write(e) BY <3>2 DEF Busy, Write
        <4>2. proc \in Workers BY <3>2 DEF Escalate, Target, AimInv
        <4>3. ASSUME Stream, pipe' = Append(pipe, e) PROVE Stream'
          <5>1. leader'[proc] \in Early => leader[proc] \in Early BY <3>2 DEF Early
          <5> QED BY <4>3, <5>1, <2>1, NoiseKeeps
        <4> HIDE DEF e
        <4> QED BY <1>0, <4>1, <4>2, <4>3, <2>1, StreamWrite
      <3> QED BY <3>1, <3>2 DEF Escalate
    <2>4. PastInv' BY <1>0, <2>1, PastSame
    <2> QED BY <2>3, <2>4 DEF ResultInv
  <1>6. CASE (\E c \in Callers : TerminateReturns(c)) \/ (\E j \in Jobs : CancelReturns(j))
             \/ Timeout \/ RejectOutput
    <2>1. UNCHANGED <<kind, want, item, idx, said, proc, acc, active, status, pipe, leader>>
      BY <1>6 DEF TerminateReturns, CancelReturns, Timeout, RejectOutput, RunnerKills, rowVars,
         taskVars, dbVars, outVars, osVars
    <2>2. pc' = pc \/ (pc \in Reading /\ pc' \in Reading)
      BY <1>6 DEF TerminateReturns, CancelReturns, Timeout, RejectOutput, RunnerKills, taskVars, Reading
    <2>3. /\ rd'.result = rd.result /\ rd'.rows = rd.rows /\ rd'.itemsOk = rd.itemsOk /\ rd'.proto = rd.proto
          /\ pc \notin Reading => rd' = rd
      <3>1. CASE Timeout
        <4>1. rd' = [rd EXCEPT !.error = "SOURCE_TIMEOUT"] /\ pc \in Reading BY <3>1 DEF Timeout, Reading
        <4>2. rd \in [result : Verdicts, error : Errors, proto : BOOLEAN,
                      rows : BOOLEAN, itemsOk : BOOLEAN]
          BY DEF Base, TypeInv, TypeOK, ReaderType
        <4> QED BY <4>1, <4>2
      <3>2. CASE ~Timeout BY <1>6, <3>2 DEF TerminateReturns, CancelReturns, RejectOutput
      <3> QED BY <3>1, <3>2
    <2>4. QuietInv' /\ ProtoInv' /\ StreamInv' BY <1>0, <2>1, <2>2, <2>3, StreamSame DEF Busy
    <2>5. PastInv' BY <1>0, <2>1, <2>2, PastSame DEF Reading
    <2> QED BY <2>4, <2>5 DEF ResultInv
  <1>7. CASE BeginRun
    <2>1. UNCHANGED <<kind, want, item, idx, said, proc, acc, active, pipe, leader, rd>>
          /\ pc' \notin Reading /\ pc \notin Reading /\ pc # "idle"
      BY <1>7 DEF BeginRun, rowVars, outVars, osVars, Reading
    <2>2. QuietInv' /\ ProtoInv' /\ StreamInv' BY <1>0, <2>1, StreamSame DEF Busy
    <2>3. PastInv' BY <1>0, <1>7, <2>1, PastSame DEF BeginRun
    <2> QED BY <2>2, <2>3 DEF ResultInv
  <1>s. ASSUME pipe' = <<>>, rd' = FreshReader, said' = 0 PROVE Stream'
    BY <1>s DEF Stream, OwnItems, ItemThenResult, ResultIsLast, ResultRead, ItemNotLost, RowsRecorded,
       Sent, FreshReader
  <1>8. CASE SpawnWorker
    <2>1. /\ UNCHANGED <<kind, want, item, idx, acc, active, pipe, rd, status>>
          /\ pc \notin Reading /\ pc # "idle" /\ said' = 0
      BY <1>8 DEF SpawnWorker, rowVars, Reading
    <2>2. pipe = <<>> /\ rd = FreshReader BY <1>0, <2>1 DEF QuietInv
    <2>3. pc' \notin Reading => ~Busy(proc)'
      <3> SUFFICES ASSUME pc' \notin Reading PROVE ~Busy(proc)' OBVIOUS
      <3>1. <<active, idx>> \in Workers BY <2>1 DEF Workers
      <3>2. proc' = <<active, idx>> /\ leader'[<<active, idx>>] = "waiting"
        BY <1>8, <3>1 DEF SpawnWorker, Reading
      <3> QED BY <3>2 DEF Busy
    <2>4. QuietInv' /\ ProtoInv' /\ StreamInv'
      BY <1>s, <2>1, <2>2, <2>3 DEF QuietInv, ProtoInv, StreamInv
    <2>5. PastInv' BY <1>0, <2>1, PastSame
    <2> QED BY <2>4, <2>5 DEF ResultInv
  <1>9. CASE ReadsRequest
    <2>1. /\ UNCHANGED <<kind, want, item, idx, acc, active, pipe, rd, status, said, proc>>
          /\ pc # "idle" /\ (pc = "send" \/ (pc \in Reading /\ pc' \in Reading)) /\ pc' \in Reading
      BY <1>9 DEF ReadsRequest, rowVars, dbVars, Reading
    <2>2. QuietInv' /\ ProtoInv' /\ StreamInv'
      <3>1. CASE pc = "send"
        <4>1. pipe = <<>> /\ rd = FreshReader /\ said = 0
          BY <1>0, <3>1 DEF QuietInv, ProcInv, Attended, Reading
        <4>2. Stream' BY <1>s, <2>1, <4>1
        <4> QED BY <2>1, <4>1, <4>2 DEF QuietInv, ProtoInv, StreamInv
      <3>2. CASE pc \in Reading
        <4>1. \A w \in Workers : w = proc => leader[w] \in Early
          BY <1>9 DEF ReadsRequest, Early
        <4> QED BY <1>0, <2>1, <3>2, <4>1, StreamSame
      <3> QED BY <2>1, <3>1, <3>2
    <2>3. PastInv' BY <1>0, <2>1, PastSame
    <2> QED BY <2>2, <2>3 DEF ResultInv
  <1>10. CASE ReadEvent BY <1>10, ReadResults
  <1>11. CASE WorkerDone \/ AbortDone \/ SpawnFails \/ SendFails BY <1>11, EndResults
  <1>12. CASE \E w \in Workers : ProcessStep(w)
    <2>1. QuietInv' /\ ProtoInv' /\ StreamInv' BY <1>0, <1>12, ProcessResults
    <2>2. ServerUnchanged
      BY <1>12 DEF ProcessStep, WriteItem, WriteResult, ExitClean, Fail, SpawnChild, ChildExits,
         Reap, ParentLost
    <2>3. PastInv' BY <1>0, <2>2, PastSame DEF ServerUnchanged, dbVars, rowVars, taskVars
    <2> QED BY <2>1, <2>3 DEF ResultInv
  <1>13. CASE UNCHANGED vars
    <2>1. UNCHANGED <<kind, want, pipe, item, idx, said, proc, rd, pc, acc, active, leader, status>>
      BY <1>13 DEF vars, dbVars, rowVars, taskVars, outVars, osVars
    <2>2. QuietInv' /\ ProtoInv' /\ StreamInv' BY <1>0, <2>1, StreamSame DEF Busy
    <2>3. PastInv' BY <1>0, <2>1, PastSame
    <2> QED BY <2>2, <2>3 DEF ResultInv
  <1> QED BY <1>1, <1>2, <1>3, <1>4, <1>5, <1>6, <1>7, <1>8, <1>9, <1>10, <1>11, <1>12, <1>13
          DEF Next, Request, CallStep, TaskStep

LEMMA InitResults == Init => AimInv /\ ResultInv
  BY DEF Init, AimInv, NoCall, ResultInv, QuietInv, ProtoInv, StreamInv, PastInv, SucceededIsComplete, Reading

LEMMA ResultInvariance == Spec => [](Base /\ ProcInv /\ ResultInv)
  <1>1. Base /\ ProcInv /\ AimInv /\ ResultInv /\ [Next]_vars => AimInv' /\ ResultInv'
    BY AimStep, ResultStep
  <1>2. Spec => [](Base /\ ProcInv) BY WorkerInvariance, PTL DEF WorkerInv
  <1> QED BY <1>1, <1>2, InitResults, PTL DEF Spec

(* A refresh is recorded as succeeded only when every target it named has  *)
(* a good recorded result, however many targets, whatever its workers      *)
(* wrote and wherever they died.                                           *)
THEOREM SucceededComplete == Spec => []SucceededIsComplete
  <1>1. ResultInv => SucceededIsComplete BY DEF ResultInv, PastInv
  <1> QED BY <1>1, ResultInvariance, PTL

(* An item gets its result only from an event read while its own job is    *)
(* unfinished and, in a refresh, while its own target is the one at hand.  *)
THEOREM ResultsInTime == Spec => NoLateResults
  <1>1. Base /\ ProcInv /\ ResultInv /\ [Next]_vars =>
          [\A i \in Items :
             item[i] = "none" /\ item'[i] # "none" =>
               status[active] \in Active /\ (kind = "refresh" => i = idx)]_vars
    <2> SUFFICES ASSUME Base, ProcInv, ResultInv, [Next]_vars,
                        NEW i \in Items, item[i] = "none", item'[i] # "none"
                 PROVE  status[active] \in Active /\ (kind = "refresh" => i = idx)
      OBVIOUS
    <2> USE BaseTypes, AttendedWorker
    <2>1. CASE ReadEvent
      <3>1. pc \in Reading /\ pc # "idle" /\ ~rd.proto /\ pipe # <<>>
        BY <2>1 DEF ReadEvent, Reading
      <3>2. pipe \in Seq(Events) /\ item \in [Items -> {"none", "succeeded", "failed"}]
        BY DEF Base, TypeInv, TypeOK, OutType, RowType
      <3>3. Head(pipe) = pipe[1] /\ 1 \in 1..Len(pipe) BY <3>1, <3>2, TailAt
      <3>4. Head(pipe).type = "item" /\ \E v : item' = [item EXCEPT ![Head(pipe).item] = v]
        BY <2>1 DEF ReadEvent
      <3>5. i = Head(pipe).item BY <3>2, <3>4
      <3>6. kind = "refresh" => Head(pipe).item = idx
        BY <3>1, <3>3, <3>4 DEF ResultInv, StreamInv, Stream, OwnItems
      <3> QED BY <3>1, <3>5, <3>6
    <2>2. CASE ~ReadEvent
      <3>1. item' = item \/ item' = [k \in Items |-> "none"]
        <4>1. CASE Request \/ CallStep \/ Timeout \/ ReadsRequest \/ Crash \/ Restart
          BY <4>1 DEF ReadsRequest, Request, Start, Cancel, Shutdown, CallStep, Escalate, TerminateReturns,
             CancelReturns, ShutdownReturns, MemoryLost, Timeout, RunnerKills, Crash, Restart, rowVars
        <4>2. CASE TaskStep
          BY <2>2, <4>2 DEF TaskStep, BeginRun, SpawnWorker, SpawnFails, SendFails,
             RejectOutput, RunnerKills, WorkerDone, AbortDone, EndWorker, rowVars
        <4>3. CASE \E w \in Workers : ProcessStep(w)
          BY <4>3 DEF ProcessStep, WriteItem, WriteResult, ExitClean, Fail, SpawnChild, ChildExits,
             Reap, ParentLost, ServerUnchanged, rowVars
        <4>4. CASE UNCHANGED vars BY <4>4 DEF vars, rowVars
        <4> QED BY <4>1, <4>2, <4>3, <4>4 DEF Next
      <3> QED BY <3>1
    <2> QED BY <2>1, <2>2
  <1> QED BY <1>1, ResultInvariance, PTL DEF Spec, NoLateResults

-----------------------------------------------------------------------------
(***************************************************************************)
(* What the coordinator waits for.  A worker is created once, in the order *)
(* of its targets, and a group that was killed stays dead: nobody of it is *)
(* left to start a process or to write.                                    *)
(***************************************************************************)
SpawnedInv ==
  /\ \A w \in Workers : leader[w] # "none" =>
       /\ status[w[1]] # "absent"
       /\ pc # "idle" /\ w[1] = active =>
            w[2] <= idx /\ (pc \in {"created", "spawn"} => w[2] < idx)
  /\ proc # NoWorker => leader[proc] # "none"
  /\ \A c \in Callers : call[c].phase \in {"ask", "kill"} => leader[call[c].aim] # "none"

Dead(w) == leader[w] \notin Alive /\ kids[w] = "none"

DeadInv ==
  /\ \A c \in Callers : call[c].phase = "kill" => Dead(call[c].aim)
  /\ pc \in {"abort", "kill"} => call[Runner].phase \in {"ask", "kill"}
  /\ pc = "drain" => leader[proc] = "reaped" /\ kids[proc] = "none"

(* A job cancelled while drain() waits has been asked to stop.             *)
SendInv == AwaitsReading /\ cancelled =>
             \E c \in Callers : call[c].phase = "ask" /\ call[c].aim = proc

GoesInv == SpawnedInv /\ DeadInv /\ SendInv

(* Callers change phase one at a time, but for the loss of all of them.    *)
LEMMA CallsMove ==
  ASSUME Base, ProcInv, [Next]_vars
  PROVE  \/ call' = call
         \/ \E c \in Callers : /\ call' = [call EXCEPT ![c] = NoCall]
                               /\ c = Runner => pc' \notin {"abort", "kill"}
         \/ \E c \in Callers \ {Runner} : call' = [call EXCEPT ![c] = Gathering]
         \/ \E c \in Callers \ {Runner} :
              proc \in Workers /\ proc' = proc /\ call' = [call EXCEPT ![c] = Terminating(proc)]
         \/ /\ proc' \in Workers /\ call' = [call EXCEPT ![Runner] = Terminating(proc')]
            /\ SpawnWorker \/ (pc = "wait" /\ RunnerKills)
         \/ \E c \in Callers : Escalate(c)
         \/ MemoryLost
  <1> USE BaseTypes, AttendedWorker, CallerNames
  <1>1. CASE Request
    <2>1. CASE \E j \in Jobs : Cancel(j)
      <3> PICK j \in Jobs : Cancel(j) BY <2>1
      <3>1. proc' = proc BY DEF Cancel, taskVars
      <3>2. j \in Callers \ {Runner} OBVIOUS
      <3> QED BY <3>1, <3>2 DEF Cancel
    <2>2. CASE Shutdown
      <3>1. proc' = proc BY <2>2 DEF Shutdown, taskVars
      <3>2. ServerStop \in Callers \ {Runner} OBVIOUS
      <3> QED BY <2>2, <3>1, <3>2 DEF Shutdown
    <2>3. CASE \E j \in Jobs, k \in {"refresh", "single"}, n \in Items : Start(j, k, n)
      BY <2>3 DEF Start
    <2> QED BY <1>1, <2>1, <2>2, <2>3 DEF Request
  <1>2. CASE \E c \in Callers : Escalate(c) BY <1>2
  <1>3. CASE \E c \in Callers : TerminateReturns(c)
    BY <1>3 DEF TerminateReturns
  <1>4. CASE \E j \in Jobs : CancelReturns(j) BY <1>4 DEF CancelReturns
  <1>5. CASE ShutdownReturns \/ Crash BY <1>5 DEF ShutdownReturns, Crash
  <1>6. CASE SpawnWorker
    <2>1. <<active, idx>> \in Workers BY <1>6 DEF SpawnWorker, Workers
    <2>2. proc' = <<active, idx>> BY <1>6 DEF SpawnWorker
    <2> QED BY <1>6, <2>1, <2>2 DEF SpawnWorker
  <1>7. CASE Timeout \/ RejectOutput
    <2>1. proc \in Workers BY <1>7 DEF Timeout, RejectOutput, Reading
    <2>2. RunnerKills /\ pc = "wait" BY <1>7 DEF Timeout, RejectOutput
    <2>3. proc' = proc /\ call' = [call EXCEPT ![Runner] = Terminating(proc)]
      BY <2>2 DEF RunnerKills
    <2> QED BY <2>1, <2>2, <2>3
  <1>8. CASE AbortDone
    <2>1. pc' \in {"idle", "spawn"} BY <1>8 DEF AbortDone, EndWorker, FinishJob
    <2> QED BY <1>8, <2>1 DEF AbortDone
  <1>9. CASE BeginRun \/ SpawnFails \/ ReadsRequest \/ SendFails \/ ReadEvent \/ WorkerDone \/ Restart
    <2>1. CASE BeginRun \/ ReadsRequest BY <2>1 DEF BeginRun, ReadsRequest
    <2>2. CASE SpawnFails \/ SendFails \/ WorkerDone BY <2>2 DEF SpawnFails, SendFails, WorkerDone
    <2>3. CASE ReadEvent BY <2>3, Zenon DEF ReadEvent
    <2>4. CASE Restart BY <2>4 DEF Restart
    <2> QED BY <1>9, <2>1, <2>2, <2>3, <2>4
  <1>10. CASE \E w \in Workers : ProcessStep(w)
    <2>1. ServerUnchanged
      BY <1>10 DEF ProcessStep, WriteItem, WriteResult, ExitClean, Fail, SpawnChild, ChildExits,
         Reap, ParentLost
    <2> QED BY <2>1 DEF ServerUnchanged
  <1>11. CASE UNCHANGED vars BY <1>11 DEF vars
  <1> QED BY <1>1, <1>2, <1>3, <1>4, <1>5, <1>6, <1>7, <1>8, <1>9, <1>10, <1>11
          DEF Next, CallStep, TaskStep

(* The processes: one is created at the place _run is at, the others only  *)
(* move towards their end.                                                 *)
LEMMA LeadersMove ==
  ASSUME Base, ProcInv, [Next]_vars
  PROVE  /\ \A w \in Workers : leader[w] # "none" => leader'[w] # "none"
         /\ \A w \in Workers : leader[w] = "none" /\ leader'[w] # "none" =>
              w = <<active, idx>> /\ (SpawnWorker \/ (pc = "spawn" /\ MemoryLost /\ UNCHANGED dbVars))
         /\ \A w \in Workers : Dead(w) /\ leader[w] # "none" /\ w # <<active, idx>> => Dead(w)'
         /\ \A w \in Workers : Dead(w) /\ leader[w] # "none" /\ pc # "spawn" => Dead(w)'
         /\ \A w \in Workers : Dead(w) /\ leader[w] = "reaped" /\ pc # "spawn" => leader'[w] = "reaped"
         /\ \A w \in Workers : leader'[w] = "waiting" /\ pc # "spawn" => leader[w] = "waiting"
  <1> USE BaseTypes, AttendedWorker
  <1>0. kids \in [Workers -> {"none", "holding", "detached"}] BY DEF Base, TypeInv, TypeOK, OsType
  <1>1. ASSUME NEW ws, Kill(ws)
        PROVE  /\ \A w \in Workers : leader[w] # "none" <=> leader'[w] # "none"
               /\ \A w \in Workers : Dead(w) => Dead(w)' /\ leader'[w] = leader[w]
               /\ \A w \in Workers : leader'[w] = "waiting" => leader[w] = "waiting"
    BY <1>0, <1>1 DEF Kill, Dead, Alive
  <1>2. CASE SpawnWorker \/ (Crash /\ pc = "spawn")
    <2>1. pc = "spawn" BY <1>2 DEF SpawnWorker
    <2>2. \A w \in Workers : w # <<active, idx>> => leader'[w] = leader[w]
      BY <1>2 DEF SpawnWorker, Crash
    <2>3. \/ leader' = leader
          \/ \E v \in Early : leader' = [leader EXCEPT ![<<active, idx>>] = v]
      BY <1>2 DEF SpawnWorker, Crash, Early
    <2>4. kids' = kids BY <1>2 DEF SpawnWorker, Crash
    <2>5. SpawnWorker \/ (pc = "spawn" /\ MemoryLost /\ UNCHANGED dbVars) BY <1>2 DEF Crash
    <2> QED BY <2>1, <2>2, <2>3, <2>4, <2>5 DEF Dead, Early
  <1>3. CASE ReadsRequest
    <2>1. proc \in Workers BY <1>3 DEF ReadsRequest, ProcInv, Attended
    <2> QED BY <1>3, <2>1 DEF ReadsRequest, Dead, Alive
  <1>4. CASE Restart \/ (\E c \in Callers : Escalate(c)) \/ (\E w \in Workers : ParentLost(w) /\ leader[w] # "waiting")
    <2>1. PICK ws : Kill(ws) BY <1>4 DEF Restart, Escalate, ParentLost
    <2> QED BY <1>1, <2>1
  <1>5. CASE \E w \in Workers : ProcessStep(w) /\ ~(ParentLost(w) /\ leader[w] # "waiting")
    <2> PICK w \in Workers : ProcessStep(w) /\ ~(ParentLost(w) /\ leader[w] # "waiting") BY <1>5
    <2>1. \/ UNCHANGED <<leader, kids>>
          \/ leader[w] \in Alive \cup {"exited"} /\ kids' = kids /\
               \E v \in {"finished", "exited", "reaped"} :
                 leader' = [leader EXCEPT ![w] = v] /\ (v = "finished" => leader[w] \in Alive)
          \/ leader[w] = "working" /\ leader' = leader /\ \E k : kids' = [kids EXCEPT ![w] = k]
          \/ leader' = leader /\ kids' = [kids EXCEPT ![w] = "none"]
      BY DEF ProcessStep, WriteItem, WriteResult, ExitClean, Fail, SpawnChild, ChildExits, Reap,
         ParentLost, outVars, osVars, Alive
    <2> QED BY <1>0, <2>1 DEF Dead, Alive
  <1>6. CASE UNCHANGED osVars BY <1>6 DEF osVars, Dead
  <1>7. CASE Crash /\ pc # "spawn" BY <1>6, <1>7 DEF Crash, osVars
  <1>8. CASE Request \/ (\E c \in Callers : TerminateReturns(c)) \/ (\E j \in Jobs : CancelReturns(j))
             \/ ShutdownReturns \/ BeginRun \/ SpawnFails \/ SendFails \/ ReadEvent \/ RejectOutput
             \/ WorkerDone \/ AbortDone \/ Timeout \/ UNCHANGED vars
    <2>1. CASE Request BY <1>6, <2>1 DEF Request, Start, Cancel, Shutdown, osVars
    <2>2. CASE (\E c \in Callers : TerminateReturns(c)) \/ (\E j \in Jobs : CancelReturns(j))
               \/ ShutdownReturns
      BY <1>6, <2>2 DEF TerminateReturns, CancelReturns, ShutdownReturns
    <2>3. CASE BeginRun \/ RejectOutput \/ Timeout \/ UNCHANGED vars
      BY <1>6, <2>3 DEF BeginRun, RejectOutput, Timeout, RunnerKills, vars, osVars
    <2>4. CASE SpawnFails \/ SendFails \/ WorkerDone \/ AbortDone
      BY <1>6, <2>4 DEF SpawnFails, SendFails, WorkerDone, AbortDone, EndWorker
    <2>5. CASE ReadEvent
      <3>1. UNCHANGED osVars BY <2>5, Zenon DEF ReadEvent
      <3> QED BY <1>6, <3>1
    <2> QED BY <1>8, <2>1, <2>2, <2>3, <2>4, <2>5
  <1> QED BY <1>2, <1>3, <1>4, <1>5, <1>7, <1>8 DEF Next, CallStep, TaskStep

(* Where _run goes: with the same target on to a later stage, or on to the *)
(* next target.                                                            *)
LEMMA RunMoves ==
  ASSUME Base, ProcInv, [Next]_vars
  PROVE  \/ pc' = pc /\ UNCHANGED <<active, idx, proc>>
         \/ pc' = "idle" /\ proc' = NoWorker
         \/ \E j \in Jobs, k \in {"refresh", "single"}, n \in Items : Start(j, k, n)
         \/ pc = "created" /\ pc' = "spawn" /\ UNCHANGED <<active, idx, proc>>
         \/ pc = "spawn" /\ SpawnWorker
         \/ pc = "send" /\ pc' = "wait" /\ UNCHANGED <<active, idx, proc>>
         \/ pc = "wait" /\ pc' = "kill" /\ RunnerKills
         \/ pc = "kill" /\ pc' = "drain" /\ TerminateReturns(Runner)
         \/ pc # "idle" /\ pc' = "spawn" /\ active' = active /\ idx' = idx + 1 /\ proc' = NoWorker
  <1>1. CASE Request
    <2>1. CASE (\E j \in Jobs : Cancel(j)) \/ Shutdown BY <2>1 DEF Cancel, Shutdown, taskVars
    <2> QED BY <1>1, <2>1 DEF Request
  <1>2. CASE CallStep
    <2>1. CASE \E c \in Callers : TerminateReturns(c)
      BY <2>1 DEF TerminateReturns
    <2>2. CASE (\E c \in Callers : Escalate(c)) \/ (\E j \in Jobs : CancelReturns(j))
      BY <2>2 DEF Escalate, CancelReturns, taskVars
    <2>3. CASE ShutdownReturns BY <2>3 DEF ShutdownReturns, MemoryLost
    <2> QED BY <1>2, <2>1, <2>2, <2>3 DEF CallStep
  <1>3. CASE BeginRun \/ SpawnWorker \/ ReadsRequest
    BY <1>3 DEF BeginRun, SpawnWorker, ReadsRequest
  <1>4. CASE ReadEvent BY <1>4, Zenon DEF ReadEvent, taskVars
  <1>5. CASE Timeout \/ RejectOutput BY <1>5 DEF Timeout, RejectOutput, RunnerKills
  <1>6. CASE WorkerDone \/ AbortDone \/ SpawnFails \/ SendFails
    <2>1. pc # "idle" BY <1>6 DEF WorkerDone, AbortDone, SpawnFails, SendFails
    <2> QED BY <1>6, <2>1 DEF WorkerDone, AbortDone, SpawnFails, SendFails, EndWorker, FinishJob
  <1>7. CASE Crash \/ Restart BY <1>7 DEF Crash, MemoryLost, Restart, taskVars
  <1>8. CASE \E w \in Workers : ProcessStep(w)
    <2>1. ServerUnchanged
      BY <1>8 DEF ProcessStep, WriteItem, WriteResult, ExitClean, Fail, SpawnChild, ChildExits,
         Reap, ParentLost
    <2> QED BY <2>1 DEF ServerUnchanged, taskVars
  <1>9. CASE UNCHANGED vars BY <1>9 DEF vars, taskVars
  <1> QED BY <1>1, <1>2, <1>3, <1>4, <1>5, <1>6, <1>7, <1>8, <1>9 DEF Next, TaskStep

LEMMA ProcMoves ==
  ASSUME Base, ProcInv, [Next]_vars
  PROVE  SpawnWorker \/ proc' = proc \/ proc' = NoWorker
  <1>1. CASE RunnerKills \/ TerminateReturns(Runner)
    BY <1>1 DEF RunnerKills, TerminateReturns
  <1>2. CASE \E j \in Jobs, k \in {"refresh", "single"}, n \in Items : Start(j, k, n)
    BY <1>2 DEF Start
  <1> QED BY <1>1, <1>2, RunMoves

(* A row that is there leaves a trace for good.                            *)
LEMMA NeverAbsent ==
  ASSUME Base, ProcInv, [Next]_vars, NEW j \in Jobs, status[j] # "absent"
  PROVE  status'[j] # "absent"
  <1> USE BaseTypes
  <1>1. CASE \E i \in Jobs, k \in {"refresh", "single"}, n \in Items : Start(i, k, n)
    BY <1>1 DEF Start
  <1>2. CASE \E i \in Jobs : \E s \in Active : status' = [status EXCEPT ![i] = s]
    BY <1>2 DEF Active
  <1>3. CASE \E s \in {"succeeded", "failed", "cancelled"}, e \in Errors : FinishJob(active, s, e)
    BY <1>3 DEF FinishJob
  <1>4. CASE Restart BY <1>4 DEF Restart, Recovered
  <1>5. CASE status' = status BY <1>5
  <1> QED BY <1>1, <1>2, <1>3, <1>4, <1>5, StatusMoves DEF dbVars

LEMMA AimMoves ==
  ASSUME Base, ProcInv, [Next]_vars, NEW c \in Callers, call'[c].phase \in {"ask", "kill"}
  PROVE  \/ call[c].phase \in {"ask", "kill"} /\ call'[c].aim = call[c].aim
         \/ proc' \in Workers /\ call'[c].aim = proc'
  <1> USE BaseTypes, CallerNames
  <1>1. CASE \E d \in Callers : Escalate(d) BY <1>1 DEF Escalate
  <1>2. CASE MemoryLost BY <1>2 DEF MemoryLost, NoCall
  <1> QED BY <1>1, <1>2, CallsMove DEF NoCall, Gathering, Terminating

LEMMA StaysKilled ==
  ASSUME Base, ProcInv, [Next]_vars, NEW c \in Callers, call'[c].phase = "kill", ~Escalate(c)
  PROVE  call[c].phase = "kill" /\ call'[c].aim = call[c].aim
  <1> USE BaseTypes, CallerNames
  <1>1. CASE \E d \in Callers : Escalate(d) BY <1>1 DEF Escalate
  <1>2. CASE MemoryLost BY <1>2 DEF MemoryLost, NoCall
  <1> QED BY <1>1, <1>2, CallsMove DEF NoCall, Gathering, Terminating

LEMMA RunnerStays ==
  ASSUME Base, ProcInv, [Next]_vars, pc' = pc, pc' \in {"abort", "kill"},
         call[Runner].phase \in {"ask", "kill"}
  PROVE  /\ call'[Runner].phase \in {"ask", "kill"}
         /\ call[Runner].phase = "kill" => call'[Runner].phase = "kill"
  <1> USE BaseTypes, CallerNames
  <1>1. CASE \E d \in Callers : Escalate(d) BY <1>1 DEF Escalate
  <1>2. CASE MemoryLost BY <1>2 DEF MemoryLost
  <1> QED BY <1>1, <1>2, CallsMove DEF NoCall, Gathering, Terminating, SpawnWorker, RunnerKills

LEMMA SpawnedStep == ASSUME Base, ProcInv, AimInv, SpawnedInv, [Next]_vars PROVE SpawnedInv'
  <1> USE BaseTypes, AttendedWorker, CallerNames
  <1>1. \A w \in Workers : leader'[w] # "none" =>
          /\ status'[w[1]] # "absent"
          /\ pc' # "idle" /\ w[1] = active' =>
               w[2] <= idx' /\ (pc' \in {"created", "spawn"} => w[2] < idx')
    <2> SUFFICES ASSUME NEW w \in Workers, leader'[w] # "none"
                 PROVE  /\ status'[w[1]] # "absent"
                        /\ pc' # "idle" /\ w[1] = active' =>
                             w[2] <= idx' /\ (pc' \in {"created", "spawn"} => w[2] < idx')
      OBVIOUS
    <2>0. w[1] \in Jobs /\ w[2] \in Nat /\ idx \in Nat BY DEF Workers, Items
    <2>1. CASE leader[w] = "none"
      <3>1. w = <<active, idx>> /\ (SpawnWorker \/ (pc = "spawn" /\ MemoryLost /\ UNCHANGED dbVars))
        BY <2>1, LeadersMove
      <3>2. pc = "spawn" /\ status[active] # "absent" BY <3>1 DEF SpawnWorker, Active
      <3>3. CASE SpawnWorker
        <4>1. status' = status /\ idx' = idx /\ pc' \notin {"created", "spawn"} BY <3>3 DEF SpawnWorker
        <4> QED BY <2>0, <3>1, <3>2, <4>1
      <3>4. CASE MemoryLost /\ UNCHANGED dbVars BY <3>1, <3>2, <3>4 DEF MemoryLost, dbVars
      <3> QED BY <3>1, <3>3, <3>4
    <2>2. CASE leader[w] # "none"
      <3>1. /\ status[w[1]] # "absent"
            /\ pc # "idle" /\ w[1] = active => w[2] <= idx /\ (pc \in {"created", "spawn"} => w[2] < idx)
        BY <2>2 DEF SpawnedInv
      <3>2. status'[w[1]] # "absent" BY <2>0, <3>1, NeverAbsent
      <3>3. CASE \E j \in Jobs, k \in {"refresh", "single"}, n \in Items : Start(j, k, n)
        <4> PICK j \in Jobs, k \in {"refresh", "single"}, n \in Items : Start(j, k, n) BY <3>3
        <4>1. status[j] = "absent" /\ active' = j BY DEF Start
        <4> QED BY <3>1, <3>2, <4>1
      <3>4. CASE SpawnWorker
        <4>1. pc = "spawn" /\ UNCHANGED <<active, idx>> BY <3>4 DEF SpawnWorker
        <4> QED BY <2>0, <3>1, <3>2, <4>1
      <3>5. CASE (pc = "wait" /\ RunnerKills) \/ (pc = "kill" /\ TerminateReturns(Runner))
        <4>1. UNCHANGED <<active, idx>> /\ pc' \in {"kill", "drain", pc}
          BY <3>5 DEF RunnerKills, TerminateReturns
        <4> QED BY <2>0, <3>1, <3>2, <3>5, <4>1
      <3> QED BY <2>0, <3>1, <3>2, <3>3, <3>4, <3>5, RunMoves
    <2> QED BY <2>1, <2>2
  <1>2. proc' # NoWorker => leader'[proc'] # "none"
    <2>1. CASE SpawnWorker
      <3>1. <<active, idx>> \in Workers BY <2>1 DEF SpawnWorker, Workers
      <3> QED BY <2>1, <3>1 DEF SpawnWorker
    <2>2. CASE proc' = proc BY <2>2, LeadersMove DEF SpawnedInv
    <2>3. CASE proc' = NoWorker BY <2>3
    <2> QED BY <2>1, <2>2, <2>3, ProcMoves
  <1>3. \A c \in Callers : call'[c].phase \in {"ask", "kill"} => leader'[call'[c].aim] # "none"
    <2> SUFFICES ASSUME NEW c \in Callers, call'[c].phase \in {"ask", "kill"}
                 PROVE  leader'[call'[c].aim] # "none"
      OBVIOUS
    <2>1. \/ call[c].phase \in {"ask", "kill"} /\ call'[c].aim = call[c].aim
          \/ proc' \in Workers /\ call'[c].aim = proc'
      BY AimMoves
    <2>2. CASE call[c].phase \in {"ask", "kill"} /\ call'[c].aim = call[c].aim
      BY <2>2, LeadersMove DEF SpawnedInv, AimInv
    <2> QED BY <1>2, <2>1, <2>2, NamesAssumption
  <1> QED BY <1>1, <1>2, <1>3 DEF SpawnedInv

LEMMA DeadStep ==
  ASSUME Base, ProcInv, CallInv, AimInv, SpawnedInv, DeadInv, [Next]_vars
  PROVE  DeadInv'
  <1> USE BaseTypes, AttendedWorker, CallerNames
  <1>1. \A c \in Callers : call'[c].phase = "kill" =>
          leader'[call'[c].aim] \notin Alive /\ kids'[call'[c].aim] = "none"
    <2> SUFFICES ASSUME NEW c \in Callers, call'[c].phase = "kill"
                 PROVE  leader'[call'[c].aim] \notin Alive /\ kids'[call'[c].aim] = "none"
      OBVIOUS
    <2>1. CASE Escalate(c)
      <3>1. call[c].aim \in Workers /\ call'[c].aim = call[c].aim /\ Kill({call[c].aim})
        BY <2>1 DEF Escalate, Target, AimInv
      <3> QED BY <3>1 DEF Kill, Alive
    <2>2. CASE ~Escalate(c)
      <3>1. call[c].phase = "kill" /\ call'[c].aim = call[c].aim BY <2>2, StaysKilled
      <3>2. call[c].aim \in Workers /\ Dead(call[c].aim) /\ leader[call[c].aim] # "none"
        BY <3>1 DEF AimInv, DeadInv, SpawnedInv
      <3>3. pc = "spawn" => call[c].aim # <<active, idx>>
        <4>1. ASSUME pc = "spawn" PROVE leader[<<active, idx>>] = "none"
          <5>1. <<active, idx>> \in Workers BY <4>1 DEF Workers
          <5>2. <<active, idx>>[1] = active /\ <<active, idx>>[2] = idx /\ idx \in Nat BY DEF Items
          <5> QED BY <4>1, <5>1, <5>2 DEF SpawnedInv
        <4> QED BY <3>2, <4>1
      <3>4. PICK w \in Workers : w = call[c].aim BY <3>2
      <3>5. Dead(w)' BY <3>2, <3>3, <3>4, LeadersMove
      <3> QED BY <3>1, <3>4, <3>5 DEF Dead
    <2> QED BY <2>1, <2>2
  <1>2. pc' \in {"abort", "kill"} => call'[Runner].phase \in {"ask", "kill"}
    <2> SUFFICES ASSUME pc' \in {"abort", "kill"} PROVE call'[Runner].phase \in {"ask", "kill"}
      OBVIOUS
    <2>1. CASE SpawnWorker BY <2>1 DEF SpawnWorker, Terminating
    <2>2. CASE RunnerKills BY <2>2 DEF RunnerKills, Terminating
    <2>3. CASE pc' = pc
      <3>1. call[Runner].phase \in {"ask", "kill"} BY <2>3 DEF DeadInv
      <3> QED BY <2>3, <3>1, RunnerStays
    <2>4. CASE \E j \in Jobs, k \in {"refresh", "single"}, n \in Items : Start(j, k, n)
      BY <2>4 DEF Start
    <2> QED BY <2>1, <2>2, <2>3, <2>4, RunMoves
  <1>3. pc' = "drain" => leader'[proc'] = "reaped" /\ kids'[proc'] = "none"
    <2> SUFFICES ASSUME pc' = "drain" PROVE leader'[proc'] = "reaped" /\ kids'[proc'] = "none"
      OBVIOUS
    <2>1. CASE pc = "drain" /\ proc' = proc
      <3>1. proc \in Workers /\ leader[proc] = "reaped" /\ kids[proc] = "none"
        BY <2>1 DEF DeadInv, Reading
      <3>2. Dead(proc) BY <3>1 DEF Dead, Alive
      <3>3. Dead(proc)' /\ leader'[proc] = "reaped" BY <2>1, <3>1, <3>2, LeadersMove
      <3> QED BY <2>1, <3>3 DEF Dead
    <2>2. CASE pc = "kill" /\ TerminateReturns(Runner)
      <3>1. proc' = proc /\ UNCHANGED <<leader, kids>> BY <2>2 DEF TerminateReturns, osVars
      <3>2. Target(Runner) = proc /\ ~GroupExists(proc)
        BY <2>2 DEF TerminateReturns, CallInv, Target
      <3>3. proc \in Workers /\ leader[proc] # "none" BY <2>2 DEF Reading, SpawnedInv, ProcInv, Attended
      <3> QED BY <3>1, <3>2, <3>3 DEF GroupExists, Alive
    <2>3. CASE \E j \in Jobs, k \in {"refresh", "single"}, n \in Items : Start(j, k, n)
      BY <2>3 DEF Start
    <2> QED BY <2>1, <2>2, <2>3, RunMoves DEF SpawnWorker
  <1> QED BY <1>1, <1>2, <1>3 DEF DeadInv, Dead

(* A call stops asking when it kills, or when the group it asked is gone.  *)
LEMMA AskStays ==
  ASSUME Base, ProcInv, CallInv, [Next]_vars, pc = "send",
         NEW c \in Callers, call[c].phase = "ask", call[c].aim = proc
  PROVE  \/ call'[c].phase = "ask" /\ call'[c].aim = proc
         \/ Escalate(c) \/ ~GroupExists(call[c].aim) \/ MemoryLost
  <1> USE BaseTypes, CallerNames
  <1>1. CASE Request
    <2>1. CASE \E j \in Jobs : Cancel(j)
      <3>1. PICK j \in Jobs : Cancel(j) BY <2>1
      <3>2. PICK v : call[j].phase = "idle" /\ call' = [call EXCEPT ![j] = v]
        BY <3>1 DEF Cancel
      <3> QED BY <3>2
    <2>2. CASE Shutdown BY <2>2 DEF Shutdown, ProcInv, Attended, Terminating
    <2>3. CASE \E j \in Jobs, k \in {"refresh", "single"}, n \in Items : Start(j, k, n)
      BY <2>3 DEF Start
    <2> QED BY <1>1, <2>1, <2>2, <2>3 DEF Request
  <1>2. CASE CallStep
    BY <1>2 DEF CallStep, Escalate, TerminateReturns, CancelReturns, ShutdownReturns, Target
  <1>3. CASE TaskStep
    BY <1>3 DEF TaskStep, BeginRun, SpawnWorker, SpawnFails, SendFails, ReadEvent, RejectOutput,
       WorkerDone, AbortDone
  <1>4. CASE Timeout \/ ReadsRequest \/ Restart BY <1>4 DEF Timeout, ReadsRequest, Restart
  <1>5. CASE Crash BY <1>5 DEF Crash
  <1>6. CASE \E w \in Workers : ProcessStep(w)
    <2>1. ServerUnchanged
      BY <1>6 DEF ProcessStep, WriteItem, WriteResult, ExitClean, Fail, SpawnChild, ChildExits,
         Reap, ParentLost
    <2> QED BY <2>1 DEF ServerUnchanged
  <1>7. CASE UNCHANGED vars BY <1>7 DEF vars
  <1> QED BY <1>1, <1>2, <1>3, <1>4, <1>5, <1>6, <1>7 DEF Next

(* Whoever cancels asks the worker there is.                               *)
LEMMA CancelAsks ==
  ASSUME Base, ProcInv, [Next]_vars, pc = "send", ~cancelled, cancelled'
  PROVE  \E c \in Callers : call'[c].phase = "ask" /\ call'[c].aim = proc
  <1> USE BaseTypes, CallerNames
  <1>0. proc # NoWorker BY DEF ProcInv, Attended
  <1>1. CASE \E j \in Jobs : Cancel(j)
    <2> PICK j \in Jobs : Cancel(j) BY <1>1
    <2>1. call' = [call EXCEPT ![j] = Terminating(proc)] BY <1>0 DEF Cancel
    <2> QED BY <2>1 DEF Terminating
  <1>2. CASE Shutdown
    <2>1. call' = [call EXCEPT ![ServerStop] = Terminating(proc)] BY <1>0, <1>2 DEF Shutdown
    <2> QED BY <2>1 DEF Terminating
  <1>3. CASE \E j \in Jobs, k \in {"refresh", "single"}, n \in Items : Start(j, k, n)
    BY <1>3 DEF Start
  <1>4. CASE CallStep
    BY <1>4 DEF CallStep, Escalate, TerminateReturns, CancelReturns, ShutdownReturns, MemoryLost
  <1>5. CASE TaskStep
    BY <1>5 DEF TaskStep, BeginRun, SpawnWorker, SpawnFails, SendFails, ReadEvent, RejectOutput,
       RunnerKills, WorkerDone, AbortDone, EndWorker
  <1>6. CASE Timeout \/ ReadsRequest \/ Restart \/ Crash
    BY <1>6 DEF Timeout, RunnerKills, ReadsRequest, Restart, Crash, MemoryLost
  <1>7. CASE \E w \in Workers : ProcessStep(w)
    <2>1. ServerUnchanged
      BY <1>7 DEF ProcessStep, WriteItem, WriteResult, ExitClean, Fail, SpawnChild, ChildExits,
         Reap, ParentLost
    <2> QED BY <2>1 DEF ServerUnchanged
  <1>8. CASE UNCHANGED vars BY <1>8 DEF vars
  <1> QED BY <1>1, <1>2, <1>3, <1>4, <1>5, <1>6, <1>7, <1>8 DEF Next, Request

LEMMA SendStep ==
  ASSUME Base, ProcInv, CallInv, AimInv, SendInv, [Next]_vars
  PROVE  SendInv'
  <1> USE BaseTypes, CallerNames
  <1> SUFFICES ASSUME AwaitsReading', cancelled'
               PROVE  \E c \in Callers : call'[c].phase = "ask" /\ call'[c].aim = proc'
    BY DEF SendInv
  <1>0. pc' = "send" /\ leader'[proc'] = "waiting" BY DEF AwaitsReading
  <1>1. CASE pc = "send" /\ proc' = proc
    <2>1. proc \in Workers BY <1>1 DEF ProcInv, Attended
    <2>2. leader[proc] = "waiting" BY <1>0, <1>1, <2>1, LeadersMove
    <2>3. CASE cancelled
      <3>1. PICK c \in Callers : call[c].phase = "ask" /\ call[c].aim = proc
        BY <1>1, <2>2, <2>3 DEF SendInv, AwaitsReading
      <3>2. ~Escalate(c)
        <4> SUFFICES ASSUME Escalate(c) PROVE FALSE OBVIOUS
        <4>1. Kill({proc}) BY <3>1 DEF Escalate, Target
        <4>2. leader'[proc] = "exited" BY <2>1, <2>2, <4>1 DEF Kill, Alive
        <4> QED BY <1>0, <1>1, <4>2
      <3>3. GroupExists(call[c].aim) BY <2>2, <3>1 DEF GroupExists, Alive
      <3>4. ~MemoryLost BY <1>0 DEF MemoryLost
      <3> QED BY <1>1, <3>1, <3>2, <3>3, <3>4, AskStays
    <2>4. CASE ~cancelled BY <1>1, <2>4, CancelAsks
    <2> QED BY <2>3, <2>4
  <1>2. CASE SpawnWorker BY <1>0, <1>2 DEF SpawnWorker
  <1>3. CASE \E j \in Jobs, k \in {"refresh", "single"}, n \in Items : Start(j, k, n)
    BY <1>0, <1>3 DEF Start
  <1> QED BY <1>0, <1>1, <1>2, <1>3, RunMoves

LEMMA GoesInvariance == Spec => [](Base /\ WorkerInv /\ ProtoInv /\ QuietInv /\ GoesInv)
  <1>1. Init => GoesInv
    BY DEF Init, GoesInv, SpawnedInv, DeadInv, SendInv, AwaitsReading, NoCall
  <1>2. Base /\ WorkerInv /\ AimInv /\ GoesInv /\ [Next]_vars => AimInv' /\ GoesInv'
    BY AimStep, SpawnedStep, DeadStep, SendStep DEF WorkerInv, GoesInv
  <1>3. Spec => [](Base /\ WorkerInv) BY WorkerInvariance
  <1>4. Spec => [](ProtoInv /\ QuietInv)
    <2>1. ResultInv => ProtoInv /\ QuietInv BY DEF ResultInv
    <2> QED BY <2>1, ResultInvariance, PTL
  <1> QED BY <1>1, <1>2, <1>3, <1>4, InitResults, PTL DEF Spec

(* Whatever workers, their descendants and clients do or leave undone,     *)
(* the task and every call under way have a step that the event loop, a    *)
(* deadline or the kernel takes, in particular nobody can hold the worker's*)
(* pipes open when _run waits for both readers after a kill; but for one   *)
(* wait, for a live worker to read its request, and even there a job that  *)
(* was cancelled is being stopped.                                         *)
THEOREM AllButDrainGoOn == Spec => []OnlyDrainHangs
  <1>1. Base /\ WorkerInv /\ ProtoInv /\ QuietInv /\ GoesInv => OnlyDrainHangs
    <2> SUFFICES ASSUME Base, WorkerInv, ProtoInv, QuietInv, GoesInv PROVE OnlyDrainHangs OBVIOUS
    <2> USE BaseTypes, CallerNames
    <2>1. \A c \in Callers : call[c].phase \in {"ask", "kill"} => GroupGoes(c)
      BY DEF GoesInv, DeadInv, Dead, GroupGoes, Target, GroupExists
    <2>2. pc # "idle" /\ ~AwaitsReading => TaskGoesOn
      <3>1. pc \in {"abort", "kill"} => GroupGoes(Runner) BY <2>1 DEF GoesInv, DeadInv
      <3>2. pc = "drain" => leader[proc] = "reaped" /\ kids[proc] # "holding"
        BY DEF GoesInv, DeadInv
      <3>3. pipe # <<>> => ~rd.proto BY DEF ProtoInv
      <3>4. pc = "send" /\ ~AwaitsReading => leader[proc] \notin Alive
        BY DEF QuietInv, Reading, WorkerInv, ProcInv, Attended, Busy, AwaitsReading, Alive
      <3> QED BY <3>1, <3>2, <3>3, <3>4 DEF TaskGoesOn, Drained, PCs
    <2>3. AwaitsReading /\ cancelled => \E c \in Callers : call[c].phase = "ask" /\ Target(c) = proc
      BY DEF GoesInv, SendInv, Target
    <2>4. \A c \in Callers : call[c].phase \in CallPhases OBVIOUS
    <2> QED BY <2>1, <2>2, <2>3, <2>4 DEF OnlyDrainHangs, CallPhases
  <1> QED BY <1>1, GoesInvariance, PTL

(* A worker that is dead writes nothing.                                   *)
LEMMA DrainShrinks ==
  ASSUME Base, WorkerInv, ProtoInv, GoesInv, [Next]_vars, pc = "drain", pc' = "drain"
  PROVE  Len(pipe') <= Len(pipe)
  <1> USE BaseTypes, AttendedWorker
  <1>0. proc \in Workers /\ leader[proc] = "reaped" /\ kids[proc] = "none" /\ pipe \in Seq(Events)
    BY DEF GoesInv, DeadInv, WorkerInv, Reading, Base, TypeInv, TypeOK, OutType
  <1>1. pipe' = pipe \/ pipe' = <<>> \/ (pipe # <<>> /\ pipe' = Tail(pipe))
    <2>1. CASE Request BY <2>1 DEF Request, Start, Cancel, Shutdown, outVars
    <2>2. CASE CallStep
      BY <2>2, <1>0 DEF CallStep, Escalate, TerminateReturns, CancelReturns, ShutdownReturns,
         MemoryLost, outVars
    <2>3. CASE ReadEvent BY <2>3, Zenon DEF ReadEvent
    <2>4. CASE BeginRun \/ SpawnWorker \/ ReadsRequest \/ RejectOutput \/ Timeout
      BY <2>4 DEF BeginRun, SpawnWorker, ReadsRequest, RejectOutput, Timeout, RunnerKills, outVars
    <2>5. CASE WorkerDone \/ AbortDone \/ SpawnFails \/ SendFails
      BY <2>5 DEF WorkerDone, AbortDone, SpawnFails, SendFails, EndWorker, outVars
    <2>6. CASE Crash \/ Restart BY <2>6 DEF Crash, MemoryLost, Restart, outVars
    <2>7. CASE \E w \in Workers : ProcessStep(w)
      BY <2>7, <1>0 DEF ProcessStep, WriteItem, WriteResult, ExitClean, Fail, SpawnChild, ChildExits,
         Reap, ParentLost, outVars, Alive
    <2>8. CASE UNCHANGED vars BY <2>8 DEF vars, outVars
    <2> QED BY <2>1, <2>2, <2>3, <2>4, <2>5, <2>6, <2>7, <2>8 DEF Next, TaskStep
  <1> QED BY <1>0, <1>1

(* The task takes its targets in order and each through its stages once;   *)
(* with AllButDrainGoOn, the safety half of "an admitted job ends".    *)
THEOREM TaskMovesOn == Spec => OnlyForward
  <1>1. Base /\ WorkerInv /\ ProtoInv /\ GoesInv /\ [Next]_vars =>
          [pc # "idle" /\ pc' # "idle" =>
             \/ idx' > idx
             \/ idx' = idx /\ Stage' > Stage
             \/ idx' = idx /\ Stage' = Stage /\ (pc = "drain" => Len(pipe') <= Len(pipe))]_vars
    <2> SUFFICES ASSUME Base, WorkerInv, ProtoInv, GoesInv, [Next]_vars, pc # "idle", pc' # "idle"
                 PROVE  \/ idx' > idx
                        \/ idx' = idx /\ Stage' > Stage
                        \/ idx' = idx /\ Stage' = Stage /\ (pc = "drain" => Len(pipe') <= Len(pipe))
      OBVIOUS
    <2> USE BaseTypes, CallerNames
    <2>0. idx \in Nat /\ ProcInv BY DEF Items, WorkerInv
    <2>1. CASE pc' = pc /\ idx' = idx
      <3>1. pc = "drain" => Len(pipe') <= Len(pipe) BY <2>1, DrainShrinks
      <3>2. call[Runner].phase = "kill" => pc \in {"abort", "kill"}
        BY DEF WorkerInv, CallInv
      <3>3. call[Runner].phase = "kill" => call'[Runner].phase = "kill"
        BY <2>0, <2>1, <3>2, RunnerStays
      <3> DEFINE s == Stages[pc]
      <3>4. s \in Nat BY <2>0 DEF Stages, PCs
      <3> HIDE DEF s
      <3>5. Stage = s + (IF call[Runner].phase = "kill" THEN 1 ELSE 0) BY DEF Stage, s
      <3>6. Stage' = s + (IF call'[Runner].phase = "kill" THEN 1 ELSE 0) BY <2>1 DEF Stage, s
      <3> QED BY <2>1, <3>1, <3>3, <3>4, <3>5, <3>6
    <2>2. CASE idx' = idx + 1 BY <2>0, <2>2
    <2>3. CASE SpawnWorker
      <3>1. pc = "spawn" /\ pc' \in {"abort", "send", "wait"} /\ idx' = idx BY <2>3 DEF SpawnWorker
      <3>2. call[Runner].phase # "kill" BY <3>1 DEF WorkerInv, CallInv
      <3>3. Stage = 1 BY <3>1, <3>2 DEF Stage, Stages
      <3>4. Stage' \in 2..5 BY <3>1 DEF Stage, Stages
      <3> QED BY <3>1, <3>3, <3>4
    <2>4. CASE \/ pc = "created" /\ pc' = "spawn" /\ idx' = idx
               \/ pc = "send" /\ pc' = "wait" /\ idx' = idx
      <3>1. call[Runner].phase # "kill" BY <2>4 DEF WorkerInv, CallInv
      <3> QED BY <2>4, <3>1 DEF Stage, Stages
    <2>5. CASE pc = "wait" /\ pc' = "kill" /\ RunnerKills
      <3>1. call[Runner].phase # "kill" BY <2>5 DEF WorkerInv, CallInv
      <3>2. idx' = idx BY <2>5 DEF RunnerKills
      <3> QED BY <2>5, <3>1, <3>2 DEF Stage, Stages
    <2>6. CASE pc = "kill" /\ pc' = "drain" /\ TerminateReturns(Runner)
      <3>1. idx' = idx BY <2>6 DEF TerminateReturns
      <3> QED BY <2>6, <3>1 DEF Stage, Stages
    <2>7. CASE \E j \in Jobs, k \in {"refresh", "single"}, n \in Items : Start(j, k, n)
      BY <2>7 DEF Start, NothingActive, Base, RowFollowsTask, ActiveRowIffTask
    <2> QED BY <2>0, <2>1, <2>2, <2>3, <2>4, <2>5, <2>6, <2>7, RunMoves
  <1> QED BY <1>1, GoesInvariance, PTL DEF Spec, OnlyForward

=============================================================================
