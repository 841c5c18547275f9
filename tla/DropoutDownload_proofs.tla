----------------------- MODULE DropoutDownload_proofs -----------------------
(***************************************************************************)
(* Theorems about DropoutDownload for any listings, slots, jobs, retries   *)
(* and faults.                                                             *)
(***************************************************************************)
EXTENDS DropoutDownload, SequenceTheorems, TLAPS

-----------------------------------------------------------------------------
(***************************************************************************)
(* The inductive invariant.                                                *)
(***************************************************************************)
Going == {"verified", "scanned", "put", "selected"}

(* Who is there: a worker and its output belong to a running job, a        *)
(* coordinator without a server handles nothing.                           *)
WorkerInv ==
  /\ ~Busy => worker = "off" /\ pipe = <<>>
  /\ ~up => pipe = <<>> /\ reader = "idle"
  /\ reader # "idle" => pipe # <<>>
  /\ worker = "fetched" => cur \in Listings
  /\ retry.at \in Going => retry.of \in 1..Last

(* An episode is fetched for a slot that was empty when it was looked at.  *)
FetchInv == worker = "fetched" => Dest[cur] \notin files \/ Dest[cur] \in added

(* What was in a slot is there, or the user took it: whoever copies an     *)
(* inventory, or holds a result not yet recorded, holds such slots only.   *)
Known == files \cup gone
HonestInv ==
  /\ InventoryHonest
  /\ \A i \in 1..Len(pipe) : Dest[pipe[i]] \in Known
  /\ worker = "placed" => \A l \in tell : Dest[l] \in Known
  /\ reader = "read" => copy \subseteq Known
  /\ retry.at = "scanned" => retry.seen \subseteq Known

(* The same for the results of the running job, since its admission.       *)
Kept(j) == files \cup jobs[j].lost
PlacedInv ==
  /\ RecordedIsPlaced
  /\ \A i \in 1..Len(pipe) : Dest[pipe[i]] \in Kept(Last)
  /\ worker = "placed" => \A l \in tell : Dest[l] \in Kept(Last)

(* A chain of retries forgets nothing: what its first job asked for is     *)
(* among the actions of each later one, or was there when it was left out. *)
Rest == IF retry.at = "selected" THEN retry.rest ELSE jobs[retry.of].ids \ retry.kept
ChainInv ==
  /\ \A j \in 1..Last : \A l \in jobs[j].asked :
       Dest[l] \in At(jobs[j].ids) \cup Kept(j)
  /\ retry.at \in Going => \A l \in jobs[retry.of].asked :
       Dest[l] \in At(Rest) \cup files \cup retry.lost

(* A run without a failure has placed what it has no longer to place.      *)
Held == IF worker = "fetched" THEN {Dest[cur]} ELSE {}
ProgressInv ==
  /\ worker \in {"next", "fetched", "placed", "exited"} /\ ~bad =>
       \A l \in jobs[Last].ids : Dest[l] \in Kept(Last) \cup At(todo) \cup Held
  /\ worker = "exited" => ~bad /\ todo = {}

IInv ==
  /\ TypeOK /\ WorkerInv /\ FetchInv /\ HonestInv /\ PlacedInv
  /\ ChainInv /\ ProgressInv /\ SuccessIsComplete

-----------------------------------------------------------------------------
(***************************************************************************)
(* The jobs table.                                                         *)
(***************************************************************************)
LEMMA Update ==
  ASSUME NEW js \in Seq(Job), NEW k \in 1..Len(js), NEW v \in Job
  PROVE  /\ [js EXCEPT ![k] = v] \in Seq(Job)
         /\ Len([js EXCEPT ![k] = v]) = Len(js)
         /\ \A j \in 1..Len(js) : [js EXCEPT ![k] = v][j] = IF j = k THEN v ELSE js[j]
  BY ExceptSeq

LEMMA LastJob ==
  ASSUME TypeOK
  PROVE  /\ Last \in Nat /\ Last <= MaxJobs
         /\ \A j \in 1..Last : jobs[j] \in Job
         /\ Busy => Last \in 1..Last
  BY DEF TypeOK, Last, Busy

LEMMA Started ==
  ASSUME TypeOK, NEW job \in Job, StartWorker(job)
  PROVE  /\ jobs' \in Seq(Job) /\ Len(jobs') = Last + 1 /\ Len(jobs') <= MaxJobs
         /\ \A j \in 1..Last : jobs'[j] = jobs[j]
         /\ jobs'[Last + 1] = job
  BY DownloadAssumption, AppendProperties DEF TypeOK, StartWorker, Last

LEMMA Cancelled ==
  ASSUME TypeOK, Cancel
  PROVE  /\ jobs' \in Seq(Job) /\ Len(jobs') = Last /\ Last \in 1..Last
         /\ \A j \in 1..Last : jobs'[j] = IF j = Last THEN [jobs[j] EXCEPT !.stop = TRUE] ELSE jobs[j]
  <1> DEFINE v == [jobs[Last] EXCEPT !.stop = TRUE]
  <1>1. Last \in 1..Last BY LastJob DEF Cancel
  <1>2. v \in Job BY <1>1, LastJob DEF Job
  <1>3. jobs' = [jobs EXCEPT ![Last] = v] BY DEF Cancel
  <1>4. /\ jobs' \in Seq(Job) /\ Len(jobs') = Last
        /\ \A j \in 1..Last : jobs'[j] = IF j = Last THEN v ELSE jobs[j]
    <2> HIDE DEF v
    <2> QED BY <1>1, <1>2, <1>3, Update DEF TypeOK, Last
  <1> QED BY <1>1, <1>4

LEMMA Stored ==
  ASSUME TypeOK, WorkerInv, StoreItem
  PROVE  /\ jobs' \in Seq(Job) /\ Len(jobs') = Last /\ Last \in 1..Last
         /\ pipe # <<>> /\ Head(pipe) = pipe[1] /\ pipe[1] \in Listings
         /\ \A j \in 1..Last :
              jobs'[j] = IF j = Last THEN [jobs[j] EXCEPT !.done = @ \cup {pipe[1]}] ELSE jobs[j]
  <1>1. pipe # <<>> /\ Last \in 1..Last BY LastJob DEF StoreItem, WorkerInv
  <1>2. Head(pipe) = pipe[1] /\ pipe[1] \in Listings BY <1>1 DEF TypeOK
  <1> DEFINE v == [jobs[Last] EXCEPT !.done = @ \cup {pipe[1]}]
  <1>3. v \in Job BY <1>1, <1>2, LastJob DEF Job
  <1>4. jobs' = [jobs EXCEPT ![Last] = v] BY <1>2 DEF StoreItem
  <1>5. /\ jobs' \in Seq(Job) /\ Len(jobs') = Last
        /\ \A j \in 1..Last : jobs'[j] = IF j = Last THEN v ELSE jobs[j]
    <2> HIDE DEF v
    <2> QED BY <1>1, <1>3, <1>4, Update DEF TypeOK, Last
  <1> QED BY <1>1, <1>2, <1>5

LEMMA Ended ==
  ASSUME TypeOK, NEW s \in Retryable \cup {"succeeded"}, Busy,
         jobs' = [jobs EXCEPT ![Last].status = s]
  PROVE  /\ jobs' \in Seq(Job) /\ Len(jobs') = Last /\ Last \in 1..Last
         /\ \A j \in 1..Last : jobs'[j] = IF j = Last THEN [jobs[j] EXCEPT !.status = s] ELSE jobs[j]
  <1>1. Last \in 1..Last BY LastJob
  <1>2. [jobs[Last] EXCEPT !.status = s] \in Job
    BY <1>1, LastJob DEF Job
  <1>3. jobs' = [jobs EXCEPT ![Last] = [jobs[Last] EXCEPT !.status = s]] OBVIOUS
  <1> QED BY <1>1, <1>2, <1>3, Update DEF TypeOK, Last

LEMMA Taken ==
  ASSUME TypeOK, NEW s \in Slots, TakeFile(s)
  PROVE  /\ jobs' \in Seq(Job) /\ Len(jobs') = Last
         /\ \A j \in 1..Last : jobs'[j] = [jobs[j] EXCEPT !.lost = @ \cup {s}]
  <1>1. \A j \in 1..Last : [jobs[j] EXCEPT !.lost = @ \cup {s}] \in Job
    BY LastJob DEF Job
  <1>2. Last \in Nat /\ jobs' = [j \in 1..Last |-> [jobs[j] EXCEPT !.lost = @ \cup {s}]]
    BY LastJob DEF TakeFile
  <1> QED BY <1>1, <1>2

-----------------------------------------------------------------------------
(***************************************************************************)
(* What a step leaves of the jobs, and of what is known about slots.       *)
(***************************************************************************)
LEMMA Steps ==
  ASSUME Next
  PROVE  \/ \E ids \in SUBSET Listings : PostDownload(ids)
         \/ Refresh \/ List \/ SkipOccupied \/ Fetch \/ Promote \/ Report \/ RunEnds
         \/ ListFails \/ FetchFails \/ PromoteFails
         \/ RecordRead \/ RecordWrite \/ StoreItem \/ JobEnds \/ Cancel \/ Crash \/ Restart
         \/ \E j \in 1..MaxJobs : RetryVerify(j)
         \/ RetryScan \/ RetryPut \/ RetrySelect \/ RetryStart \/ RetryConflict
         \/ \E s \in Slots : PutFile(s) \/ TakeFile(s)
  BY DEF Next, Work, Failures, Coordinate, RetrySteps

(* A selection is a set of listings, also that of a retry.                 *)
LEMMA NewJobType ==
  ASSUME NEW asked \in SUBSET Listings, NEW ids \in SUBSET Listings,
         NEW base \in SUBSET Slots, NEW lost \in SUBSET Slots
  PROVE  /\ NewJob(asked, ids, base, lost) \in Job
         /\ NewJob(asked, ids, base, lost).status = "running"
         /\ NewJob(asked, ids, base, lost).asked = asked
         /\ NewJob(asked, ids, base, lost).ids = ids
         /\ NewJob(asked, ids, base, lost).done = {}
         /\ NewJob(asked, ids, base, lost).lost = lost
  BY DEF NewJob, Job, Active

(* Jobs but for their number.                                              *)
SameJobs ==
  /\ jobs' \in Seq(Job) /\ Len(jobs') = Last
  /\ \A j \in 1..Last : /\ jobs'[j].asked = jobs[j].asked /\ jobs'[j].ids = jobs[j].ids
                        /\ jobs[j].lost \subseteq jobs'[j].lost

(* Both ways to admit a job start a worker for a well-formed row.          *)
LEMMA Admits ==
  ASSUME TypeOK, WorkerInv, (\E ids \in SUBSET Listings : PostDownload(ids)) \/ RetryStart
  PROVE  \E job \in Job : StartWorker(job)
  <1>1. CASE \E ids \in SUBSET Listings : PostDownload(ids)
    <2> PICK ids \in SUBSET Listings : PostDownload(ids) BY <1>1
    <2>1. NewJob(ids, ids, scan, {}) \in Job BY NewJobType DEF TypeOK
    <2> QED BY <2>1 DEF PostDownload
  <1>2. CASE RetryStart
    <2>1. retry.of \in 1..Last BY <1>2 DEF RetryStart, WorkerInv, Going
    <2>2. jobs[retry.of].asked \in SUBSET Listings /\ retry.rest \in SUBSET Listings
          /\ retry.base \in SUBSET Slots /\ retry.lost \in SUBSET Slots
      BY <2>1, LastJob DEF TypeOK, Job, Retry
    <2>3. NewJob(jobs[retry.of].asked, retry.rest, retry.base, retry.lost) \in Job
      BY <2>2, NewJobType
    <2> QED BY <1>2, <2>3 DEF RetryStart
  <1> QED BY <1>1, <1>2

(* A step admits a job or keeps those there are.                           *)
LEMMA JobsStep ==
  ASSUME TypeOK, WorkerInv, Next
  PROVE  \/ /\ (\E ids \in SUBSET Listings : PostDownload(ids)) \/ RetryStart
            /\ \E job \in Job : StartWorker(job)
         \/ SameJobs
  <1>1. CASE (\E ids \in SUBSET Listings : PostDownload(ids)) \/ RetryStart
    BY <1>1, Admits
  <1>3. CASE Cancel
    <2> SUFFICES ASSUME NEW j \in 1..Last
                 PROVE  /\ jobs'[j].asked = jobs[j].asked /\ jobs'[j].ids = jobs[j].ids
                        /\ jobs'[j].lost = jobs[j].lost
      BY <1>3, Cancelled DEF SameJobs
    <2>1. jobs[j] \in Job BY LastJob
    <2>2. CASE j = Last
      <3>1. jobs'[j] = [jobs[j] EXCEPT !.stop = TRUE] BY <1>3, <2>2, Cancelled
      <3> QED BY <2>1, <3>1 DEF Job
    <2>3. CASE j # Last
      <3>1. jobs'[j] = jobs[j] BY <1>3, <2>3, Cancelled
      <3> QED BY <3>1
    <2> QED BY <2>2, <2>3
  <1>4. CASE StoreItem
    <2> SUFFICES ASSUME NEW j \in 1..Last
                 PROVE  /\ jobs'[j].asked = jobs[j].asked /\ jobs'[j].ids = jobs[j].ids
                        /\ jobs'[j].lost = jobs[j].lost
      BY <1>4, Stored DEF SameJobs
    <2>1. jobs[j] \in Job BY LastJob
    <2>2. CASE j = Last
      <3>1. jobs'[j] = [jobs[j] EXCEPT !.done = @ \cup {pipe[1]}] BY <1>4, <2>2, Stored
      <3> QED BY <2>1, <3>1 DEF Job
    <2>3. CASE j # Last
      <3>1. jobs'[j] = jobs[j] BY <1>4, <2>3, Stored
      <3> QED BY <3>1
    <2> QED BY <2>2, <2>3
  <1>5. ASSUME NEW s \in Retryable \cup {"succeeded"}, Busy, jobs' = [jobs EXCEPT ![Last].status = s]
        PROVE  SameJobs
    <2> SUFFICES ASSUME NEW j \in 1..Last
                 PROVE  /\ jobs'[j].asked = jobs[j].asked /\ jobs'[j].ids = jobs[j].ids
                        /\ jobs'[j].lost = jobs[j].lost
      BY <1>5, Ended DEF SameJobs
    <2>1. jobs[j] \in Job BY LastJob
    <2>2. CASE j = Last
      <3>1. jobs'[j] = [jobs[j] EXCEPT !.status = s] BY <1>5, <2>2, Ended
      <3> QED BY <2>1, <3>1 DEF Job
    <2>3. CASE j # Last
      <3>1. jobs'[j] = jobs[j] BY <1>5, <2>3, Ended
      <3> QED BY <3>1
    <2> QED BY <2>2, <2>3
  <1>6. CASE JobEnds BY <1>5, <1>6 DEF JobEnds, Retryable
  <1>7. CASE Restart
    <2>1. CASE Busy BY <1>5, <1>7, <2>1 DEF Restart, Retryable
    <2>2. CASE ~Busy BY <1>7, <2>2 DEF Restart, SameJobs, TypeOK, Last
    <2> QED BY <2>1, <2>2
  <1>8. CASE \E s \in Slots : TakeFile(s)
    <2> PICK s \in Slots : TakeFile(s) BY <1>8
    <2>1. \A j \in 1..Last : [jobs[j] EXCEPT !.lost = @ \cup {s}].asked = jobs[j].asked
                             /\ [jobs[j] EXCEPT !.lost = @ \cup {s}].ids = jobs[j].ids
                             /\ [jobs[j] EXCEPT !.lost = @ \cup {s}].lost = jobs[j].lost \cup {s}
      BY LastJob DEF Job
    <2> QED BY <2>1, Taken DEF SameJobs
  <1>9. CASE UNCHANGED jobs BY <1>9 DEF SameJobs, TypeOK, Last
  <1> QED BY <1>1, <1>3, <1>4, <1>6, <1>7, <1>8, <1>9, Steps
        DEF Refresh, List, SkipOccupied, Fetch, Promote, Report, RunEnds, ListFails, FetchFails,
            PromoteFails, RecordRead, RecordWrite, Crash, RetryVerify, RetryScan, RetryPut,
            RetrySelect, RetryConflict, PutFile

(* A result that is in the pipe was there, or has just been written.       *)
LEMMA PipeStep ==
  ASSUME TypeOK, WorkerInv, Next
  PROVE  /\ pipe' \in Seq(Listings)
         /\ \A i \in 1..Len(pipe') :
              \/ \E k \in 1..Len(pipe) : pipe'[i] = pipe[k]
              \/ worker = "placed" /\ pipe'[i] \in tell
  <1>1. CASE Report
    <2> PICK l \in tell : pipe' = IF up THEN Append(pipe, l) ELSE pipe BY <1>1 DEF Report
    <2>1. l \in Listings /\ pipe \in Seq(Listings) /\ worker = "placed" BY <1>1 DEF TypeOK, Report
    <2>2. CASE up
      <3>1. pipe' = Append(pipe, l) BY <2>2
      <3> QED BY <2>1, <3>1, AppendProperties
    <2>3. CASE ~up BY <2>1, <2>3
    <2> QED BY <2>2, <2>3
  <1>2. CASE StoreItem
    <2>1. pipe # <<>> /\ pipe \in Seq(Listings) /\ pipe' = Tail(pipe)
      BY <1>2 DEF StoreItem, WorkerInv, TypeOK
    <2> QED BY <2>1, HeadTailProperties
  <1>3. CASE Crash BY <1>3 DEF Crash
  <1>4. CASE UNCHANGED pipe BY <1>4 DEF TypeOK
  <1> QED BY <1>1, <1>2, <1>3, <1>4, Steps
        DEF PostDownload, Refresh, List, SkipOccupied, Fetch, Promote, RunEnds, ListFails, FetchFails,
            PromoteFails, RecordRead, RecordWrite, JobEnds, Cancel, Restart, RetryVerify, RetryScan,
            RetryPut, RetrySelect, RetryStart, RetryConflict, PutFile, TakeFile

(* Nothing known is forgotten: a file that goes is remembered as gone, by  *)
(* every job and by the retry under way.                                   *)
LEMMA Memory ==
  ASSUME TypeOK, WorkerInv, Next
  PROVE  /\ Known \subseteq Known'
         /\ \A j \in 1..Last : Kept(j) \subseteq files' \cup jobs'[j].lost
         /\ retry.at \in Going /\ retry'.at \in Going /\ retry'.of = retry.of /\ ~(\E j \in 1..MaxJobs : RetryVerify(j)) =>
              files \cup retry.lost \subseteq files' \cup retry'.lost
  <1>1. CASE \E s \in Slots : TakeFile(s)
    <2> PICK s \in Slots : TakeFile(s) BY <1>1
    <2>1. files' = files \ {s} /\ gone' = gone \cup {s} BY DEF TakeFile
    <2>2. \A j \in 1..Last : jobs'[j].lost = jobs[j].lost \cup {s}
      <3> SUFFICES ASSUME NEW j \in 1..Last PROVE jobs'[j].lost = jobs[j].lost \cup {s} OBVIOUS
      <3>1. jobs[j] \in Job /\ jobs'[j] = [jobs[j] EXCEPT !.lost = @ \cup {s}] BY LastJob, Taken
      <3> QED BY <3>1 DEF Job
    <2>3. retry.at \in Going => retry'.lost = retry.lost \cup {s}
      BY DEF TakeFile, Going, TypeOK, Retry
    <2> QED BY <2>1, <2>2, <2>3 DEF Known, Kept
  <1>2. CASE \E s \in Slots : PutFile(s)
    <2> PICK s \in Slots : PutFile(s) BY <1>2
    <2> QED BY DEF PutFile, Known, Kept
  <1>3. CASE Promote
    <2> QED BY <1>3 DEF Promote, Known, Kept
  <1>4. CASE UNCHANGED <<files, gone>>
    <2>1. \A j \in 1..Last : jobs[j].lost \subseteq jobs'[j].lost
      BY JobsStep, Started DEF SameJobs
    <2>2. retry.at \in Going /\ retry'.at \in Going /\ retry'.of = retry.of
          /\ ~(\E j \in 1..MaxJobs : RetryVerify(j)) /\ ~(\E s \in Slots : TakeFile(s))
            => retry'.lost = retry.lost
      <3> USE DEF Going, NoRetry, TypeOK, Retry
      <3>1. CASE RetryScan \/ RetryPut BY <3>1 DEF RetryScan, RetryPut
      <3>2. CASE RetrySelect BY <3>2 DEF RetrySelect
      <3>3. CASE RetryStart \/ RetryConflict \/ Crash BY <3>3 DEF RetryStart, RetryConflict, Crash
      <3>4. CASE UNCHANGED retry BY <3>4
      <3> QED BY <3>1, <3>2, <3>3, <3>4, Steps
            DEF PostDownload, Refresh, List, SkipOccupied, Fetch, Promote, Report, RunEnds, ListFails,
                FetchFails, PromoteFails, RecordRead, RecordWrite, StoreItem, JobEnds, Cancel, Restart,
                PutFile
    <2> QED BY <1>1, <1>4, <2>1, <2>2 DEF Known, Kept
  <1> QED BY <1>1, <1>2, <1>3, <1>4, Steps
        DEF PostDownload, Refresh, List, SkipOccupied, Fetch, Report, RunEnds, ListFails,
            FetchFails, PromoteFails, RecordRead, RecordWrite, StoreItem, JobEnds, Cancel, Crash, Restart,
            RetryVerify, RetryScan, RetryPut, RetrySelect, RetryStart, RetryConflict, row, history

-----------------------------------------------------------------------------
(***************************************************************************)
(* The invariant.                                                          *)
(***************************************************************************)
LEMMA InitInv == Init => IInv
  <1> SUFFICES ASSUME Init PROVE IInv OBVIOUS
  <1> USE DEF Init
  <1>1. Last = 0 /\ ~Busy BY DEF Last, Busy
  <1>2. TypeOK
    <2>1. retry \in Retry BY DownloadAssumption DEF Retry, NoRetry
    <2>2. jobs \in Seq(Job) /\ Len(jobs) = 0 /\ pipe \in Seq(Listings) OBVIOUS
    <2>3. faults \in 0..MaxFaults /\ edits \in 0..MaxEdits /\ 0 <= MaxJobs BY DownloadAssumption
    <2> QED BY <2>1, <2>2, <2>3 DEF TypeOK
  <1>3. WorkerInv BY <1>1 DEF WorkerInv, Going, NoRetry
  <1>4. FetchInv /\ HonestInv BY DEF FetchInv, HonestInv, InventoryHonest, Known, NoRetry
  <1>5. PlacedInv BY <1>1 DEF PlacedInv, RecordedIsPlaced
  <1>6. ChainInv /\ ProgressInv /\ SuccessIsComplete
    BY <1>1 DEF ChainInv, ProgressInv, SuccessIsComplete, Going, NoRetry
  <1> QED BY <1>2, <1>3, <1>4, <1>5, <1>6 DEF IInv

LEMMA Destinations ==
  /\ Dest \in [Listings -> Slots] /\ MaxFaults \in Nat /\ MaxEdits \in Nat /\ MaxJobs \in Nat
  /\ \A ls \in SUBSET Listings : At(ls) \in SUBSET Slots
  BY DownloadAssumption DEF At

LEMMA LibraryTypes ==
  ASSUME TypeOK, WorkerInv, Next
  PROVE  /\ files' \in SUBSET Slots /\ scan' \in SUBSET Slots
         /\ shown' \in SUBSET Slots /\ snap' \in SUBSET Slots /\ copy' \in SUBSET Slots
         /\ gone' \in SUBSET Slots /\ added' \in SUBSET Slots
  <1> USE DEF row, history, server, process
  <1>1. CASE Promote
    <2>1. Dest[cur] \in Slots BY <1>1, Destinations DEF Promote, WorkerInv
    <2> QED BY <1>1, <2>1 DEF Promote, TypeOK
  <1>2. CASE RecordWrite
    <2>1. Dest[Head(pipe)] \in Slots
      BY <1>2, Destinations DEF RecordWrite, WorkerInv, TypeOK
    <2> QED BY <1>2, <2>1 DEF RecordWrite, TypeOK
  <1>3. CASE Refresh \/ RecordRead \/ StoreItem \/ Crash
    BY <1>3 DEF Refresh, RecordRead, StoreItem, Crash, TypeOK
  <1>4. CASE RetryPut
    <2>1. retry.seen \in SUBSET Slots BY DEF TypeOK, Retry
    <2> QED BY <1>4, <2>1 DEF RetryPut, TypeOK
  <1>5. CASE \E s \in Slots : PutFile(s) \/ TakeFile(s)
    BY <1>5 DEF PutFile, TakeFile, TypeOK
  <1>6. CASE UNCHANGED <<files, scan, shown, snap, copy, gone, added>>
    BY <1>6 DEF TypeOK
  <1> QED BY <1>1, <1>2, <1>3, <1>4, <1>5, <1>6, Steps
        DEF PostDownload, List, SkipOccupied, Fetch, Report, RunEnds, ListFails, FetchFails,
            PromoteFails, JobEnds, Cancel, Restart, RetryVerify, RetryScan, RetrySelect, RetryStart,
            RetryConflict

LEMMA ProcessTypes ==
  ASSUME TypeOK, WorkerInv, Next
  PROVE  /\ worker' \in {"off", "listing", "next", "fetched", "placed", "exited", "failed"}
         /\ todo' \in SUBSET Listings /\ cur' \in Listings \cup {0}
         /\ tell' \in SUBSET Listings /\ bad' \in BOOLEAN
         /\ up' \in BOOLEAN /\ reader' \in {"idle", "read", "stored"}
         /\ faults' \in 0..MaxFaults /\ edits' \in 0..MaxEdits
  <1> USE Destinations DEF row, history, server, process, TypeOK, Fault
  <1>1. worker # "off" => Selected \in SUBSET Listings
    BY LastJob DEF WorkerInv, Selected, Job
  <1>2. CASE (\E ids \in SUBSET Listings : PostDownload(ids)) \/ RetryStart
    BY <1>2 DEF PostDownload, RetryStart, StartWorker
  <1>3. CASE List \/ Fetch \/ RunEnds BY <1>1, <1>3 DEF List, Fetch, RunEnds
  <1>4. CASE SkipOccupied \/ Promote BY <1>1, <1>4 DEF SkipOccupied, Promote, Tells
  <1>5. CASE Report BY <1>5 DEF Report
  <1>6. CASE ListFails \/ FetchFails \/ PromoteFails \/ Cancel
    <2>1. faults' \in 0..MaxFaults BY <1>6 DEF ListFails, FetchFails, PromoteFails, Cancel
    <2>2. CASE ListFails BY <2>1, <2>2 DEF ListFails
    <2>3. CASE FetchFails BY <2>1, <2>3 DEF FetchFails
    <2>4. CASE PromoteFails BY <2>1, <2>4 DEF PromoteFails
    <2>5. CASE Cancel BY <2>1, <2>5 DEF Cancel
    <2> QED BY <1>6, <2>2, <2>3, <2>4, <2>5
  <1>7. CASE RecordRead \/ RecordWrite \/ StoreItem BY <1>7 DEF RecordRead, RecordWrite, StoreItem
  <1>8. CASE JobEnds \/ Restart BY <1>8 DEF JobEnds, Restart
  <1>11. CASE Crash
    <2>1. faults' \in 0..MaxFaults BY <1>11 DEF Crash
    <2>2. UNCHANGED process /\ edits' = edits /\ up' = FALSE /\ reader' = "idle" BY <1>11 DEF Crash
    <2> QED BY <2>1, <2>2
  <1>9. CASE \E s \in Slots : PutFile(s) \/ TakeFile(s) BY <1>9 DEF PutFile, TakeFile
  <1>10. CASE UNCHANGED <<process, server, history>> BY <1>10
  <1> QED BY <1>2, <1>3, <1>4, <1>5, <1>6, <1>7, <1>8, <1>9, <1>10, <1>11, Steps
        DEF Refresh, RetryVerify, RetryScan, RetryPut, RetrySelect, RetryConflict

LEMMA RetryTypes ==
  ASSUME TypeOK, WorkerInv, Next
  PROVE  retry' \in Retry
  <1> USE DEF Retry, NoRetry
  <1>1. retry \in Retry BY DEF TypeOK
  <1>2. CASE \E j \in 1..MaxJobs : RetryVerify(j)
    <2> PICK j \in 1..MaxJobs : RetryVerify(j) BY <1>2
    <2> DEFINE kept == jobs[j].done \cap {l \in jobs[j].ids : Dest[l] \in files \ jobs[j].base}
    <2>1. jobs[j] \in Job BY LastJob DEF RetryVerify
    <2>2. kept \in SUBSET Listings /\ jobs[j].lost \ At(jobs[j].ids) \in SUBSET Slots
      BY <2>1 DEF Job
    <2>3. retry' = [NoRetry EXCEPT !.at = "verified", !.of = j, !.kept = kept,
                                   !.lost = jobs[j].lost \ At(jobs[j].ids)]
      BY DEF RetryVerify
    <2>4. j \in 0..MaxJobs BY Destinations
    <2> HIDE DEF kept
    <2> QED BY <2>2, <2>3, <2>4
  <1>3. CASE RetryScan \/ RetryPut
    BY <1>1, <1>3 DEF RetryScan, RetryPut, TypeOK
  <1>4. CASE RetrySelect
    <2>1. retry.of \in 1..Last BY <1>4 DEF RetrySelect, WorkerInv, Going
    <2>2. jobs[retry.of].ids \ retry.kept \in SUBSET Listings
      BY <2>1, LastJob DEF Job
    <2> DEFINE rest == jobs[retry.of].ids \ retry.kept
    <2>3. scan \in SUBSET Slots BY DEF TypeOK
    <2>4. \/ retry' = [retry EXCEPT !.at = "selected", !.seen = {}, !.kept = {},
                                    !.rest = rest, !.base = scan]
          \/ retry' = [NoRetry EXCEPT !.at = "refused"]
      BY <1>4 DEF RetrySelect
    <2> HIDE DEF rest
    <2>5. rest \in SUBSET Listings BY <2>2 DEF rest
    <2>6. CASE retry' = [retry EXCEPT !.at = "selected", !.seen = {}, !.kept = {},
                                      !.rest = rest, !.base = scan]
      BY <1>1, <2>3, <2>5, <2>6
    <2>7. CASE retry' = [NoRetry EXCEPT !.at = "refused"]
      <3>1. 0 \in 0..MaxJobs BY Destinations
      <3> QED BY <2>7, <3>1
    <2> QED BY <2>4, <2>6, <2>7
  <1>5. CASE RetryStart \/ RetryConflict \/ Crash
    BY <1>5, Destinations DEF RetryStart, RetryConflict, Crash
  <1>6. CASE \E s \in Slots : TakeFile(s) BY <1>1, <1>6 DEF TakeFile
  <1>7. CASE UNCHANGED retry BY <1>1, <1>7
  <1> QED BY <1>2, <1>3, <1>4, <1>5, <1>6, <1>7, Steps
        DEF PostDownload, Refresh, List, SkipOccupied, Fetch, Promote, Report, RunEnds, ListFails,
            FetchFails, PromoteFails, RecordRead, RecordWrite, StoreItem, JobEnds, Cancel, Restart,
            PutFile

LEMMA TypeStep ==
  ASSUME TypeOK, WorkerInv, Next
  PROVE  TypeOK'
  <1>1. jobs' \in Seq(Job) /\ Len(jobs') <= MaxJobs
    BY JobsStep, Started, LastJob DEF SameJobs
  <1>2. pipe' \in Seq(Listings) BY PipeStep
  <1> QED BY <1>1, <1>2, LibraryTypes, ProcessTypes, RetryTypes DEF TypeOK

(* Whether a job runs after a step that admits none and ends none.         *)
LEMMA BusyStep ==
  ASSUME TypeOK, WorkerInv, Next
  PROVE  /\ Busy' /\ ~Busy => \E job \in Job : StartWorker(job)
         /\ Busy /\ ~Busy' => JobEnds \/ Restart
  <1>1. ASSUME NEW job \in Job, StartWorker(job) PROVE ~Busy
    BY <1>1 DEF StartWorker
  <1>2. CASE Cancel
    <2>1. jobs[Last] \in Job /\ jobs'[Last] = [jobs[Last] EXCEPT !.stop = TRUE] /\ Last' = Last
      BY <1>2, Cancelled, LastJob DEF Last
    <2>2. jobs'[Last'].status = jobs[Last].status BY <2>1 DEF Job
    <2> QED BY <2>1, <2>2 DEF Busy
  <1>3. CASE StoreItem
    <2>1. jobs[Last] \in Job /\ Last' = Last
          /\ jobs'[Last] = [jobs[Last] EXCEPT !.done = @ \cup {pipe[1]}]
      BY <1>3, Stored, LastJob DEF Last
    <2>2. jobs'[Last'].status = jobs[Last].status BY <2>1 DEF Job
    <2> QED BY <2>1, <2>2 DEF Busy
  <1>4. CASE JobEnds
    <2>1. Last' = Last /\ Busy BY <1>4, Ended DEF JobEnds, Last, Retryable
    <2> QED BY <1>4, <2>1
  <1>5. CASE Restart
    <2>1. ~Busy => jobs' = jobs BY <1>5 DEF Restart
    <2> QED BY <1>5, <2>1 DEF Busy, Last
  <1>6. CASE \E s \in Slots : TakeFile(s)
    <2> PICK s \in Slots : TakeFile(s) BY <1>6
    <2>1. Last' = Last /\ Last \in Nat BY Taken, LastJob DEF Last
    <2>2. CASE Last > 0
      <3>1. Last \in 1..Last BY <2>1, <2>2
      <3>2. jobs[Last] \in Job /\ jobs'[Last] = [jobs[Last] EXCEPT !.lost = @ \cup {s}]
        BY <3>1, Taken, LastJob
      <3>3. jobs'[Last'].status = jobs[Last].status BY <2>1, <3>2 DEF Job
      <3> QED BY <2>1, <3>3 DEF Busy
    <2>3. CASE ~(Last > 0) BY <2>1, <2>3 DEF Busy
    <2> QED BY <2>2, <2>3
  <1>7. CASE (\E ids \in SUBSET Listings : PostDownload(ids)) \/ RetryStart
    <2>2. ~Busy BY <1>7 DEF PostDownload, RetryStart, StartWorker
    <2> QED BY <1>7, <2>2, Admits
  <1>8. CASE UNCHANGED jobs BY <1>8 DEF Busy, Last
  <1> QED BY <1>2, <1>3, <1>4, <1>5, <1>6, <1>7, <1>8, Steps
        DEF Refresh, List, SkipOccupied, Fetch, Promote, Report, RunEnds, ListFails, FetchFails,
            PromoteFails, RecordRead, RecordWrite, Crash, RetryVerify, RetryScan, RetryPut,
            RetrySelect, RetryConflict, PutFile

(* What an admission does to the jobs: the new one is the last and runs.   *)
LEMMA Admitted ==
  ASSUME TypeOK, WorkerInv, (\E ids \in SUBSET Listings : PostDownload(ids)) \/ RetryStart
  PROVE  /\ Last' = Last + 1 /\ Last \in Nat /\ Busy'
         /\ \A j \in 1..Last : jobs'[j] = jobs[j]
         /\ jobs'[Last + 1].done = {} /\ ~Busy /\ reader = "idle" /\ worker' = "listing"
         /\ \A ids \in SUBSET Listings : PostDownload(ids) =>
              jobs'[Last + 1].asked = ids /\ jobs'[Last + 1].ids = ids
         /\ RetryStart =>
              /\ jobs'[Last + 1].asked = jobs[retry.of].asked
              /\ jobs'[Last + 1].ids = retry.rest
              /\ jobs'[Last + 1].lost = retry.lost
  <1>1. ASSUME NEW asked \in SUBSET Listings, NEW ids \in SUBSET Listings,
               NEW base \in SUBSET Slots, NEW lost \in SUBSET Slots,
               StartWorker(NewJob(asked, ids, base, lost))
        PROVE  /\ Last' = Last + 1 /\ Last \in Nat /\ Busy'
               /\ \A j \in 1..Last : jobs'[j] = jobs[j]
               /\ jobs'[Last + 1].done = {} /\ ~Busy /\ reader = "idle" /\ worker' = "listing"
               /\ jobs'[Last + 1].asked = asked /\ jobs'[Last + 1].ids = ids
               /\ jobs'[Last + 1].lost = lost
    <2> DEFINE job == NewJob(asked, ids, base, lost)
    <2>1. job \in Job /\ job.status = "running" /\ job.asked = asked /\ job.ids = ids
          /\ job.done = {} /\ job.lost = lost
      BY NewJobType
    <2> HIDE DEF job
    <2>2. /\ Last' = Last + 1 /\ Last \in Nat
          /\ \A j \in 1..Last : jobs'[j] = jobs[j]
          /\ jobs'[Last + 1] = job
      BY <1>1, <2>1, Started, LastJob DEF Last, job
    <2>3. Busy' BY <2>1, <2>2 DEF Busy
    <2> QED BY <1>1, <2>1, <2>2, <2>3 DEF StartWorker
  <1>2. CASE RetryStart
    <2>1. retry.of \in 1..Last BY <1>2 DEF RetryStart, WorkerInv, Going
    <2> DEFINE asked == jobs[retry.of].asked
               ids == retry.rest
               base == retry.base
               lost == retry.lost
    <2>2. asked \in SUBSET Listings /\ ids \in SUBSET Listings
          /\ base \in SUBSET Slots /\ lost \in SUBSET Slots
      BY <2>1, LastJob DEF TypeOK, Job, Retry
    <2>3. StartWorker(NewJob(asked, ids, base, lost))
      BY <1>2 DEF RetryStart
    <2>4. ~\E asking \in SUBSET Listings : PostDownload(asking)
      BY <1>2 DEF RetryStart, PostDownload, Retry, NoRetry, TypeOK
    <2>5. /\ Last' = Last + 1 /\ Last \in Nat /\ Busy'
          /\ \A j \in 1..Last : jobs'[j] = jobs[j]
          /\ jobs'[Last + 1].done = {} /\ ~Busy /\ reader = "idle" /\ worker' = "listing"
          /\ jobs'[Last + 1].asked = asked
          /\ jobs'[Last + 1].ids = ids /\ jobs'[Last + 1].lost = lost
      <3> HIDE DEF asked, ids, base, lost
      <3> QED BY <1>1, <2>2, <2>3
    <2> QED BY <2>4, <2>5
  <1>3. ASSUME NEW ids \in SUBSET Listings, PostDownload(ids), ~RetryStart
        PROVE  /\ Last' = Last + 1 /\ Last \in Nat /\ Busy'
               /\ \A j \in 1..Last : jobs'[j] = jobs[j]
               /\ jobs'[Last + 1].done = {} /\ ~Busy /\ reader = "idle" /\ worker' = "listing"
               /\ jobs'[Last + 1].asked = ids /\ jobs'[Last + 1].ids = ids
    <2>1. StartWorker(NewJob(ids, ids, scan, {})) /\ scan \in SUBSET Slots /\ {} \in SUBSET Slots
      BY <1>3 DEF PostDownload, TypeOK
    <2> QED BY <1>1, <2>1
  <1> QED BY <1>2, <1>3

LEMMA WorkerStep ==
  ASSUME TypeOK, WorkerInv, Next
  PROVE  WorkerInv'
  <1> USE DEF process, server, history, row
  <1>1. ASSUME ~Busy' PROVE worker' = "off" /\ pipe' = <<>>
    <2>1. CASE Busy
      <3>1. JobEnds \/ Restart BY <1>1, <2>1, BusyStep
      <3>2. CASE JobEnds BY <3>2 DEF JobEnds
      <3>3. CASE Restart BY <3>3 DEF Restart, WorkerInv
      <3> QED BY <3>1, <3>2, <3>3
    <2>2. CASE ~Busy
      <3>1. worker = "off" /\ pipe = <<>> /\ reader = "idle" BY <2>2 DEF WorkerInv
      <3>2. ~(\E ids \in SUBSET Listings : PostDownload(ids)) /\ ~RetryStart BY <1>1, Admitted
      <3> QED BY <2>2, <3>1, <3>2, Steps
            DEF Refresh, List, SkipOccupied, Fetch, Promote, Report, RunEnds, ListFails, FetchFails,
                PromoteFails, RecordRead, RecordWrite, StoreItem, JobEnds, Cancel, Crash, Restart,
                RetryVerify, RetryScan, RetryPut, RetrySelect, RetryConflict, PutFile, TakeFile
    <2> QED BY <2>1, <2>2
  <1>2. ASSUME ~up' PROVE pipe' = <<>> /\ reader' = "idle"
    <2>1. CASE Crash BY <2>1 DEF Crash
    <2>2. CASE Report BY <1>2, <2>2 DEF Report, WorkerInv
    <2> QED BY <1>2, <2>1, <2>2, Steps
          DEF WorkerInv, PostDownload, StartWorker, Refresh, List, SkipOccupied, Fetch, Promote, RunEnds,
              ListFails, FetchFails, PromoteFails, RecordRead, RecordWrite, StoreItem, JobEnds, Cancel,
              Restart, RetryVerify, RetryScan, RetryPut, RetrySelect, RetryStart, RetryConflict,
              PutFile, TakeFile
  <1>3. ASSUME reader' # "idle" PROVE pipe' # <<>>
    <2>1. CASE Report
      <3>1. pipe # <<>> /\ up BY <1>3, <2>1 DEF Report, WorkerInv
      <3>2. PICK l \in tell : pipe' = Append(pipe, l) BY <2>1, <3>1 DEF Report
      <3>3. l \in Listings /\ pipe \in Seq(Listings) BY DEF TypeOK
      <3> QED BY <3>2, <3>3, AppendProperties
    <2>2. CASE StoreItem BY <1>3, <2>2 DEF StoreItem
    <2>3. CASE Crash BY <1>3, <2>3 DEF Crash
    <2>4. CASE RecordRead BY <2>4 DEF RecordRead
    <2> QED BY <1>3, <2>1, <2>2, <2>3, <2>4, Steps
          DEF WorkerInv, PostDownload, Refresh, List, SkipOccupied, Fetch, Promote, RunEnds,
              ListFails, FetchFails, PromoteFails, RecordWrite, JobEnds, Cancel, Restart,
              RetryVerify, RetryScan, RetryPut, RetrySelect, RetryStart, RetryConflict,
              PutFile, TakeFile
  <1>4. ASSUME worker' = "fetched" PROVE cur' \in Listings
    <2>1. CASE Fetch BY <2>1 DEF Fetch, TypeOK
    <2> QED BY <1>4, <2>1, Steps
          DEF WorkerInv, PostDownload, StartWorker, Refresh, List, SkipOccupied, Promote, Report, RunEnds,
              ListFails, FetchFails, PromoteFails, RecordRead, RecordWrite, StoreItem, JobEnds, Cancel,
              Crash, Restart, RetryVerify, RetryScan, RetryPut, RetrySelect, RetryStart, RetryConflict,
              PutFile, TakeFile
  <1>5. ASSUME retry'.at \in Going PROVE retry'.of \in 1..Len(jobs')
    <2> USE DEF Going, NoRetry, Retry
    <2>1. Len(jobs') \in Nat /\ Last \in Nat /\ Len(jobs') >= Last
      BY JobsStep, Started, LastJob DEF SameJobs
    <2>2. CASE \E j \in 1..MaxJobs : RetryVerify(j)
      BY <2>1, <2>2 DEF RetryVerify, Last
    <2>3. CASE retry.at \in Going /\ retry'.of = retry.of BY <2>1, <2>3 DEF WorkerInv
    <2>4. CASE RetryScan \/ RetryPut \/ RetrySelect
      BY <1>5, <2>3, <2>4 DEF RetryScan, RetryPut, RetrySelect, TypeOK
    <2>5. CASE \E s \in Slots : TakeFile(s) BY <1>5, <2>3, <2>5 DEF TakeFile, TypeOK
    <2>6. CASE RetryStart \/ RetryConflict \/ Crash
      <3>1. retry' = NoRetry BY <2>6 DEF RetryStart, RetryConflict, Crash
      <3> QED BY <1>5, <3>1
    <2>7. CASE UNCHANGED retry BY <1>5, <2>3, <2>7
    <2> QED BY <2>2, <2>4, <2>5, <2>6, <2>7, Steps
          DEF PostDownload, Refresh, List, SkipOccupied, Fetch, Promote, Report, RunEnds,
              ListFails, FetchFails, PromoteFails, RecordRead, RecordWrite, StoreItem, JobEnds, Cancel,
              Restart, PutFile
  <1> QED BY <1>1, <1>2, <1>3, <1>4, <1>5 DEF WorkerInv, Last

LEMMA FetchStep ==
  ASSUME TypeOK, WorkerInv, FetchInv, Next
  PROVE  FetchInv'
  <1> SUFFICES ASSUME worker' = "fetched" PROVE Dest[cur'] \notin files' \/ Dest[cur'] \in added'
    BY DEF FetchInv
  <1> USE DEF process, history
  <1>1. CASE Fetch BY <1>1 DEF Fetch
  <1>2. CASE \E s \in Slots : PutFile(s)
    <2> PICK s \in Slots : PutFile(s) BY <1>2
    <2>1. worker' = worker /\ cur' = cur /\ files' = files \cup {s} /\ added' = added \cup {s}
      BY DEF PutFile
    <2> QED BY <2>1 DEF FetchInv
  <1>3. CASE \E s \in Slots : TakeFile(s)
    <2> PICK s \in Slots : TakeFile(s) BY <1>3
    <2>1. worker' = worker /\ cur' = cur /\ files' = files \ {s} /\ added' = added \ {s}
      BY DEF TakeFile
    <2> QED BY <2>1 DEF FetchInv
  <1>4. CASE UNCHANGED <<worker, cur, files, added>> BY <1>4 DEF FetchInv
  <1> QED BY <1>1, <1>2, <1>3, <1>4, Steps
        DEF PostDownload, StartWorker, Refresh, List, SkipOccupied, Promote, Report, RunEnds, ListFails,
            FetchFails, PromoteFails, RecordRead, RecordWrite, StoreItem, JobEnds, Cancel, Crash, Restart,
            RetryVerify, RetryScan, RetryPut, RetrySelect, RetryStart, RetryConflict

(* The item results a worker has still to write are for a slot that is     *)
(* filled when it starts to write them.                                    *)
LEMMA TellStep ==
  ASSUME Next, worker' = "placed"
  PROVE  \A l \in tell' : Dest[l] \in files' \/ (worker = "placed" /\ l \in tell)
  <1> USE DEF process
  <1>1. CASE SkipOccupied BY <1>1 DEF SkipOccupied, Tells
  <1>2. CASE Promote BY <1>2 DEF Promote, Tells
  <1>3. CASE Report BY <1>3 DEF Report
  <1>4. CASE UNCHANGED <<worker, tell>> BY <1>4
  <1> QED BY <1>1, <1>2, <1>3, <1>4, Steps
        DEF PostDownload, StartWorker, Refresh, List, Fetch, RunEnds, ListFails, FetchFails, PromoteFails,
            RecordRead, RecordWrite, StoreItem, JobEnds, Cancel, Crash, Restart, RetryVerify, RetryScan,
            RetryPut, RetrySelect, RetryStart, RetryConflict, PutFile, TakeFile

LEMMA HonestStep ==
  ASSUME TypeOK, WorkerInv, HonestInv, Next
  PROVE  HonestInv'
  <1> USE DEF row, server, HonestInv, InventoryHonest
  <1>1. Known \subseteq Known' /\ files \subseteq Known /\ files' \subseteq Known'
    BY Memory DEF Known
  <1>2. (shown \cup snap)' \subseteq Known'
    <2>1. CASE Refresh BY <1>1, <2>1 DEF Refresh
    <2>2. CASE RecordWrite
      <3>1. pipe # <<>> /\ Head(pipe) = pipe[1] /\ 1 \in 1..Len(pipe)
        BY <2>2 DEF RecordWrite, WorkerInv, TypeOK
      <3>2. Dest[Head(pipe)] \in Known /\ copy \subseteq Known BY <2>2, <3>1 DEF RecordWrite
      <3> QED BY <1>1, <2>2, <3>2 DEF RecordWrite, Known
    <2>3. CASE RetryPut BY <1>1, <2>3 DEF RetryPut, Known
    <2>4. CASE UNCHANGED <<shown, snap>> BY <1>1, <2>4 DEF Known
    <2> QED BY <2>1, <2>2, <2>3, <2>4, Steps
          DEF PostDownload, List, SkipOccupied, Fetch, Promote, Report, RunEnds, ListFails, FetchFails,
              PromoteFails, RecordRead, StoreItem, JobEnds, Cancel, Crash, Restart, RetryVerify, RetryScan,
              RetrySelect, RetryStart, RetryConflict, PutFile, TakeFile
  <1>3. \A i \in 1..Len(pipe') : Dest[pipe'[i]] \in Known' BY <1>1, PipeStep
  <1>4. worker' = "placed" => \A l \in tell' : Dest[l] \in Known' BY <1>1, TellStep
  <1>5. reader' = "read" => copy' \subseteq Known'
    <2>1. CASE RecordRead BY <1>1, <2>1 DEF RecordRead, Known
    <2>2. CASE UNCHANGED <<reader, copy>> BY <1>1, <2>2
    <2> QED BY <2>1, <2>2, Steps
          DEF PostDownload, Refresh, List, SkipOccupied, Fetch, Promote, Report, RunEnds, ListFails,
              FetchFails, PromoteFails, RecordWrite, StoreItem, JobEnds, Cancel, Crash, Restart,
              RetryVerify, RetryScan, RetryPut, RetrySelect, RetryStart, RetryConflict, PutFile, TakeFile
  <1>6. retry'.at = "scanned" => retry'.seen \subseteq Known'
    <2> USE DEF NoRetry, Retry, TypeOK
    <2>1. CASE RetryScan BY <1>1, <2>1 DEF RetryScan
    <2>2. CASE RetryPut \/ RetrySelect BY <2>2 DEF RetryPut, RetrySelect
    <2>3. CASE (\E j \in 1..MaxJobs : RetryVerify(j)) BY <2>3 DEF RetryVerify
    <2>4. CASE RetryStart \/ RetryConflict \/ Crash
      <3>1. retry' = NoRetry BY <2>4 DEF RetryStart, RetryConflict, Crash
      <3> QED BY <3>1
    <2>5. CASE \E s \in Slots : TakeFile(s) BY <1>1, <2>5 DEF TakeFile
    <2>6. CASE UNCHANGED retry BY <1>1, <2>6
    <2> QED BY <2>1, <2>2, <2>3, <2>4, <2>5, <2>6, Steps
          DEF PostDownload, Refresh, List, SkipOccupied, Fetch, Promote, Report, RunEnds, ListFails,
              FetchFails, PromoteFails, RecordRead, RecordWrite, StoreItem, JobEnds, Cancel, Restart, PutFile
  <1> QED BY <1>2, <1>3, <1>4, <1>5, <1>6 DEF Known

(* A row becomes succeeded when its worker has exited well, and is given   *)
(* the result that is read.                                                *)
LEMMA RowStep ==
  ASSUME TypeOK, WorkerInv, Next, NEW j \in 1..Last
  PROVE  /\ \/ jobs'[j].done = jobs[j].done
            \/ j = Last /\ 1 \in 1..Len(pipe) /\ jobs'[j].done = jobs[j].done \cup {pipe[1]}
         /\ jobs'[j].status = "succeeded" =>
              jobs[j].status = "succeeded" \/ (j = Last /\ worker = "exited" /\ JobEnds)
  <1>1. jobs[j] \in Job BY LastJob
  <1>2. CASE (\E ids \in SUBSET Listings : PostDownload(ids)) \/ RetryStart
    BY <1>2, Admitted
  <1>3. CASE Cancel
    <2>1. jobs'[j] = jobs[j] \/ jobs'[j] = [jobs[j] EXCEPT !.stop = TRUE] BY <1>3, Cancelled
    <2> QED BY <1>1, <2>1 DEF Job
  <1>4. CASE StoreItem
    <2>1. pipe \in Seq(Listings) /\ pipe # <<>> BY <1>4, Stored DEF TypeOK
    <2>2. 1 \in 1..Len(pipe) BY <2>1
    <2>3. jobs'[j] = jobs[j] \/ (j = Last /\ jobs'[j] = [jobs[j] EXCEPT !.done = @ \cup {pipe[1]}])
      BY <1>4, Stored
    <2> QED BY <1>1, <2>2, <2>3 DEF Job
  <1>5. CASE JobEnds
    <2> DEFINE s == IF jobs[Last].stop THEN "cancelled"
                    ELSE IF worker = "exited" THEN "succeeded" ELSE "failed"
    <2>1. s \in Retryable \cup {"succeeded"} /\ (s = "succeeded" => worker = "exited")
          /\ Busy /\ jobs' = [jobs EXCEPT ![Last].status = s]
      BY <1>5 DEF JobEnds, Retryable
    <2> HIDE DEF s
    <2>2. jobs'[j] = jobs[j] \/ (j = Last /\ jobs'[j] = [jobs[j] EXCEPT !.status = s])
      BY <2>1, Ended
    <2> QED BY <1>1, <1>5, <2>1, <2>2 DEF Job
  <1>6. CASE Restart
    <2>1. CASE Busy
      <3>1. jobs' = [jobs EXCEPT ![Last].status = "interrupted"] BY <1>6, <2>1 DEF Restart
      <3>2. jobs'[j] = jobs[j] \/ jobs'[j] = [jobs[j] EXCEPT !.status = "interrupted"]
        BY <2>1, <3>1, Ended DEF Retryable
      <3> QED BY <1>1, <3>2 DEF Job
    <2>2. CASE ~Busy BY <1>6, <2>2 DEF Restart
    <2> QED BY <2>1, <2>2
  <1>7. CASE \E s \in Slots : TakeFile(s)
    <2> PICK s \in Slots : TakeFile(s) BY <1>7
    <2>1. jobs'[j] = [jobs[j] EXCEPT !.lost = @ \cup {s}] BY Taken
    <2> QED BY <1>1, <2>1 DEF Job
  <1>8. CASE UNCHANGED jobs BY <1>8
  <1> QED BY <1>2, <1>3, <1>4, <1>5, <1>6, <1>7, <1>8, Steps
        DEF Refresh, List, SkipOccupied, Fetch, Promote, Report, RunEnds, ListFails, FetchFails,
            PromoteFails, RecordRead, RecordWrite, Crash, RetryVerify, RetryScan, RetryPut,
            RetrySelect, RetryConflict, PutFile

(* Rows are kept: but for an admission there are as many as before.        *)
LEMMA RowsKept ==
  ASSUME TypeOK, WorkerInv, Next
  PROVE  /\ Last \in Nat
         /\ \A j \in 1..Last : jobs'[j].asked = jobs[j].asked /\ jobs'[j].ids = jobs[j].ids
         /\ \/ (\E ids \in SUBSET Listings : PostDownload(ids)) \/ RetryStart
            \/ Last' = Last
  <1>1. CASE SameJobs BY <1>1, LastJob DEF SameJobs, Last
  <1>2. CASE (\E ids \in SUBSET Listings : PostDownload(ids)) \/ RetryStart
    BY <1>2, Admitted
  <1> QED BY <1>1, <1>2, JobsStep

LEMMA PlacedStep ==
  ASSUME TypeOK, WorkerInv, PlacedInv, Next
  PROVE  PlacedInv'
  <1> USE DEF PlacedInv, Kept
  <1>1. CASE (\E ids \in SUBSET Listings : PostDownload(ids)) \/ RetryStart
    <2>1. /\ Last' = Last + 1 /\ Last \in Nat /\ jobs'[Last + 1].done = {} /\ worker' = "listing"
          /\ \A j \in 1..Last : jobs'[j] = jobs[j]
      BY <1>1, Admitted
    <2>2. pipe' = <<>> /\ files' = files
      BY <1>1, Admitted DEF WorkerInv, PostDownload, RetryStart
    <2>3. Len(pipe') = 0 BY <2>2
    <2>4. ASSUME NEW j \in 1..(Last + 1) PROVE At(jobs'[j].done) \subseteq files' \cup jobs'[j].lost
      <3>1. CASE j \in 1..Last BY <2>1, <2>2, <3>1 DEF RecordedIsPlaced
      <3>2. CASE j = Last + 1 BY <2>1, <3>2 DEF At
      <3> QED BY <2>1, <3>1, <3>2
    <2> QED BY <2>1, <2>3, <2>4 DEF RecordedIsPlaced
  <1>2. CASE Last' = Last
    <2>1. Last \in Nat /\ \A j \in 1..Last : Kept(j) \subseteq files' \cup jobs'[j].lost
      BY Memory, RowsKept
    <2>2. ASSUME NEW j \in 1..Last PROVE At(jobs'[j].done) \subseteq files' \cup jobs'[j].lost
      <3>1. At(jobs[j].done) \subseteq files' \cup jobs'[j].lost BY <2>1 DEF RecordedIsPlaced
      <3>2. CASE jobs'[j].done = jobs[j].done BY <3>1, <3>2
      <3>3. CASE j = Last /\ 1 \in 1..Len(pipe) /\ jobs'[j].done = jobs[j].done \cup {pipe[1]}
        <4>1. Dest[pipe[1]] \in files' \cup jobs'[j].lost BY <2>1, <3>3
        <4> QED BY <3>1, <3>3, <4>1 DEF At
      <3> QED BY <3>2, <3>3, RowStep
    <2>3. ASSUME Last > 0
          PROVE  /\ \A i \in 1..Len(pipe') : Dest[pipe'[i]] \in files' \cup jobs'[Last].lost
                 /\ worker' = "placed" => \A l \in tell' : Dest[l] \in files' \cup jobs'[Last].lost
      <3>1. Kept(Last) \subseteq files' \cup jobs'[Last].lost BY <2>1, <2>3
      <3> QED BY <3>1, PipeStep, TellStep
    <2>4. ASSUME ~(Last > 0) PROVE Len(pipe') = 0 /\ worker' # "placed"
      <3>1. ~Busy' BY <1>2, <2>4 DEF Busy
      <3>2. worker' = "off" /\ pipe' = <<>> BY <3>1, WorkerStep DEF WorkerInv
      <3> QED BY <3>2
    <2> QED BY <1>2, <2>2, <2>3, <2>4 DEF RecordedIsPlaced
  <1> QED BY <1>1, <1>2, RowsKept

LEMMA ChainStep ==
  ASSUME TypeOK, WorkerInv, ChainInv, Next
  PROVE  ChainInv'
  <1>1. /\ Last \in Nat
        /\ \A j \in 1..Last : jobs'[j].asked = jobs[j].asked /\ jobs'[j].ids = jobs[j].ids
        /\ \A j \in 1..Last : Kept(j) \subseteq files' \cup jobs'[j].lost
    BY Memory, RowsKept
  <1>2. ASSUME NEW j \in 1..Last, NEW l \in jobs'[j].asked
        PROVE  Dest[l] \in At(jobs'[j].ids) \cup files' \cup jobs'[j].lost
    BY <1>1, <1>2 DEF ChainInv
  <1>3. ASSUME (\E ids \in SUBSET Listings : PostDownload(ids)) \/ RetryStart
        PROVE  /\ Last' = Last + 1
               /\ \A l \in jobs'[Last + 1].asked :
                    Dest[l] \in At(jobs'[Last + 1].ids) \cup files' \cup jobs'[Last + 1].lost
    <2>1. CASE \E ids \in SUBSET Listings : PostDownload(ids)
      <3> PICK ids \in SUBSET Listings : PostDownload(ids) BY <2>1
      <3>1. Last' = Last + 1 /\ jobs'[Last + 1].asked = ids /\ jobs'[Last + 1].ids = ids
        BY Admitted
      <3> QED BY <3>1 DEF At
    <2>2. CASE RetryStart
      <3>1. /\ Last' = Last + 1 /\ jobs'[Last + 1].asked = jobs[retry.of].asked
            /\ jobs'[Last + 1].ids = retry.rest /\ jobs'[Last + 1].lost = retry.lost
        BY <2>2, Admitted
      <3>2. retry.at \in Going /\ Rest = retry.rest /\ files' = files
        BY <2>2 DEF RetryStart, Going, Rest
      <3> QED BY <3>1, <3>2 DEF ChainInv
    <2> QED BY <1>3, <2>1, <2>2
  <1>4. ASSUME retry'.at \in Going
        PROVE  \A l \in jobs'[retry'.of].asked : Dest[l] \in At(Rest') \cup files' \cup retry'.lost
    <2> USE DEF Going, NoRetry, Retry
    <2>1. CASE \E j \in 1..MaxJobs : RetryVerify(j)
      <3> PICK j \in 1..MaxJobs : RetryVerify(j) BY <2>1
      <3> DEFINE kept == jobs[j].done \cap {l \in jobs[j].ids : Dest[l] \in files \ jobs[j].base}
                 lost == jobs[j].lost \ At(jobs[j].ids)
      <3>1. /\ retry' = [NoRetry EXCEPT !.at = "verified", !.of = j, !.kept = kept, !.lost = lost]
            /\ j \in 1..Last /\ jobs' = jobs /\ files' = files
        BY DEF RetryVerify
      <3>2. \A l \in kept : Dest[l] \in files OBVIOUS
      <3>3. \A l \in jobs[j].asked :
              Dest[l] \in At(jobs[j].ids) \cup files \cup jobs[j].lost
        BY <3>1 DEF ChainInv, Kept
      <3>4. \A l \in jobs[j].asked :
              Dest[l] \in At(jobs[j].ids \ kept) \cup files \cup lost
        <4> HIDE DEF kept
        <4> QED BY <3>2, <3>3 DEF At
      <3>5. retry'.at = "verified" /\ retry'.of = j /\ retry'.kept = kept /\ retry'.lost = lost
        <4> HIDE DEF kept, lost
        <4> QED BY <3>1
      <3>6. Rest' = jobs[j].ids \ kept
        <4> HIDE DEF kept, lost
        <4> QED BY <3>1, <3>5 DEF Rest
      <3> QED BY <3>1, <3>4, <3>5, <3>6
    <2>2. CASE RetryScan \/ RetryPut \/ RetrySelect
      <3>1. retry \in Retry /\ retry.at \in Going /\ retry'.of = retry.of /\ retry'.lost = retry.lost
            /\ files' = files /\ jobs' = jobs
        BY <1>4, <2>2 DEF RetryScan, RetryPut, RetrySelect, TypeOK
      <3>2. Rest' = Rest
        <4>1. CASE RetryScan \/ RetryPut
          BY <3>1, <4>1 DEF RetryScan, RetryPut, Rest
        <4>2. CASE RetrySelect
          <5> DEFINE rest == jobs[retry.of].ids \ retry.kept
          <5>1. retry.at = "put" /\ Rest = rest BY <4>2 DEF RetrySelect, Rest
          <5>2. \/ retry' = [retry EXCEPT !.at = "selected", !.seen = {}, !.kept = {},
                                          !.rest = rest, !.base = scan]
                \/ retry' = [NoRetry EXCEPT !.at = "refused"]
            BY <4>2 DEF RetrySelect
          <5> HIDE DEF rest
          <5>3. retry'.at = "selected" /\ retry'.rest = rest BY <1>4, <3>1, <5>2
          <5> QED BY <5>1, <5>3 DEF Rest
        <4> QED BY <2>2, <4>1, <4>2
      <3> QED BY <3>1, <3>2 DEF ChainInv
    <2>3. CASE RetryStart \/ RetryConflict \/ Crash
      <3>1. retry' = NoRetry BY <2>3 DEF RetryStart, RetryConflict, Crash
      <3> QED BY <1>4, <3>1
    <2>4. CASE (\E s \in Slots : TakeFile(s)) \/ UNCHANGED retry
      <3>1. /\ retry.at \in Going /\ retry'.at = retry.at /\ retry'.of = retry.of
            /\ retry'.kept = retry.kept /\ retry'.rest = retry.rest
        BY <1>4, <2>4 DEF TakeFile, TypeOK
      <3>2. retry.of \in 1..Last BY <3>1 DEF WorkerInv
      <3>3. jobs'[retry.of].asked = jobs[retry.of].asked /\ Rest' = Rest
        BY <1>1, <3>1, <3>2 DEF Rest
      <3>4. files \cup retry.lost \subseteq files' \cup retry'.lost
        <4>2. CASE \E j \in 1..MaxJobs : RetryVerify(j)
          BY <3>1, <4>2 DEF RetryVerify
        <4> QED BY <1>4, <3>1, <4>2, Memory
      <3> QED BY <3>1, <3>3, <3>4 DEF ChainInv
    <2> QED BY <2>1, <2>2, <2>3, <2>4, Steps
          DEF PostDownload, Refresh, List, SkipOccupied, Fetch, Promote, Report, RunEnds, ListFails,
              FetchFails, PromoteFails, RecordRead, RecordWrite, StoreItem, JobEnds, Cancel, Restart, PutFile
  <1>5. \A j \in 1..Last' : \A l \in jobs'[j].asked :
          Dest[l] \in At(jobs'[j].ids) \cup files' \cup jobs'[j].lost
    <2> SUFFICES ASSUME NEW j \in 1..Last'
                 PROVE  \A l \in jobs'[j].asked :
                          Dest[l] \in At(jobs'[j].ids) \cup files' \cup jobs'[j].lost
      OBVIOUS
    <2>1. CASE j \in 1..Last BY <1>2, <2>1
    <2>2. CASE j \notin 1..Last
      <3>1. (\E ids \in SUBSET Listings : PostDownload(ids)) \/ RetryStart BY <2>2, RowsKept
      <3>2. j = Last + 1 BY <1>1, <1>3, <2>2, <3>1
      <3> QED BY <1>3, <3>1, <3>2
    <2> QED BY <2>1, <2>2
  <1> QED BY <1>4, <1>5 DEF ChainInv, Kept

LEMMA ProgressStep ==
  ASSUME TypeOK, WorkerInv, ProgressInv, Next
  PROVE  ProgressInv'
  <1> USE DEF process
  <1>1. CASE worker' \in {"next", "fetched", "placed", "exited"}
    <2>1. ~((\E ids \in SUBSET Listings : PostDownload(ids)) \/ RetryStart) BY <1>1, Admitted
    <2>2. Last' = Last /\ Last \in Nat BY <2>1, RowsKept
    <2>3. worker # "off"
      BY <1>1, <2>1, Steps
      DEF Refresh, List, SkipOccupied, Fetch, Promote, Report, RunEnds, ListFails, FetchFails,
          PromoteFails, RecordRead, RecordWrite, StoreItem, JobEnds, Cancel, Crash, Restart,
          RetryVerify, RetryScan, RetryPut, RetrySelect, RetryConflict, PutFile, TakeFile
    <2>4. Last \in 1..Last BY <2>3, LastJob DEF WorkerInv
    <2>5. jobs'[Last].ids = jobs[Last].ids /\ Kept(Last) \subseteq files' \cup jobs'[Last].lost
          /\ files' \subseteq files' \cup jobs'[Last].lost
      BY <2>4, Memory, RowsKept
    <2> DEFINE ids == jobs[Last].ids
               held == files' \cup jobs'[Last].lost
    <2>6. ASSUME ~bad' PROVE \A l \in ids : Dest[l] \in held \cup At(todo') \cup Held'
      <3> SUFFICES ASSUME NEW l \in ids PROVE Dest[l] \in held \cup At(todo') \cup Held' OBVIOUS
      <3>1. CASE List
        <4>1. l \in todo' \/ Dest[l] \in files' BY <3>1 DEF List, Selected
        <4> QED BY <4>1 DEF At
      <3>2. ASSUME worker \in {"next", "fetched", "placed", "exited"}, ~bad
            PROVE  Dest[l] \in held \cup At(todo) \cup Held
        BY <2>5, <3>2 DEF ProgressInv
      <3>3. CASE SkipOccupied \/ Fetch
        <4>1. PICK m \in todo : /\ todo' = todo \ {m} /\ cur' = m /\ worker = "next" /\ bad' = bad
                               /\ \/ Dest[m] \in files'
                                  \/ worker' = "fetched"
          BY <3>3 DEF SkipOccupied, Fetch
        <4>2. Dest[l] \in held \cup At(todo) BY <2>6, <3>2, <4>1 DEF Held
        <4>3. Dest[m] \in held \cup Held' BY <4>1 DEF Held
        <4> QED BY <4>1, <4>2, <4>3 DEF At
      <3>4. CASE Promote
        <4>1. worker = "fetched" /\ bad' = bad /\ todo' = todo /\ Dest[cur] \in files'
          BY <3>4 DEF Promote
        <4> QED BY <2>6, <3>2, <4>1 DEF Held
      <3>5. CASE Report \/ RunEnds
        <4>1. worker \in {"next", "placed"} /\ bad' = bad /\ todo' = todo
          BY <3>5 DEF Report, RunEnds
        <4> QED BY <2>6, <3>2, <4>1 DEF Held
      <3>6. CASE UNCHANGED process
        BY <1>1, <2>6, <3>2, <3>6 DEF Held
      <3> QED BY <1>1, <2>1, <2>6, <3>1, <3>3, <3>4, <3>5, <3>6, Steps
            DEF Refresh, ListFails, FetchFails, PromoteFails, RecordRead, RecordWrite, StoreItem, JobEnds,
                Cancel, Crash, Restart, RetryVerify, RetryScan, RetryPut, RetrySelect, RetryConflict,
                PutFile, TakeFile
    <2>7. worker' = "exited" => ~bad' /\ todo' = {}
      <3>1. CASE RunEnds BY <3>1 DEF RunEnds, TypeOK
      <3>2. CASE UNCHANGED process BY <3>2 DEF ProgressInv
      <3> QED BY <2>1, <3>1, <3>2, Steps
            DEF Refresh, List, SkipOccupied, Fetch, Promote, Report, ListFails, FetchFails, PromoteFails,
                RecordRead, RecordWrite, StoreItem, JobEnds, Cancel, Crash, Restart, RetryVerify,
                RetryScan, RetryPut, RetrySelect, RetryConflict, PutFile, TakeFile
    <2> QED BY <2>2, <2>5, <2>6, <2>7 DEF ProgressInv, Kept
  <1>2. CASE worker' \notin {"next", "fetched", "placed", "exited"} BY <1>2 DEF ProgressInv
  <1> QED BY <1>1, <1>2

LEMMA SuccessStep ==
  ASSUME TypeOK, WorkerInv, ChainInv, ProgressInv, SuccessIsComplete, Next
  PROVE  SuccessIsComplete'
  <1> SUFFICES ASSUME NEW j \in 1..Last', jobs'[j].status = "succeeded"
               PROVE  At(jobs'[j].asked) \subseteq files' \cup jobs'[j].lost
    BY DEF SuccessIsComplete
  <1>1. CASE j \in 1..Last
    <2>1. Kept(j) \subseteq files' \cup jobs'[j].lost /\ jobs'[j].asked = jobs[j].asked
      BY <1>1, Memory, RowsKept
    <2>2. At(jobs[j].asked) \subseteq Kept(j)
      <3>1. CASE jobs[j].status = "succeeded" BY <1>1, <3>1 DEF SuccessIsComplete, Kept
      <3>2. CASE j = Last /\ worker = "exited"
        <4>1. \A l \in jobs[j].ids : Dest[l] \in Kept(j)
          BY <3>2 DEF ProgressInv, Held, At
        <4>2. \A l \in jobs[j].asked : Dest[l] \in At(jobs[j].ids) \cup Kept(j)
          BY <1>1 DEF ChainInv
        <4> QED BY <4>1, <4>2 DEF At
      <3> QED BY <1>1, <3>1, <3>2, RowStep
    <2> QED BY <2>1, <2>2
  <1>2. CASE j \notin 1..Last
    <2>1. (\E ids \in SUBSET Listings : PostDownload(ids)) \/ RetryStart BY <1>2, RowsKept
    <2>2. Last' = Last + 1 /\ Last \in Nat /\ Busy' BY <2>1, Admitted
    <2>3. j = Last' BY <1>2, <2>2
    <2> QED BY <2>2, <2>3 DEF Busy
  <1> QED BY <1>1, <1>2

LEMMA Stutter == ASSUME IInv, UNCHANGED vars PROVE IInv'
  <1> USE DEF vars, row, process, server, history
  <1>1. Last' = Last /\ Busy' = Busy /\ Known' = Known BY DEF Last, Busy, Known
  <1>2. TypeOK' BY DEF IInv, TypeOK
  <1>3. WorkerInv' BY <1>1 DEF IInv, WorkerInv
  <1>4. FetchInv' /\ HonestInv' BY <1>1 DEF IInv, FetchInv, HonestInv, InventoryHonest
  <1>5. PlacedInv' BY <1>1 DEF IInv, PlacedInv, RecordedIsPlaced, Kept
  <1>6. ChainInv' BY <1>1 DEF IInv, ChainInv, Kept, Rest
  <1>7. ProgressInv' BY <1>1 DEF IInv, ProgressInv, Kept, Held
  <1>8. SuccessIsComplete' BY <1>1 DEF IInv, SuccessIsComplete
  <1> QED BY <1>2, <1>3, <1>4, <1>5, <1>6, <1>7, <1>8 DEF IInv

LEMMA InvStep == IInv /\ [Next]_vars => IInv'
  <1> SUFFICES ASSUME IInv, Next PROVE IInv' BY Stutter
  <1> USE DEF IInv
  <1>1. TypeOK' /\ WorkerInv' BY TypeStep, WorkerStep
  <1>2. FetchInv' /\ HonestInv' /\ PlacedInv' BY FetchStep, HonestStep, PlacedStep
  <1>3. ChainInv' /\ ProgressInv' /\ SuccessIsComplete' BY ChainStep, ProgressStep, SuccessStep
  <1> QED BY <1>1, <1>2, <1>3

-----------------------------------------------------------------------------
(***************************************************************************)
(* The theorems.                                                           *)
(***************************************************************************)
LEMMA Invariance == Spec => []IInv
  BY InitInv, InvStep, PTL DEF Spec

(* The rows, the pipe, the worker and the retry under way are always well  *)
(* formed, however many jobs, retries and crashes there are.               *)
THEOREM TypeCorrect == Spec => []TypeOK
  <1>1. IInv => TypeOK BY DEF IInv
  <1> QED BY <1>1, Invariance, PTL

(* A job that succeeded, through whatever retries, leaves in the library   *)
(* each episode its first selection asked for (app.py:1869), but for those *)
(* the user took out.                                                      *)
THEOREM SuccessComplete == Spec => []SuccessIsComplete
  <1>1. IInv => SuccessIsComplete BY DEF IInv
  <1> QED BY <1>1, Invariance, PTL

(* A succeeded row is a file (dropout.py:848): item results follow the     *)
(* rename that places the episode.                                         *)
THEOREM RecordsArePlaced == Spec => []RecordedIsPlaced
  <1>1. IInv => RecordedIsPlaced BY DEF IInv, PlacedInv
  <1> QED BY <1>1, Invariance, PTL

(* What the queue no longer offers is in the library, unless the user took *)
(* it out, whatever retries and recorded downloads write over each other's *)
(* rows (jobs.py:613).                                                     *)
THEOREM InventoryIsHonest == Spec => []InventoryHonest
  <1>1. IInv => InventoryHonest BY DEF IInv, HonestInv
  <1> QED BY <1>1, Invariance, PTL

(* No download replaces an episode but one the user put in its slot while  *)
(* it was fetched (dropout.py:767).                                        *)
THEOREM OverwritesNothing == Spec => NothingOverwritten
  <1>1. IInv /\ [Next]_vars =>
          [worker = "fetched" /\ worker' = "placed" =>
             Dest[cur] \notin files \/ Dest[cur] \in added]_vars
    BY DEF IInv, FetchInv
  <1> QED BY <1>1, Invariance, PTL DEF Spec, NothingOverwritten

=============================================================================
