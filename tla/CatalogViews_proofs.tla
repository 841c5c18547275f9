------------------------ MODULE CatalogViews_proofs ------------------------
(***************************************************************************)
(* Theorems about CatalogViews for any sources and slots and any number of *)
(* edits and jobs.                                                         *)
(***************************************************************************)
EXTENDS CatalogViews, TLAPS

-----------------------------------------------------------------------------
(***************************************************************************)
(* The inductive invariant.  What a record of an unfinished request or job *)
(* holds depends on how far it has come.                                   *)
(***************************************************************************)

(* replan_cached has read a ready view and a show.                         *)
EditInv ==
  edit # None /\ edit.stage = "put" =>
    edit.base \in Views /\ edit.base.fresh = "ready" /\ edit.series \in Configs

(* The worker of a refresh: the show it located, the revision it read and  *)
(* the ready view it made.                                                 *)
Later == {"fetched", "checked", "applied", "ready"}
WorkInv ==
  job # None /\ job.kind = "refresh" =>
    /\ job.stage \in {"located", "revised"} => work.series \in Configs
    /\ job.stage = "revised" => work.rev \in Configs
    /\ job.stage \in Later => /\ work.series \in Configs
                              /\ work.view \in Views /\ work.view.fresh = "ready"
    /\ job.stage = "published" => work.view \in Views

(* A download has a selection, and is never started by GET /api/queue.     *)
SelInv ==
  /\ job # None /\ job.kind = "download" => sel # None /\ job.by # "queue"
  /\ retry # None /\ retry.stage = "selected" => retry.sel # None

(* A refresh that was asked for, and during which nobody edited the YAML by*)
(* hand, has read one configuration throughout: the one in force, but for  *)
(* the season it adds to it itself.                                        *)
Proposed == IF work.found THEN [cfg EXCEPT !.seen = TRUE] ELSE cfg
ReadOneConfig ==
  /\ job.stage \in {"located", "revised"} => work.series = cfg
  /\ job.stage = "revised" => work.rev = cfg
  /\ job.stage \in {"fetched", "checked"} =>
       /\ cfg \in Configs /\ work.series = Proposed /\ work.view.rev = cfg
       /\ work.found => work.hash = cfg
  /\ job.stage = "checked" => work.found
  /\ job.stage \in {"applied", "ready"} => work.series = cfg
  /\ job.stage = "ready" => work.view.rev = cfg
  /\ job.stage \in Later /\ Lists => work.view.made = {work.series}
Asked == job # None /\ job.kind = "refresh" /\ job.by = "post" /\ ~touched
ExactInv == Asked => ReadOneConfig

IInv ==
  /\ TypeOK /\ EditInv /\ WorkInv /\ SelInv /\ EditExcludesJobs
  /\ ExactInv /\ DownloadedAsAdmitted /\ AskedRefreshIsExact

-----------------------------------------------------------------------------
(***************************************************************************)
(* Values.                                                                 *)
(***************************************************************************)
LEMMA Names == None # Absent /\ None \notin Configs /\ Absent \notin Configs
  BY ConfigsAssumption

LEMMA ConfigFields ==
  ASSUME NEW c \in Configs
  PROVE  /\ Sig(c) \in [src : Sources, seen : BOOLEAN]
         /\ [c EXCEPT !.seen = TRUE] \in Configs
  BY DEF Configs, Sig

LEMMA ReadyView ==
  ASSUME NEW rev \in Configs, NEW made \in SUBSET Configs,
         NEW sig \in [src : Sources, seen : BOOLEAN], NEW whole \in BOOLEAN
  PROVE  /\ Ready(rev, made, sig, whole) \in Views
         /\ Ready(rev, made, sig, whole).fresh = "ready"
         /\ Ready(rev, made, sig, whole).rev = rev
         /\ Ready(rev, made, sig, whole).made = made
  BY DEF Ready, Views

LEMMA UnavailableView == Unavailable \in Views
  BY DEF Unavailable, Views

LEMMA StoreUpdates ==
  ASSUME NEW v \in Views \cup {None}
  PROVE  /\ Attempted(v) \in Views
         /\ Invalidated(v) \in Views \cup {None}
         /\ v # None => /\ [v EXCEPT !.fresh = "ready", !.good = TRUE] \in Views
                        /\ [v EXCEPT !.fresh = "ready", !.good = TRUE].fresh = "ready"
  BY UnavailableView DEF Attempted, Invalidated, Views

LEMMA RemapType ==
  ASSUME NEW base \in Views, NEW rev \in Configs, NEW series \in Configs
  PROVE  LET v == [base EXCEPT !.rev = rev, !.made = IF @ = {} THEN {} ELSE {series}]
         IN  v \in Views /\ v.fresh = base.fresh
  BY DEF Views

LEMMA FreshWorkType == FreshWork \in Works
  BY DEF FreshWork, Works

LEMMA InitInv == Init => IInv
  <1> SUFFICES ASSUME Init PROVE IInv OBVIOUS
  <1>1. CfgType
    <2>1. cfg \in Found /\ touched \in BOOLEAN BY DEF Init
    <2>2. writes \in 0..MaxWrites BY BoundsAssumption DEF Init
    <2> QED BY <2>1, <2>2 DEF CfgType
  <1>2. ViewType
    <2>1. \A c \in Unseen : Ready(c, {c}, Sig(c), TRUE) \in Views
      <3> SUFFICES ASSUME NEW c \in Unseen PROVE Ready(c, {c}, Sig(c), TRUE) \in Views OBVIOUS
      <3>1. c \in Configs /\ {c} \in SUBSET Configs BY DEF Unseen
      <3> QED BY <3>1, ReadyView, ConfigFields
    <2> QED BY <2>1 DEF Init, ViewType
  <1>3. EditType /\ SelType /\ RetryType BY DEF Init, EditType, SelType, RetryType
  <1>4. JobType BY BoundsAssumption DEF Init, JobType
  <1>5. WorkType BY FreshWorkType DEF Init, WorkType
  <1>6. TypeOK BY <1>1, <1>2, <1>3, <1>4, <1>5 DEF TypeOK
  <1>7. job = None /\ edit = None /\ retry = None BY DEF Init
  <1> QED BY <1>6, <1>7 DEF IInv, EditInv, WorkInv, SelInv, EditExcludesJobs, ExactInv, Asked,
             DownloadedAsAdmitted, AskedRefreshIsExact, At

-----------------------------------------------------------------------------
(***************************************************************************)
(* Types.                                                                  *)
(***************************************************************************)
LEMMA StageType ==
  ASSUME NEW stage \in RefreshStages, job \in Jobs
  PROVE  LET j == [job EXCEPT !.stage = stage] IN
         /\ j \in Jobs
         /\ j.stage = stage /\ j.kind = job.kind /\ j.by = job.by
         /\ j.parts = job.parts /\ j.scope = job.scope
  BY DEF Jobs

LEMMA EditTypes ==
  ASSUME IInv, EditStep
  PROVE  TypeOK'
  <1> USE DEF TypeOK, CfgType, ViewType, EditType, JobType, WorkType, SelType, RetryType,
              viewVars, jobVars
  <1>1. ASSUME NEW kind \in EditKinds, NEW to \in Found, EditBegin(kind, to) PROVE TypeOK'
    BY <1>1 DEF IInv, EditBegin, Edits
  <1>2. CASE EditWrite
    <2>1. cfg' \in Found BY <1>2 DEF IInv, EditWrite, Edits
    <2>2. writes' \in 0..MaxWrites BY <1>2, BoundsAssumption DEF IInv, EditWrite
    <2>3. edit' \in Edits \cup {None} BY <1>2 DEF IInv, EditWrite, Edits
    <2> QED BY <1>2, <2>1, <2>2, <2>3 DEF IInv, EditWrite
  <1>3. CASE EditSettle
    BY <1>3, StoreUpdates DEF IInv, EditSettle
  <1>4. CASE ReplanRead
    <2>1. view' \in Views \cup {None} BY <1>4, StoreUpdates DEF IInv, ReplanRead
    <2>2. edit' \in Edits \cup {None} BY <1>4 DEF IInv, ReplanRead, Edits, Remappable, HasRows, Found, ShowFound
    <2> QED BY <1>4, <2>1, <2>2 DEF IInv, ReplanRead
  <1>5. CASE ReplanPut
    <2>1. view' \in Views \cup {None}
      <3>1. CASE ~ShowFound BY <1>5, <3>1 DEF IInv, ReplanPut
      <3>2. CASE ShowFound
        <4>1. edit.base \in Views /\ edit.series \in Configs /\ cfg \in Configs
          BY <1>5, <3>2 DEF IInv, ReplanPut, EditInv, ShowFound, Found
        <4>2. view' = [edit.base EXCEPT !.rev = cfg,
                                        !.made = IF @ = {} THEN {} ELSE {edit.series}]
          BY <1>5, <3>2 DEF ReplanPut
        <4>3. [edit.base EXCEPT !.rev = cfg, !.made = IF @ = {} THEN {} ELSE {edit.series}] \in Views
          BY <4>1, RemapType
        <4> QED BY <4>2, <4>3
      <3> QED BY <3>1, <3>2
    <2> QED BY <1>5, <2>1 DEF IInv, ReplanPut
  <1>6. CASE EditFails BY <1>6 DEF IInv, EditFails
  <1>7. ASSUME NEW to \in Found, HandEdit(to) PROVE TypeOK'
    <2>1. writes' \in 0..MaxWrites BY <1>7, BoundsAssumption DEF IInv, HandEdit
    <2>2. touched' \in BOOLEAN BY <1>7 DEF IInv, HandEdit
    <2>3. cfg' \in Found BY <1>7 DEF IInv, HandEdit
    <2> QED BY <1>7, <2>1, <2>2, <2>3 DEF IInv, HandEdit
  <1> QED BY <1>1, <1>2, <1>3, <1>4, <1>5, <1>6, <1>7 DEF EditStep

LEMMA BeginType ==
  ASSUME TypeOK, NEW kind \in {"refresh", "download"}, NEW by \in {"post", "queue", "retry"},
         NEW parts \in PartSets, NEW scope \in {"show", "source"},
         NEW expect \in Configs \cup {None}, Begin(kind, by, parts, scope, expect)
  PROVE  JobType' /\ WorkType' /\ touched' \in BOOLEAN
  <1>1. jobs' \in 0..MaxJobs BY BoundsAssumption DEF TypeOK, JobType, Begin
  <1>2. job' \in Jobs \cup {None} BY DEF Begin, Jobs, RefreshStages
  <1>3. touched' \in BOOLEAN BY DEF Begin
  <1>4. work' \in Works BY FreshWorkType DEF Begin
  <1> QED BY <1>1, <1>2, <1>3, <1>4 DEF JobType, WorkType

LEMMA AdmissionTypes ==
  ASSUME IInv, AdmissionStep
  PROVE  TypeOK'
  <1> USE DEF TypeOK, CfgType, ViewType, EditType, SelType, RetryType, viewVars
  <1>1. ASSUME NEW parts \in PartSets, NEW scope \in {"show", "source"},
               NEW expect \in Configs \cup {None}, PostRefresh(parts, scope, expect)
        PROVE  TypeOK'
    <2>1. JobType' /\ WorkType' /\ touched' \in BOOLEAN
      BY <1>1, BeginType DEF IInv, PostRefresh
    <2> QED BY <1>1, <2>1 DEF IInv, PostRefresh
  <1>2. CASE QueueRefresh
    <2>1. JobType' /\ WorkType' /\ touched' \in BOOLEAN
      BY <1>2, BeginType DEF IInv, QueueRefresh, PartSets
    <2> QED BY <1>2, <2>1 DEF IInv, QueueRefresh
  <1>3. ASSUME NEW row \in Configs, PostDownload(row) PROVE TypeOK'
    <2>1. JobType' /\ WorkType' /\ touched' \in BOOLEAN
      BY <1>3, BeginType DEF IInv, PostDownload, PartSets
    <2>2. sel' \in Selections BY <1>3 DEF IInv, PostDownload, Offered, HasRows, Selections
    <2> QED BY <1>3, <2>1, <2>2 DEF IInv, PostDownload
  <1>4. CASE Hydrate BY <1>4 DEF IInv, Hydrate, jobVars, JobType, WorkType
  <1> QED BY <1>1, <1>2, <1>3, <1>4 DEF AdmissionStep

LEMMA MergedType ==
  ASSUME NEW v \in Views, ViewType
  PROVE  /\ Merged(v) \in Views /\ Merged(v).fresh = v.fresh /\ Merged(v).rev = v.rev
         /\ v.made \subseteq Merged(v).made
  <1>1. CASE HasRows(view) /\ view.fresh = "ready" /\ view.rev = v.rev /\ view.whole
    <2>1. view \in Views BY <1>1 DEF ViewType, HasRows
    <2> QED BY <1>1, <2>1 DEF Merged, Views
  <1>2. CASE ~(HasRows(view) /\ view.fresh = "ready" /\ view.rev = v.rev /\ view.whole)
    BY <1>2 DEF Merged, Views
  <1> QED BY <1>1, <1>2

(* What the worker hands over: a ready view of the revision it read.       *)
LEMMA FetchedView ==
  ASSUME IInv, NEW found \in BOOLEAN, Fetch(found)
  PROVE  /\ work' \in Works /\ work'.view \in Views /\ work'.view.fresh = "ready"
         /\ work'.view.rev = work.rev /\ work'.found = found
         /\ work'.series = IF found THEN [work.series EXCEPT !.seen = TRUE] ELSE work.series
         /\ work'.series \in Configs
         /\ work'.hash = IF found THEN cfg ELSE None
         /\ Lists => work'.view.made = {work'.series}
  <1> DEFINE series == IF found THEN [work.series EXCEPT !.seen = TRUE] ELSE work.series
             cached == IF HasRows(work.cached) THEN work.cached ELSE Unavailable
             made == IF Lists THEN {series} ELSE cached.made
             whole == IF Lists THEN job.scope = "show" ELSE cached.whole
             v == Ready(work.rev, made, Sig(series), whole)
  <1>1. work.series \in Configs /\ work.rev \in Configs
    BY DEF IInv, WorkInv, Fetch, At
  <1>2. series \in Configs BY <1>1, ConfigFields
  <1>3. cached \in Views
    BY UnavailableView DEF IInv, TypeOK, WorkType, Works, HasRows
  <1>4. made \in SUBSET Configs /\ whole \in BOOLEAN BY <1>2, <1>3 DEF Views
  <1>5. Sig(series) \in [src : Sources, seen : BOOLEAN] BY <1>2, ConfigFields
  <1> HIDE DEF series, made, whole
  <1>6. v \in Views /\ v.fresh = "ready" /\ v.rev = work.rev /\ v.made = made
    BY <1>1, <1>4, <1>5, ReadyView
  <1> HIDE DEF v
  <1>7. work' = [FreshWork EXCEPT !.series = series, !.found = found,
                                  !.hash = IF found THEN cfg ELSE None, !.view = v]
    BY DEF Fetch, series, made, whole, v
  <1>8. cfg \in Found BY DEF IInv, TypeOK, CfgType
  <1>9. /\ work' \in Works /\ work'.view = v /\ work'.found = found /\ work'.series = series
        /\ work'.hash = IF found THEN cfg ELSE None
    BY <1>2, <1>6, <1>7, <1>8 DEF FreshWork, Works
  <1> QED BY <1>2, <1>6, <1>9 DEF series, made

LEMMA NoJobType == NoJob => job' = None /\ work' \in Works /\ sel' = None
  BY FreshWorkType DEF NoJob

LEMMA RefreshTypes ==
  ASSUME IInv, RefreshStep
  PROVE  TypeOK'
  <1> USE DEF TypeOK, ViewType, EditType, JobType, WorkType, SelType, RetryType, viewVars
  <1>0. JobUnchanged => CfgType' /\ EditType' /\ RetryType' /\ jobs' \in 0..MaxJobs
                        /\ old' \in Selections \cup {None}
    BY DEF IInv, JobUnchanged, CfgType
  <1>a. ASSUME NEW stage \in RefreshStages, To(stage), job # None PROVE job' \in Jobs
    BY <1>a, StageType DEF IInv, To
  <1>1. CASE Spawn
    <2>1. job' \in Jobs BY <1>1, <1>a DEF Spawn, At, RefreshStages
    <2>2. work' \in Works BY <1>1 DEF IInv, Spawn, Works
    <2> QED BY <1>0, <1>1, <2>1, <2>2 DEF IInv, Spawn
  <1>2. CASE Locate
    <2>1. job' \in Jobs BY <1>2, <1>a DEF Locate, At, RefreshStages
    <2>2. work' \in Works BY <1>2 DEF IInv, Locate, Works, ShowFound, CfgType, Found
    <2> QED BY <1>0, <1>2, <2>1, <2>2 DEF IInv, Locate
  <1>3. CASE Revise
    <2>1. job' \in Jobs BY <1>3, <1>a DEF Revise, At, RefreshStages
    <2>2. work' \in Works BY <1>3 DEF IInv, Revise, Works, ShowFound, CfgType, Found
    <2> QED BY <1>0, <1>3, <2>1, <2>2 DEF IInv, Revise
  <1>4. ASSUME NEW found \in BOOLEAN, Fetch(found) PROVE TypeOK'
    <2>1. job' \in Jobs BY <1>4, <1>a DEF Fetch, At, RefreshStages
    <2>2. work' \in Works BY <1>4, FetchedView
    <2> QED BY <1>0, <1>4, <2>1, <2>2 DEF IInv, Fetch
  <1>5. CASE PublishCheck
    <2>1. job' \in Jobs BY <1>5, <1>a DEF PublishCheck, At, RefreshStages
    <2> QED BY <1>0, <1>5, <2>1 DEF IInv, PublishCheck
  <1>6. CASE ApplyUpdates
    <2>1. job' \in Jobs BY <1>6, <1>a DEF ApplyUpdates, At, RefreshStages
    <2>2. cfg' \in Found BY <1>6 DEF IInv, ApplyUpdates, At, WorkInv, Later, Found
    <2> QED BY <1>6, <2>1, <2>2 DEF IInv, ApplyUpdates, CfgType
  <1>7. CASE RevisePublished
    <2>1. job' \in Jobs BY <1>7, <1>a DEF RevisePublished, At, RefreshStages
    <2>2. cfg \in Configs /\ work.view \in Views
      BY <1>7 DEF IInv, RevisePublished, At, WorkInv, Later, ShowFound, CfgType, Found
    <2>3. [work.view EXCEPT !.rev = cfg] \in Views BY <2>2 DEF Views
    <2>4. work' \in Works BY <1>7, <2>3 DEF IInv, RevisePublished, Works
    <2> QED BY <1>0, <1>7, <2>1, <2>4 DEF IInv, RevisePublished
  <1>8. CASE Put
    <2>1. job' \in Jobs BY <1>8, <1>a DEF Put, At, RefreshStages
    <2>2. work.view \in Views BY <1>8 DEF IInv, Put, At, WorkInv, Later
    <2>3. view' \in Views BY <1>8, <2>2, MergedType DEF IInv, Put
    <2>4. work' \in Works BY <1>8, <2>3 DEF IInv, Put, Works
    <2> QED BY <1>0, <1>8, <2>1, <2>3, <2>4 DEF IInv, Put
  <1>9. CASE SonarrPut
    <2>1. job' \in Jobs BY <1>9, <1>a DEF SonarrPut, At, RefreshStages
    <2>2. view' \in Views BY <1>9, StoreUpdates DEF IInv, SonarrPut, HasRows
    <2>3. work' \in Works BY <1>9, <2>2 DEF IInv, SonarrPut, Works
    <2> QED BY <1>0, <1>9, <2>1, <2>2, <2>3 DEF IInv, SonarrPut
  <1>10. CASE WriteSnapshot
    <2>1. snap' \in Views BY <1>10 DEF IInv, WriteSnapshot, At, WorkInv
    <2> QED BY <1>0, <1>10, <2>1, NoJobType DEF IInv, WriteSnapshot
  <1>11. CASE RefreshFails
    <2>1. view' \in Views \cup {None} BY <1>11, StoreUpdates DEF IInv, RefreshFails
    <2> QED BY <1>0, <1>11, <2>1, NoJobType DEF IInv, RefreshFails
  <1> QED BY <1>1, <1>2, <1>3, <1>4, <1>5, <1>6, <1>7, <1>8, <1>9, <1>10, <1>11
         DEF RefreshStep

LEMMA OtherTypes ==
  ASSUME IInv, DownloadStep \/ RetryStep \/ Crash
  PROVE  TypeOK'
  <1> USE DEF TypeOK, CfgType, ViewType, EditType, JobType, WorkType, SelType, RetryType, viewVars
  <1>a. ASSUME NEW stage \in RefreshStages, To(stage), job # None PROVE job' \in Jobs
    BY <1>a, StageType DEF IInv, To
  <1>1. CASE DownloadCheck
    <2>1. job' \in Jobs BY <1>1, <1>a DEF DownloadCheck, At, RefreshStages
    <2> QED BY <1>1, <2>1 DEF IInv, DownloadCheck, JobUnchanged
  <1>2. CASE PlanDownload
    <2>1. job' \in Jobs BY <1>2, <1>a DEF PlanDownload, At, RefreshStages
    <2>2. work' \in Works BY <1>2 DEF IInv, PlanDownload, Works, ShowFound, Found
    <2> QED BY <1>2, <2>1, <2>2 DEF IInv, PlanDownload, JobUnchanged
  <1>3. CASE PlaceFile BY <1>3, NoJobType DEF IInv, PlaceFile
  <1>4. CASE DownloadFails BY <1>4, NoJobType DEF IInv, DownloadFails
  <1>5. CASE RetryScan BY <1>5 DEF IInv, RetryScan, jobVars, Retries
  <1>6. CASE RetryPut
    <2>1. old.view \in Views /\ old.view # None
      BY <1>6, NoneAssumption DEF IInv, RetryPut, Selections
    <2>2. [old.view EXCEPT !.fresh = "ready", !.good = TRUE] \in Views BY <2>1, StoreUpdates
    <2>3. view' \in Views BY <1>6, <2>2 DEF RetryPut
    <2>4. retry' \in Retries BY <1>6 DEF IInv, RetryPut, Retries
    <2> QED BY <1>6, <2>3, <2>4 DEF IInv, RetryPut, jobVars
  <1>7. ASSUME NEW row \in Configs, RetrySelect(row) PROVE TypeOK'
    <2>1. retry'.sel \in Selections /\ retry' = [stage |-> "selected", sel |-> retry'.sel]
      BY <1>7 DEF IInv, RetrySelect, Offered, HasRows, Selections
    <2> QED BY <1>7, <2>1 DEF IInv, RetrySelect, jobVars, Retries
  <1>8. CASE RetryStart
    <2>1. JobType' /\ WorkType' /\ touched' \in BOOLEAN
      BY <1>8, BeginType DEF IInv, RetryStart, PartSets
    <2> QED BY <1>8, <2>1 DEF IInv, RetryStart, Retries
  <1>9. CASE RetryRefused BY <1>9 DEF IInv, RetryRefused, jobVars
  <1>10. CASE Crash BY <1>10, NoJobType DEF IInv, Crash
  <1> QED BY <1>1, <1>2, <1>3, <1>4, <1>5, <1>6, <1>7, <1>8, <1>9, <1>10
         DEF DownloadStep, RetryStep

LEMMA TypeStep == IInv /\ Next => TypeOK'
  BY EditTypes, AdmissionTypes, RefreshTypes, OtherTypes DEF Next

-----------------------------------------------------------------------------
(***************************************************************************)
(* Edits and jobs.                                                         *)
(***************************************************************************)
LEMMA StageKept ==
  ASSUME IInv, NEW stage \in RefreshStages, job # None, To(stage)
  PROVE  /\ job' # None /\ job'.stage = stage /\ job'.kind = job.kind /\ job'.by = job.by
         /\ job'.parts = job.parts /\ job'.scope = job.scope
  <1>1. job \in Jobs /\ job' = [job EXCEPT !.stage = stage] BY DEF To, IInv, TypeOK, JobType
  <1>2. job' # None BY <1>1, StageType, NoneAssumption
  <1> QED BY <1>1, <1>2, StageType

(* What a step that only works on the job leaves as it is.                 *)
LEMMA JobSteps ==
  ASSUME RefreshStep \/ DownloadStep
  PROVE  /\ edit' = edit /\ retry' = retry /\ touched' = touched /\ job # None
         /\ job' = None \/ \E stage \in RefreshStages : To(stage) /\ stage # "queued"
  BY DEF RefreshStep, DownloadStep, Spawn, Locate, Revise, Fetch, PublishCheck, ApplyUpdates,
         RevisePublished, Put, SonarrPut, WriteSnapshot, RefreshFails, DownloadCheck,
         PlanDownload, PlaceFile, DownloadFails, NoJob, JobUnchanged, At, RefreshStages

LEMMA OtherSteps ==
  /\ AdmissionStep => edit' = edit /\ retry' = retry
  /\ RetryStep => edit' = edit
  /\ EditStep => UNCHANGED <<job, work, sel, retry>>
  /\ Crash => job' = None /\ edit' = None /\ retry' = None
  BY DEF AdmissionStep, RetryStep, EditStep, Crash, PostRefresh, QueueRefresh, PostDownload,
         Hydrate, RetryScan, RetryPut, RetryStart, RetryRefused, RetrySelect, EditBegin,
         EditWrite, EditSettle, ReplanRead, ReplanPut, EditFails, HandEdit, NoJob, jobVars

LEMMA EditStepInv == IInv /\ Next => EditInv'
  <1> SUFFICES ASSUME IInv, Next PROVE EditInv' OBVIOUS
  <1>1. CASE edit' = edit BY <1>1 DEF IInv, EditInv
  <1>2. CASE edit' = None BY <1>2 DEF EditInv
  <1>3. ASSUME NEW kind \in EditKinds, NEW to \in Found, EditBegin(kind, to) PROVE EditInv'
    BY <1>3 DEF EditBegin, EditInv
  <1>4. CASE EditWrite BY <1>4 DEF IInv, TypeOK, EditType, Edits, EditWrite, EditInv
  <1>5. CASE ReplanRead
    BY <1>5 DEF IInv, TypeOK, EditType, ViewType, CfgType, Edits, ReplanRead, EditInv, Remappable,
                HasRows, ShowFound, Found
  <1>6. CASE EditSettle \/ ReplanPut \/ EditFails
    BY <1>2, <1>6 DEF EditSettle, ReplanPut, EditFails
  <1>7. ASSUME NEW to \in Found, HandEdit(to) PROVE EditInv' BY <1>1, <1>7 DEF HandEdit
  <1>8. CASE EditStep BY <1>3, <1>4, <1>5, <1>6, <1>7, <1>8 DEF EditStep
  <1> QED BY <1>1, <1>2, <1>8, JobSteps, OtherSteps DEF Next

(* A job begins queued, with its own origin.                               *)
LEMMA BeginFields ==
  ASSUME NEW kind, NEW by, NEW parts, NEW scope, NEW expect, Begin(kind, by, parts, scope, expect)
  PROVE  /\ job' # None => /\ job'.kind = kind /\ job'.by = by /\ job'.stage = "queued"
         /\ job = None
  BY DEF Begin

LEMMA AdmittedFields ==
  ASSUME AdmissionStep \/ RetryStep
  PROVE  \/ UNCHANGED <<job, work, sel, cfg, touched>>
         \/ /\ job' # None =>
                 /\ job'.stage = "queued"
                 /\ job'.kind = "download" => job'.by # "queue"
                 /\ edit = None \/ job'.by = "queue"
            /\ job = None
  <1>1. ASSUME NEW parts, NEW scope, NEW expect, PostRefresh(parts, scope, expect)
        PROVE  /\ job' # None => job'.stage = "queued" /\ job'.kind = "refresh" /\ edit = None
               /\ job = None
    BY <1>1, BeginFields DEF PostRefresh
  <1>2. QueueRefresh => /\ job' # None => /\ job'.stage = "queued" /\ job'.kind = "refresh"
                                          /\ job'.by = "queue"
                        /\ job = None
    BY BeginFields DEF QueueRefresh
  <1>3. ASSUME NEW row, PostDownload(row)
        PROVE  /\ job' # None => job'.stage = "queued" /\ job'.by = "post" /\ edit = None
               /\ job = None
    BY <1>3, BeginFields DEF PostDownload
  <1>4. RetryStart => /\ job' # None => job'.stage = "queued" /\ job'.by = "retry" /\ edit = None
                      /\ job = None
    BY BeginFields DEF RetryStart
  <1>5. Hydrate \/ RetryScan \/ RetryPut \/ RetryRefused \/ (\E row \in Configs : RetrySelect(row))
        => UNCHANGED <<job, work, sel, cfg, touched>>
    BY DEF Hydrate, RetryScan, RetryPut, RetryRefused, RetrySelect, jobVars
  <1> QED BY <1>1, <1>2, <1>3, <1>4, <1>5 DEF AdmissionStep, RetryStep

LEMMA WorkStepInv == IInv /\ Next => WorkInv'
  <1> SUFFICES ASSUME IInv, Next PROVE WorkInv' OBVIOUS
  <1>1. CASE job' = job /\ work' = work BY <1>1 DEF IInv, WorkInv
  <1>2. CASE job' = None \/ (job' # None /\ (job'.stage \in {"queued", "started"} \/ job'.kind # "refresh"))
    BY <1>2 DEF WorkInv, Later
  <1>3. CASE Spawn BY <1>2, <1>3, StageKept DEF Spawn, At, RefreshStages
  <1>4. CASE Locate
    <2>1. job'.stage = "located" BY <1>4, StageKept DEF Locate, At, RefreshStages
    <2>2. work'.series \in Configs
      BY <1>4 DEF IInv, TypeOK, WorkType, Works, CfgType, Found, ShowFound, Locate
    <2> QED BY <2>1, <2>2 DEF WorkInv, Later
  <1>5. CASE Revise
    <2>1. job'.stage = "revised" BY <1>5, StageKept DEF Revise, At, RefreshStages
    <2>2. work'.series = work.series /\ work'.rev \in Configs
      BY <1>5 DEF IInv, TypeOK, WorkType, Works, CfgType, Found, ShowFound, Revise
    <2>3. work.series \in Configs BY <1>5 DEF IInv, WorkInv, Revise, At
    <2> QED BY <2>1, <2>2, <2>3 DEF WorkInv, Later
  <1>6. ASSUME NEW found \in BOOLEAN, Fetch(found) PROVE WorkInv'
    <2>1. job'.stage = "fetched" BY <1>6, StageKept DEF Fetch, At, RefreshStages
    <2> QED BY <1>6, <2>1, FetchedView DEF WorkInv, Later
  <1>7. CASE PublishCheck \/ ApplyUpdates
    <2>1. work' = work /\ job # None /\ job.kind = "refresh" /\ job.stage \in Later
      BY <1>7 DEF PublishCheck, ApplyUpdates, At, Later
    <2>2. job'.stage \in {"checked", "applied", "ready"}
      BY <1>7, StageKept DEF PublishCheck, ApplyUpdates, At, RefreshStages
    <2> QED BY <2>1, <2>2 DEF IInv, WorkInv, Later
  <1>8. CASE RevisePublished
    <2>1. job'.stage = "ready" BY <1>8, StageKept DEF RevisePublished, At, RefreshStages
    <2>2. work.series \in Configs /\ work.view \in Views /\ work.view.fresh = "ready"
      BY <1>8 DEF IInv, WorkInv, Later, RevisePublished, At
    <2>3. cfg \in Configs BY <1>8 DEF IInv, TypeOK, CfgType, Found, RevisePublished, ShowFound
    <2>4. work'.series = work.series /\ work'.view = [work.view EXCEPT !.rev = cfg]
      BY <1>8 DEF IInv, TypeOK, WorkType, Works, RevisePublished
    <2>5. work'.view \in Views /\ work'.view.fresh = "ready" BY <2>2, <2>3, <2>4 DEF Views
    <2> QED BY <2>1, <2>2, <2>4, <2>5 DEF WorkInv, Later
  <1>9. CASE Put
    <2>1. job'.stage = "published" BY <1>9, StageKept DEF Put, At, RefreshStages
    <2>2. work.view \in Views BY <1>9 DEF IInv, Put, At, WorkInv, Later
    <2>3. view' \in Views BY <1>9, <2>2, MergedType DEF IInv, TypeOK, Put
    <2>4. work'.view \in Views BY <1>9, <2>3 DEF IInv, TypeOK, WorkType, Works, Put
    <2> QED BY <2>1, <2>4 DEF WorkInv, Later
  <1>10. CASE SonarrPut
    <2>1. job'.stage = "published" BY <1>10, StageKept DEF SonarrPut, At, RefreshStages
    <2>2. view' \in Views BY <1>10, StoreUpdates DEF IInv, TypeOK, ViewType, SonarrPut, HasRows
    <2>3. work'.view \in Views BY <1>10, <2>2 DEF IInv, TypeOK, WorkType, Works, SonarrPut
    <2> QED BY <2>1, <2>3 DEF WorkInv, Later
  <1>11. CASE WriteSnapshot \/ RefreshFails \/ Crash
    BY <1>2, <1>11 DEF WriteSnapshot, RefreshFails, Crash, NoJob
  <1>12. CASE RefreshStep
    BY <1>3, <1>4, <1>5, <1>6, <1>7, <1>8, <1>9, <1>10, <1>11, <1>12 DEF RefreshStep
  <1>13. CASE DownloadStep
    <2>1. job # None /\ job.kind = "download"
      BY <1>13 DEF DownloadStep, DownloadCheck, PlanDownload, PlaceFile, DownloadFails, At
    <2>2. job' = None \/ job'.kind = "download" BY <1>13, <2>1, JobSteps, StageKept
    <2> QED BY <1>2, <2>2
  <1>14. CASE AdmissionStep \/ RetryStep BY <1>1, <1>2, <1>14, AdmittedFields
  <1>15. CASE EditStep BY <1>1, <1>15, OtherSteps
  <1> QED BY <1>11, <1>12, <1>13, <1>14, <1>15 DEF Next

(* A download keeps its selection until it ends.                           *)
LEMMA SelKept ==
  ASSUME IInv, DownloadStep
  PROVE  /\ job # None /\ job.kind = "download"
         /\ job' = None \/ (sel' = sel /\ job'.kind = "download" /\ job'.by = job.by)
  <1>1. job # None /\ job.kind = "download"
    BY DEF DownloadStep, DownloadCheck, PlanDownload, PlaceFile, DownloadFails, At
  <1>2. job' = None \/ sel' = sel
    BY DEF DownloadStep, DownloadCheck, PlanDownload, PlaceFile, DownloadFails, NoJob
  <1>3. job' = None \/ (job'.kind = job.kind /\ job'.by = job.by) BY JobSteps, StageKept
  <1> QED BY <1>1, <1>2, <1>3

LEMMA RefreshKept ==
  ASSUME IInv, RefreshStep
  PROVE  /\ job # None /\ job.kind = "refresh"
         /\ job' = None \/ (job'.kind = "refresh" /\ job'.by = job.by)
  <1>1. job # None /\ job.kind = "refresh"
    BY DEF RefreshStep, Spawn, Locate, Revise, Fetch, PublishCheck, ApplyUpdates,
           RevisePublished, Put, SonarrPut, WriteSnapshot, RefreshFails, At
  <1>2. job' = None \/ (job'.kind = job.kind /\ job'.by = job.by) BY JobSteps, StageKept
  <1> QED BY <1>1, <1>2

LEMMA SelStepInv == IInv /\ Next => SelInv'
  <1> SUFFICES ASSUME IInv, Next PROVE SelInv' OBVIOUS
  <1>0. SelInv BY DEF IInv
  <1>1. CASE EditStep BY <1>0, <1>1, OtherSteps DEF SelInv
  <1>2. CASE RefreshStep BY <1>0, <1>2, RefreshKept, JobSteps DEF SelInv
  <1>3. CASE DownloadStep BY <1>0, <1>3, SelKept, JobSteps DEF SelInv
  <1>4. CASE Crash BY <1>4, OtherSteps DEF SelInv
  <1>5. ASSUME NEW parts \in PartSets, NEW scope \in {"show", "source"},
               NEW expect \in Configs \cup {None}, PostRefresh(parts, scope, expect)
        PROVE  SelInv'
    BY <1>0, <1>5 DEF PostRefresh, Begin, SelInv
  <1>6. CASE QueueRefresh BY <1>0, <1>6 DEF QueueRefresh, Begin, SelInv
  <1>7. ASSUME NEW row \in Configs, PostDownload(row) PROVE SelInv'
    <2>1. sel' \in Selections
      BY <1>7 DEF IInv, TypeOK, ViewType, PostDownload, Offered, HasRows, Selections
    <2> QED BY <1>0, <1>7, <2>1, NoneAssumption DEF PostDownload, Begin, SelInv
  <1>8. CASE Hydrate \/ RetryRefused BY <1>0, <1>8 DEF Hydrate, RetryRefused, jobVars, SelInv
  <1>9. CASE RetryScan BY <1>0, <1>9 DEF RetryScan, jobVars, SelInv
  <1>10. CASE RetryPut
    BY <1>0, <1>10 DEF IInv, TypeOK, RetryType, Retries, RetryPut, jobVars, SelInv
  <1>11. ASSUME NEW row \in Configs, RetrySelect(row) PROVE SelInv'
    <2>1. retry'.sel \in Selections
      BY <1>11 DEF IInv, TypeOK, ViewType, RetrySelect, Offered, HasRows, Selections
    <2> QED BY <1>0, <1>11, <2>1, NoneAssumption DEF RetrySelect, jobVars, SelInv
  <1>12. CASE RetryStart BY <1>0, <1>12 DEF RetryStart, Begin, SelInv
  <1> QED BY <1>1, <1>2, <1>3, <1>4, <1>5, <1>6, <1>7, <1>8, <1>9, <1>10, <1>11, <1>12
         DEF Next, AdmissionStep, RetryStep

(* An edit begins only when no job is active, and a job, except for that of*)
(* GET /api/queue, only when no edit is under way.                         *)
LEMMA ExcludeStepInv == IInv /\ Next => EditExcludesJobs'
  <1> SUFFICES ASSUME IInv, Next PROVE EditExcludesJobs' OBVIOUS
  <1>0. EditExcludesJobs BY DEF IInv
  <1>1. CASE EditStep
    <2>1. ASSUME NEW kind \in EditKinds, NEW to \in Found, EditBegin(kind, to)
          PROVE  EditExcludesJobs'
      BY <2>1 DEF EditBegin, Maintenance, jobVars, EditExcludesJobs
    <2>2. CASE edit = None /\ edit' = None BY <2>2 DEF EditExcludesJobs
    <2>3. CASE edit # None BY <1>0, <1>1, <2>3, OtherSteps DEF EditExcludesJobs
    <2>4. CASE edit = None BY <1>1, <2>1, <2>2, <2>4
      DEF EditStep, EditWrite, EditSettle, ReplanRead, ReplanPut, EditFails, HandEdit
    <2> QED BY <2>3, <2>4
  <1>2. CASE RefreshStep \/ DownloadStep
    BY <1>0, <1>2, JobSteps, RefreshKept, SelKept DEF EditExcludesJobs
  <1>3. CASE AdmissionStep \/ RetryStep
    BY <1>0, <1>3, AdmittedFields, OtherSteps DEF EditExcludesJobs
  <1>4. CASE Crash BY <1>4, OtherSteps DEF EditExcludesJobs
  <1> QED BY <1>1, <1>2, <1>3, <1>4 DEF Next

-----------------------------------------------------------------------------
(***************************************************************************)
(* What is published and what is downloaded.                               *)
(***************************************************************************)

(* While a job other than that of GET /api/queue is active, only a hand    *)
(* edit changes the configuration, and it is remembered.                   *)
LEMMA EditLeavesConfig ==
  ASSUME IInv, EditStep, job # None, job.by # "queue"
  PROVE  touched' \/ (cfg' = cfg /\ touched' = touched)
  <1>1. edit = None BY DEF IInv, EditExcludesJobs
  <1>2. ASSUME NEW to \in Found, HandEdit(to) PROVE touched' BY <1>2 DEF HandEdit
  <1>3. (\E kind \in EditKinds, to \in Found : EditBegin(kind, to)) => cfg' = cfg /\ touched' = touched
    BY DEF EditBegin
  <1> QED BY <1>1, <1>2, <1>3
    DEF EditStep, EditWrite, EditSettle, ReplanRead, ReplanPut, EditFails

LEMMA DownloadStepInv == IInv /\ Next => DownloadedAsAdmitted'
  <1> SUFFICES ASSUME IInv, Next PROVE DownloadedAsAdmitted' OBVIOUS
  <1>0. DownloadedAsAdmitted BY DEF IInv
  <1> USE DEF DownloadedAsAdmitted, At
  <1>1. CASE job' = None BY <1>1
  <1>2. CASE EditStep
    <2>1. CASE job # None /\ job.kind = "download"
      <3>1. job.by # "queue" BY <2>1 DEF IInv, SelInv
      <3>2. touched' \/ (cfg' = cfg /\ touched' = touched) BY <1>2, <2>1, <3>1, EditLeavesConfig
      <3> QED BY <1>0, <1>2, <3>2, OtherSteps DEF Place
    <2>2. CASE ~(job # None /\ job.kind = "download") BY <1>2, <2>2, OtherSteps
    <2> QED BY <2>1, <2>2
  <1>3. CASE RefreshStep BY <1>1, <1>3, RefreshKept
  <1>4. CASE AdmissionStep \/ RetryStep BY <1>0, <1>4, AdmittedFields DEF Place
  <1>5. CASE DownloadCheck BY <1>5, StageKept DEF DownloadCheck, RefreshStages
  <1>6. CASE PlanDownload
    <2>1. work'.series = cfg BY <1>6 DEF IInv, TypeOK, WorkType, Works, PlanDownload
    <2>2. cfg' = cfg /\ sel' = sel /\ Place(cfg) = Place(sel.row)
      BY <1>6 DEF PlanDownload, JobUnchanged, MeansTheSame
    <2> QED BY <2>1, <2>2 DEF Place
  <1>7. CASE PlaceFile \/ DownloadFails \/ Crash
    BY <1>1, <1>7 DEF PlaceFile, DownloadFails, Crash, NoJob
  <1> QED BY <1>2, <1>3, <1>4, <1>5, <1>6, <1>7 DEF Next, DownloadStep

(* A step that is none of the refresh's own keeps what the refresh read.   *)
LEMMA AskedKept ==
  ASSUME IInv, Next, ~RefreshStep, Asked'
  PROVE  \/ job'.stage = "queued"
         \/ Asked /\ UNCHANGED <<job, work, cfg>>
  <1>1. CASE EditStep
    <2>1. job' = job /\ work' = work BY <1>1, OtherSteps
    <2>2. job # None /\ job.by # "queue" BY <2>1 DEF Asked
    <2> QED BY <1>1, <2>1, <2>2, EditLeavesConfig DEF Asked
  <1>2. CASE AdmissionStep \/ RetryStep BY <1>2, AdmittedFields DEF Asked
  <1>3. CASE DownloadStep BY <1>3, SelKept DEF Asked
  <1>4. CASE Crash BY <1>4, OtherSteps DEF Asked
  <1> QED BY <1>1, <1>2, <1>3, <1>4 DEF Next

LEMMA RefreshAsked ==
  ASSUME IInv, RefreshStep, Asked'
  PROVE  Asked /\ ReadOneConfig
  <1>1. Asked BY RefreshKept, JobSteps DEF Asked
  <1> QED BY <1>1 DEF IInv, ExactInv

LEMMA ExactStepInv == IInv /\ Next => ExactInv'
  <1> SUFFICES ASSUME IInv, Next, Asked' PROVE ReadOneConfig' BY DEF ExactInv
  <1>1. CASE ~RefreshStep
    <2>1. CASE job'.stage = "queued" BY <2>1 DEF ReadOneConfig, Later
    <2>2. CASE Asked /\ UNCHANGED <<job, work, cfg>>
      BY <2>2 DEF IInv, ExactInv, ReadOneConfig, Lists, Proposed
    <2> QED BY <1>1, <2>1, <2>2, AskedKept
  <1>2. CASE RefreshStep
    <2>0. Asked /\ ReadOneConfig /\ job # None /\ job' # None
      BY <1>2, RefreshAsked DEF Asked
    <2>1. CASE Spawn
      <3>1. job'.stage = "started" BY <2>1, StageKept DEF Spawn, At, RefreshStages
      <3> QED BY <3>1 DEF ReadOneConfig, Later
    <2>2. CASE Locate
      <3>1. job'.stage = "located" BY <2>2, StageKept DEF Locate, At, RefreshStages
      <3>2. work'.series = cfg /\ cfg' = cfg
        BY <2>2 DEF IInv, TypeOK, WorkType, Works, Locate, JobUnchanged
      <3> QED BY <3>1, <3>2 DEF ReadOneConfig, Later
    <2>3. CASE Revise
      <3>1. job'.stage = "revised" BY <2>3, StageKept DEF Revise, At, RefreshStages
      <3>2. work'.series = work.series /\ work'.rev = cfg /\ cfg' = cfg
        BY <2>3 DEF IInv, TypeOK, WorkType, Works, Revise, JobUnchanged
      <3>3. work.series = cfg BY <2>0, <2>3 DEF ReadOneConfig, Revise, At
      <3> QED BY <3>1, <3>2, <3>3 DEF ReadOneConfig, Later
    <2>4. ASSUME NEW found \in BOOLEAN, Fetch(found) PROVE ReadOneConfig'
      <3>1. /\ job'.stage = "fetched" /\ job'.parts = job.parts
        BY <2>0, <2>4, StageKept DEF Fetch, RefreshStages
      <3>2. cfg' = cfg BY <2>4 DEF Fetch, JobUnchanged
      <3>3. work.series = cfg /\ work.rev = cfg /\ cfg \in Configs
        BY <2>0, <2>4 DEF IInv, WorkInv, ReadOneConfig, Fetch, At
      <3>4. /\ work'.view.rev = work.rev /\ work'.found = found
            /\ work'.series = IF found THEN [work.series EXCEPT !.seen = TRUE] ELSE work.series
            /\ work'.hash = IF found THEN cfg ELSE None
            /\ Lists => work'.view.made = {work'.series}
        BY <2>4, FetchedView
      <3>5. Lists' = Lists BY <3>1 DEF Lists
      <3>6. work'.series = Proposed' BY <3>2, <3>3, <3>4 DEF Proposed
      <3>7. Lists' => work'.view.made = {work'.series} BY <3>4, <3>5
      <3> QED BY <3>1, <3>2, <3>3, <3>4, <3>6, <3>7 DEF ReadOneConfig
    <2>5. CASE PublishCheck
      <3>1. /\ job'.stage = IF work.found THEN "checked" ELSE "ready"
            /\ job'.parts = job.parts
        BY <2>0, <2>5, StageKept DEF PublishCheck, RefreshStages
      <3>2. cfg' = cfg /\ work' = work /\ job.stage = "fetched"
        BY <2>5 DEF PublishCheck, JobUnchanged, At
      <3>3. Lists' = Lists /\ Proposed' = Proposed BY <3>1, <3>2 DEF Lists, Proposed
      <3>4. /\ cfg \in Configs /\ work.series = Proposed /\ work.view.rev = cfg
            /\ work.found => work.hash = cfg
            /\ Lists => work.view.made = {work.series}
        BY <2>0, <3>2 DEF ReadOneConfig, Later
      <3>5. CASE work.found BY <3>1, <3>2, <3>3, <3>4, <3>5 DEF ReadOneConfig
      <3>6. CASE ~work.found BY <3>1, <3>2, <3>3, <3>4, <3>6 DEF ReadOneConfig, Proposed
      <3> QED BY <3>5, <3>6
    <2>6. CASE ApplyUpdates
      <3>1. job'.stage = "applied" /\ job'.parts = job.parts
        BY <2>0, <2>6, StageKept DEF ApplyUpdates, RefreshStages
      <3>2. cfg' = work.series /\ work' = work /\ job.stage = "checked"
        BY <2>6 DEF ApplyUpdates, At
      <3>3. Lists => work.view.made = {work.series} BY <2>0, <3>2 DEF ReadOneConfig, Later
      <3>4. Lists' = Lists BY <3>1 DEF Lists
      <3> QED BY <3>1, <3>2, <3>3, <3>4 DEF ReadOneConfig
    <2>7. CASE RevisePublished
      <3>1. job'.stage = "ready" /\ job'.parts = job.parts
        BY <2>0, <2>7, StageKept DEF RevisePublished, RefreshStages
      <3>2. cfg' = cfg /\ job.stage = "applied" BY <2>7 DEF RevisePublished, JobUnchanged, At
      <3>3. work.view \in Views BY <2>7 DEF IInv, WorkInv, Later, RevisePublished, At
      <3>4. work'.series = work.series /\ work'.view = [work.view EXCEPT !.rev = cfg]
        BY <2>7 DEF IInv, TypeOK, WorkType, Works, RevisePublished
      <3>5. work'.view.rev = cfg /\ work'.view.made = work.view.made BY <3>3, <3>4 DEF Views
      <3>6. /\ work.series = cfg
            /\ Lists => work.view.made = {work.series}
        BY <2>0, <3>2 DEF ReadOneConfig, Later
      <3>7. Lists' = Lists BY <3>1 DEF Lists
      <3> QED BY <3>1, <3>2, <3>4, <3>5, <3>6, <3>7 DEF ReadOneConfig
    <2>8. CASE Put \/ SonarrPut
      <3>1. job'.stage = "published" BY <2>0, <2>8, StageKept DEF Put, SonarrPut, RefreshStages
      <3> QED BY <3>1 DEF ReadOneConfig, Later
    <2>9. CASE WriteSnapshot \/ RefreshFails
      BY <2>0, <2>9 DEF WriteSnapshot, RefreshFails, NoJob
    <2> QED BY <1>2, <2>1, <2>2, <2>3, <2>4, <2>5, <2>6, <2>7, <2>8, <2>9 DEF RefreshStep
  <1> QED BY <1>1, <1>2

LEMMA AskedStepInv == IInv /\ Next => AskedRefreshIsExact'
  <1> SUFFICES ASSUME IInv, Next, At("refresh", "published")', job'.by = "post", Lists', ~touched'
               PROVE  (/\ work.view.rev = cfg /\ cfg \in work.view.made
                       /\ job.scope = "show" => work.view.made = {cfg})'
    BY DEF AskedRefreshIsExact
  <1>0. Asked' /\ job' # None /\ job'.stage = "published" BY DEF Asked, At
  <1>1. CASE ~RefreshStep
    <2>1. Asked /\ UNCHANGED <<job, work, cfg>> BY <1>0, <1>1, AskedKept
    <2>2. At("refresh", "published") /\ job.by = "post" /\ Lists /\ ~touched
      BY <1>0, <2>1 DEF Asked, At, Lists
    <2> QED BY <2>1, <2>2 DEF IInv, AskedRefreshIsExact
  <1>2. CASE Put
    <2>0. ReadOneConfig BY <1>0, <1>2, RefreshAsked DEF RefreshStep
    <2> DEFINE v == IF job.scope = "source" THEN Merged(work.view) ELSE work.view
    <2>1. job # None /\ job.stage = "ready" BY <1>2 DEF Put, At
    <2>2. job'.parts = job.parts /\ job'.scope = job.scope
      BY <1>2, <2>1, StageKept DEF Put, RefreshStages
    <2>3. Lists BY <2>2 DEF Lists
    <2>4. work.view.rev = cfg /\ work.view.made = {cfg} BY <2>0, <2>1, <2>3 DEF ReadOneConfig, Later
    <2>5. work.view \in Views BY <1>2 DEF IInv, Put, At, WorkInv, Later
    <2>6. v.rev = cfg /\ cfg \in v.made BY <2>4, <2>5, MergedType DEF IInv, TypeOK
    <2>7. job.scope = "show" => v.made = {cfg} BY <2>4
    <2>8. cfg' = cfg BY <1>2 DEF Put, JobUnchanged
    <2>9. work'.view = v BY <1>2 DEF IInv, TypeOK, WorkType, Works, Put
    <2> QED BY <2>2, <2>6, <2>7, <2>8, <2>9
  <1>3. CASE SonarrPut
    <2>1. job'.parts = "sonarr" BY <1>3, StageKept DEF SonarrPut, At, RefreshStages
    <2> QED BY <2>1 DEF Lists
  <1>4. CASE RefreshStep /\ ~Put /\ ~SonarrPut
    <2>1. job' = None \/ \E stage \in RefreshStages \ {"published"} : To(stage) /\ job # None
      BY <1>4 DEF RefreshStep, Spawn, Locate, Revise, Fetch, PublishCheck, ApplyUpdates,
         RevisePublished, WriteSnapshot, RefreshFails, NoJob, At, RefreshStages
    <2> QED BY <1>0, <2>1, StageKept
  <1> QED BY <1>1, <1>2, <1>3, <1>4

-----------------------------------------------------------------------------
LEMMA StutterInv == IInv /\ UNCHANGED vars => IInv'
  BY DEF IInv, vars, viewVars, jobVars, TypeOK, CfgType, ViewType, EditType, JobType, WorkType,
     SelType, RetryType, EditInv, WorkInv, SelInv, EditExcludesJobs, ExactInv, Asked,
     ReadOneConfig, Proposed, Lists, DownloadedAsAdmitted, AskedRefreshIsExact, At

LEMMA Invariance == Spec => []IInv
  <1>1. Init => IInv BY InitInv
  <1>2. IInv /\ [Next]_vars => IInv'
    <2> SUFFICES ASSUME IInv, [Next]_vars PROVE IInv' OBVIOUS
    <2>1. CASE Next
      BY <2>1, TypeStep, EditStepInv, WorkStepInv, SelStepInv, ExcludeStepInv, ExactStepInv,
         DownloadStepInv, AskedStepInv DEF IInv
    <2>2. CASE UNCHANGED vars BY <2>2, StutterInv
    <2> QED BY <2>1, <2>2
  <1> QED BY <1>1, <1>2, PTL DEF Spec

-----------------------------------------------------------------------------
(***************************************************************************)
(* What a step may do to the published view and to the configuration.      *)
(***************************************************************************)
LEMMA LastGoodStep ==
  ASSUME IInv, [Next]_vars, view # None, view' # None, view'.fresh # "ready"
  PROVE  view'.made = view.made /\ view'.rev = view.rev /\ view'.good = view.good
  <1>0. view \in Views BY DEF IInv, TypeOK, ViewType
  <1>1. CASE view' = view BY <1>1
  <1>2. CASE view' = Invalidated(view) \/ view' = Attempted(view)
    BY <1>0, <1>2 DEF Invalidated, Attempted, Views
  <1>3. CASE EditStep
    <2>1. CASE ReplanPut /\ ShowFound
      <3>1. edit.base \in Views /\ edit.base.fresh = "ready" /\ edit.series \in Configs /\ cfg \in Configs
        BY <2>1 DEF IInv, TypeOK, CfgType, ReplanPut, EditInv, ShowFound, Found
      <3>2. view' = [edit.base EXCEPT !.rev = cfg,
                                      !.made = IF @ = {} THEN {} ELSE {edit.series}]
        BY <2>1 DEF ReplanPut
      <3> QED BY <3>1, <3>2, RemapType
    <2>2. CASE ~(ReplanPut /\ ShowFound)
      BY <1>1, <1>2, <1>3, <2>2 DEF EditStep, EditBegin, EditWrite, EditSettle, ReplanRead,
         ReplanPut, EditFails, HandEdit, viewVars
    <2> QED BY <2>1, <2>2
  <1>4. CASE AdmissionStep
    BY <1>1, <1>4 DEF AdmissionStep, PostRefresh, QueueRefresh, PostDownload, Hydrate, viewVars
  <1>5. CASE RefreshStep
    <2>1. CASE Put
      <3>1. work.view \in Views /\ work.view.fresh = "ready" BY <2>1 DEF IInv, WorkInv, Later, Put, At
      <3>2. view'.fresh = "ready" BY <2>1, <3>1, MergedType DEF IInv, TypeOK, Put
      <3> QED BY <3>2
    <2>2. CASE SonarrPut BY <1>0, <2>2, StoreUpdates DEF SonarrPut
    <2>3. CASE ~Put /\ ~SonarrPut
      BY <1>1, <1>2, <1>5, <2>3 DEF RefreshStep, Spawn, Locate, Revise, Fetch, PublishCheck,
         ApplyUpdates, RevisePublished, WriteSnapshot, RefreshFails, viewVars
    <2> QED BY <2>1, <2>2, <2>3
  <1>6. CASE DownloadStep
    BY <1>1, <1>6 DEF DownloadStep, DownloadCheck, PlanDownload, PlaceFile, DownloadFails, viewVars
  <1>7. CASE RetryStep
    <2>1. CASE RetryPut
      <3>1. old.view \in Views
        BY <2>1 DEF IInv, TypeOK, SelType, Selections, RetryPut
      <3>2. view' = [old.view EXCEPT !.fresh = "ready", !.good = TRUE] BY <2>1 DEF RetryPut
      <3>3. view'.fresh = "ready" BY <3>1, <3>2 DEF Views
      <3> QED BY <3>3
    <2>2. CASE ~RetryPut
      BY <1>1, <1>7, <2>2 DEF RetryStep, RetryScan, RetrySelect, RetryStart, RetryRefused, viewVars
    <2> QED BY <2>1, <2>2
  <1>8. CASE Crash BY <1>1, <1>8 DEF Crash
  <1>9. CASE UNCHANGED vars BY <1>1, <1>9 DEF vars, viewVars
  <1> QED BY <1>3, <1>4, <1>5, <1>6, <1>7, <1>8, <1>9 DEF Next

(* Only ApplyUpdates takes a refresh from "checked" to "applied".          *)
LEMMA AppliedBy ==
  ASSUME IInv, Next, At("refresh", "checked"), job' # None, job'.stage = "applied"
  PROVE  ApplyUpdates
  <1>1. job # None /\ job.stage = "checked" BY DEF At
  <1>2. CASE RefreshStep /\ ~ApplyUpdates
    <2>1. job' = None \/ \E stage \in RefreshStages \ {"applied"} : To(stage)
      BY <1>2 DEF RefreshStep, Spawn, Locate, Revise, Fetch, PublishCheck, RevisePublished, Put,
         SonarrPut, WriteSnapshot, RefreshFails, NoJob, RefreshStages
    <2> QED BY <1>1, <2>1, StageKept
  <1>3. CASE DownloadStep BY <1>3, SelKept DEF At
  <1>4. CASE AdmissionStep \/ RetryStep BY <1>1, <1>4, AdmittedFields
  <1>5. CASE EditStep BY <1>1, <1>5, OtherSteps
  <1>6. CASE Crash BY <1>6, OtherSteps
  <1> QED BY <1>2, <1>3, <1>4, <1>5, <1>6 DEF Next

LEMMA KeepsEditsStep ==
  ASSUME IInv, [Next]_vars, At("refresh", "checked"), job' # None, job'.stage = "applied",
         \/ work.hash = work.view.rev /\ work.series = [work.view.rev EXCEPT !.seen = TRUE]
         \/ job.by = "post" /\ ~touched
  PROVE  cfg' = [cfg EXCEPT !.seen = TRUE]
  <1>1. ~UNCHANGED vars BY DEF vars, jobVars, At
  <1>2. cfg' = work.series /\ cfg = work.hash
    BY <1>1, AppliedBy DEF ApplyUpdates, SameHash
  <1>3. CASE job.by = "post" /\ ~touched
    <2>1. work.series = Proposed /\ work.found
      BY <1>3 DEF IInv, ExactInv, Asked, ReadOneConfig, At
    <2> QED BY <1>2, <2>1 DEF Proposed
  <1>4. CASE work.hash = work.view.rev /\ work.series = [work.view.rev EXCEPT !.seen = TRUE]
    BY <1>2, <1>4
  <1> QED BY <1>3, <1>4

-----------------------------------------------------------------------------
(***************************************************************************)
(* Theorems.                                                               *)
(***************************************************************************)

(* Type correctness: every view, edit, job, selection and retry is one the *)
(* store, the coordinator and the routes can hold, and the bounds hold.    *)
THEOREM TypeCorrect == Spec => []TypeOK
  <1>1. IInv => TypeOK BY DEF IInv
  <1> QED BY <1>1, Invariance, PTL

(* manifest_maintenance, post_job and retry_job keep edits and jobs apart, *)
(* but for the refresh of GET /api/queue.                                  *)
THEOREM EditsExcludeJobs == Spec => []EditExcludesJobs
  <1>1. IInv => EditExcludesJobs BY DEF IInv
  <1> QED BY <1>1, Invariance, PTL

(* Whatever edits, refreshes, retries and restarts came before, a download *)
(* places the action that was selected, as the configuration has it        *)
(* (download_selected, validate_selected_action).                          *)
THEOREM DownloadsAsAdmitted == Spec => []DownloadedAsAdmitted
  <1>1. IInv => DownloadedAsAdmitted BY DEF IInv
  <1> QED BY <1>1, Invariance, PTL

(* A refresh that was asked for publishes rows of the configuration whose  *)
(* revision it publishes (_publish_refresh_result).                        *)
THEOREM AskedRefreshExact == Spec => []AskedRefreshIsExact
  <1>1. IInv => AskedRefreshIsExact BY DEF IInv
  <1> QED BY <1>1, Invariance, PTL

(* No failed attempt and no invalidation costs the last good rows of a     *)
(* view (record_view_attempt, invalidate_platform).                        *)
THEOREM LastGood == Spec => LastGoodKept
  <1>1. IInv /\ [Next]_vars =>
          [view # None /\ view' # None /\ view'.fresh # "ready"
             => /\ view'.made = view.made /\ view'.rev = view.rev
                /\ view'.good = view.good]_vars
    BY LastGoodStep
  <1> QED BY <1>1, Invariance, PTL DEF Spec, LastGoodKept

(* The season a refresh discovers is all it adds to the configuration      *)
(* (apply_refresh_updates).                                                *)
THEOREM RefreshKeeps == Spec => RefreshKeepsEdits
  <1>1. IInv /\ [Next]_vars =>
          [/\ At("refresh", "checked") /\ job' # None /\ job'.stage = "applied"
           /\ \/ work.hash = work.view.rev /\ work.series = [work.view.rev EXCEPT !.seen = TRUE]
              \/ job.by = "post" /\ ~touched
           => cfg' = [cfg EXCEPT !.seen = TRUE]]_vars
    BY KeepsEditsStep
  <1> QED BY <1>1, Invariance, PTL DEF Spec, RefreshKeepsEdits
=============================================================================
