------------------------ MODULE SeasonLibrary_proofs ------------------------
(***************************************************************************)
(* Theorems about what a run of SeasonSync leaves behind: that the index   *)
(* and the folder agree, that a whole run gives the listing its library,   *)
(* that it heals what crashes left, and that no file is lost.              *)
(***************************************************************************)
EXTENDS SeasonSync_proofs

InRun == pc \notin {"idle", "admitted"}
Early == {"move", "recover", "stage", "land"}
Late == {"download", "commit", "finish"}

-----------------------------------------------------------------------------
(***************************************************************************)
(* The plan.  Every video that is listed or indexed gets one action.       *)
(***************************************************************************)
KindOf(again, v) ==
  CASE ~Listed(v) -> "remove"
    [] Listed(v) /\ index[v] = None -> "add"
    [] Listed(v) /\ index[v] # None /\ v \in again -> "replace"
    [] OTHER -> Unchanged(v)

LEMMA UnchangedKinds ==
  ASSUME NEW v
  PROVE  /\ Unchanged(v) \in {"refresh", "rename", "add"}
         /\ Unchanged(v) = "refresh" =>
              \/ index[v] = Plain(StemOf(v)) /\ FileAt(index[v]) # None
              \/ lib[StemOf(v)] # None
         /\ Unchanged(v) = "rename" => index[v] # Plain(StemOf(v)) /\ FileAt(index[v]) # None
         /\ FileAt(index[v]) # None =>
              Unchanged(v) = IF index[v] = Plain(StemOf(v)) THEN "refresh" ELSE "rename"
  BY DEF Unchanged

LEMMA PlanIs ==
  ASSUME NEW again \in SUBSET Videos
  PROVE  /\ \A a \in Plan(again) :
              /\ a.video \in Videos /\ (Listed(a.video) \/ index[a.video] # None)
              /\ a = Planned(KindOf(again, a.video), a.video)
         /\ \A v \in Videos : Listed(v) \/ index[v] # None
              => Planned(KindOf(again, v), v) \in Plan(again)
  <1>1. ASSUME NEW a \in Plan(again)
        PROVE  /\ a.video \in Videos /\ (Listed(a.video) \/ index[a.video] # None)
               /\ a = Planned(KindOf(again, a.video), a.video)
    <2>1. \A k, v : Planned(k, v).video = v BY DEF Planned
    <2>2. CASE \E v \in Videos : index[v] # None /\ ~Listed(v) /\ a = Planned("remove", v)
      BY <2>1, <2>2 DEF KindOf
    <2>3. CASE \E v \in Videos : index[v] = None /\ Listed(v) /\ a = Planned("add", v)
      BY <2>1, <2>3 DEF KindOf
    <2>4. CASE \E v \in again : index[v] # None /\ Listed(v) /\ a = Planned("replace", v)
      BY <2>1, <2>4 DEF KindOf
    <2>5. CASE \E v \in Videos \ again : index[v] # None /\ Listed(v) /\ a = Planned(Unchanged(v), v)
      BY <2>1, <2>5 DEF KindOf
    <2> QED BY <2>2, <2>3, <2>4, <2>5 DEF Plan
  <1>2. ASSUME NEW v \in Videos, Listed(v) \/ index[v] # None
        PROVE  Planned(KindOf(again, v), v) \in Plan(again)
    <2>1. CASE ~Listed(v) BY <1>2, <2>1 DEF KindOf, Plan
    <2>2. CASE Listed(v) /\ index[v] = None BY <2>2 DEF KindOf, Plan
    <2>3. CASE Listed(v) /\ index[v] # None /\ v \in again BY <2>3 DEF KindOf, Plan
    <2>4. CASE Listed(v) /\ index[v] # None /\ v \notin again
      <3>1. KindOf(again, v) = Unchanged(v) BY <2>4 DEF KindOf
      <3>2. Planned(Unchanged(v), v) \in Plan(again) BY <2>4 DEF Plan
      <3> QED BY <3>1, <3>2
    <2> QED BY <2>1, <2>2, <2>3, <2>4
  <1> QED BY <1>1, <1>2

(* What Begin chose, when it begins.                                       *)
Begun ==
  /\ pc = "admitted" /\ pc' = "move"
  /\ UNCHANGED <<live, lib, tmp, index, mem, sel, clean, bad, orderly>>
  /\ acts' # {}
  /\ todo' = {a \in acts' : Moving(a) /\ a.old # None}
  /\ \E again \in SUBSET Videos : \A a \in acts' :
       /\ a.video \in Videos \ Skip /\ (Listed(a.video) \/ index[a.video] # None)
       /\ a = Planned(KindOf(again, a.video), a.video)
  /\ sel = Whole => \A v \in Videos \ Skip :
       Listed(v) \/ index[v] # None => \E a \in acts' : a.video = v
  /\ sel # Whole => \A a \in acts' : a.kind = "add"

(* And when it ends at once.                                               *)
NothingBegun ==
  /\ pc = "admitted" /\ pc' = "idle"
  /\ UNCHANGED <<live, lib, tmp, index, mem, bad, orderly>>
  /\ sel' = Whole
  /\ sel # Whole => clean' = clean
  /\ sel = Whole => \A v \in Videos \ Skip : ~Listed(v) /\ index[v] = None

LEMMA BeginIs == ASSUME Begin PROVE Begun \/ NothingBegun
  <1> DEFINE Chosen(again) == Selected({a \in Plan(again) : a.video \notin Skip})
  <1>1. PICK again \in SUBSET Videos :
          LET S == Chosen(again) IN
          IF StillMeant(S) /\ S # {}
          THEN /\ acts' = S /\ Goto("move", {a \in S : Moving(a) /\ a.old # None})
               /\ UNCHANGED <<sel, clean>>
          ELSE /\ Goto("idle", {}) /\ sel' = Whole /\ UNCHANGED acts
               /\ clean' = IF sel = Whole THEN TRUE ELSE clean
    BY DEF Begin
  <1> DEFINE S == Chosen(again)
  <1>2. /\ pc = "admitted" /\ UNCHANGED <<live, lib, tmp, index, mem, bad, orderly>>
    BY DEF Begin
  <1>3. \A a \in S : /\ a \in Plan(again) /\ a.video \notin Skip
                     /\ sel # Whole => a.kind = "add"
    BY DEF Selected
  <1>4. \A v \in Videos : \A k : Planned(k, v).video = v BY DEF Planned
  <1>5. sel = Whole => \A v \in Videos \ Skip : Listed(v) \/ index[v] # None
                         => Planned(KindOf(again, v), v) \in S
    BY <1>4, PlanIs DEF Selected
  <1>6. \A a \in S : /\ a.video \in Videos \ Skip /\ (Listed(a.video) \/ index[a.video] # None)
                     /\ a = Planned(KindOf(again, a.video), a.video)
    BY <1>3, PlanIs
  <1>7. CASE StillMeant(S) /\ S # {}
    <2>1. /\ acts' = S /\ pc' = "move" /\ todo' = {a \in S : Moving(a) /\ a.old # None}
          /\ UNCHANGED <<sel, clean>>
      BY <1>1, <1>7 DEF Goto
    <2> HIDE DEF S
    <2>2. sel = Whole => \A v \in Videos \ Skip :
            Listed(v) \/ index[v] # None => \E a \in acts' : a.video = v
      BY <1>4, <1>5, <2>1
    <2> QED BY <1>2, <1>3, <1>6, <1>7, <2>1, <2>2 DEF Begun
  <1>8. CASE ~(StillMeant(S) /\ S # {})
    <2>1. pc' = "idle" /\ sel' = Whole /\ clean' = IF sel = Whole THEN TRUE ELSE clean
      BY <1>1, <1>8 DEF Goto
    <2>2. sel = Whole => S = {} BY <1>8 DEF StillMeant
    <2> HIDE DEF S
    <2> QED BY <1>2, <1>5, <2>1, <2>2 DEF NothingBegun
  <1> QED BY <1>7, <1>8


-----------------------------------------------------------------------------
(***************************************************************************)
(* The steps, by what they do to the run: it works on, or it ends.         *)
(***************************************************************************)
Working ==
  \/ MoveStep \/ RenameStep \/ Downloaded
  \/ \E a \in todo : \/ SkipOccupied(a) \/ AdoptExisting(a) \/ DownloadFails(a)
                     \/ Promote(a) \/ Commit(a) \/ Restore(a)
Ending == Finish \/ Crash \/ \E a \in todo : AuthFails(a)

LEMMA StepKinds ==
  ASSUME [Next]_vars
  PROVE  \/ Admit \/ RunWhole \/ ProviderChanges \/ Begun \/ NothingBegun
         \/ Working \/ Ending \/ UNCHANGED vars
  BY BeginIs DEF Next, PlanStep, DownloadStep, EndStep, Working, Ending

LEMMA WorkingRuns ==
  ASSUME Working
  PROVE  InRun /\ InRun' /\ UNCHANGED <<live, sel, acts, clean>>
  BY DEF Working, InRun, history, run, Goto, Rest, MoveStep, RenameStep, Moved, MoveOld, MoveFails,
     RecoverOne, RecoverFails, Recovered, StageRename, Staged, LandRename, SaveIndex, SkipOccupied, AdoptExisting,
     DownloadFails, AtDownload, Promote, Commit, Downloaded, Restore

LEMMA EarlySteps ==
  ASSUME Working, pc' \in Early
  PROVE  pc \in Early /\ UNCHANGED <<index, mem>>
  BY DEF Working, Early, run, Goto, Rest, MoveStep, RenameStep, Moved, MoveOld, MoveFails,
     RecoverOne, RecoverFails, Recovered, StageRename, Staged, LandRename, SaveIndex, SkipOccupied, AdoptExisting,
     DownloadFails, AtDownload, Promote, Commit, Downloaded, Restore

LEMMA EndingEnds ==
  ASSUME Ending
  PROVE  /\ InRun /\ pc' = "idle" /\ sel' = Whole /\ mem' = index' /\ UNCHANGED <<live, lib, tmp>>
         /\ \/ UNCHANGED index /\ clean' = FALSE
            \/ /\ pc = "finish" /\ todo = {} /\ index' = mem
               /\ clean' = IF sel = Whole THEN ~bad ELSE clean
  BY DEF Ending, InRun, Finish, Crash, AuthFails, AtDownload, Goto

LEMMA Phased ==
  ASSUME TypeOK
  PROVE  InRun <=> pc \in Early \cup Late
  BY DEF TypeOK, RunType, Phases, InRun, Early, Late

(* How the index changes.                                                  *)
Stores(a) ==
  /\ pc \in Late /\ UNCHANGED <<lib, tmp, bad>> /\ todo' = todo \ {a}
  /\ \E d \in Marks(a.new) : mem' = [mem EXCEPT ![a.video] = [stem |-> a.new, dup |-> d]]
  /\ \/ pc = "commit" /\ First(a) /\ pc' = "download" /\ index' = mem'
     \/ pc = "download" /\ pc' = pc /\ a.kind = "add" /\ lib[a.new] # None /\ sel = Whole
        /\ UNCHANGED index
     \/ pc = "finish" /\ pc' = pc /\ UNCHANGED index

LEMMA IndexSteps ==
  ASSUME Working
  PROVE  \/ UNCHANGED <<index, mem>>
         \/ SaveIndex
         \/ \E a \in todo : Stores(a)
  <1>1. ASSUME NEW a \in todo, AdoptExisting(a) \/ Commit(a) \/ Restore(a) PROVE Stores(a)
    BY <1>1 DEF Stores, AdoptExisting, AtDownload, Commit, Restore, Goto, Rest, Late
  <1> QED
    BY <1>1 DEF Working, MoveStep, RenameStep, Moved, MoveOld, MoveFails, RecoverOne, RecoverFails, Recovered,
       StageRename, Staged, LandRename, SkipOccupied, DownloadFails, Promote, Downloaded

-----------------------------------------------------------------------------
(***************************************************************************)
(* What holds of a run whatever crashed before it.                         *)
(***************************************************************************)
Acted(v) == \E a \in acts : a.video = v

(* The run's copy of the index runs ahead of the saved one only while it   *)
(* downloads and finishes.                                                 *)
MemInv == pc \notin Late => mem = index

(* The index never names a video of the "skip" list.                       *)
SkipInv == \A v \in Skip : index[v] = None /\ mem[v] = None

(* There is one action for a video, and the listing its destination is     *)
(* taken from does not change under the run.                               *)
PlannedInv == InRun =>
  \A a \in acts : /\ a.video \notin Skip
                  /\ \A b \in acts : b.video = a.video => b = a
                  /\ a.kind = "remove" <=> ~Listed(a.video)
                  /\ Listed(a.video) => a.new = StemOf(a.video)

(* Up to the downloads, an action knows the saved name of its video.       *)
OldInv == pc \in Early =>
  \A a \in acts : a.old = index[a.video] /\ (a.kind # "add" => a.old # None)

(* A whole run acts on everything that is listed or stored.                *)
FullInv == InRun /\ sel = Whole =>
  /\ \A v \in Videos \ Skip : Listed(v) => Acted(v)
  /\ pc \in Early => \A v \in Videos : index[v] # None => Acted(v)

(* Once recovery is done, a temporary name that did not fail in it is one  *)
(* of a rename under way.                                                  *)
TempInv == \A s \in Stems : tmp[s] # None /\ s \notin passed =>
  /\ pc = "stage" => \E a \in acts \ todo : a.kind = "rename" /\ a.new = s
  /\ pc = "land" => \E a \in todo : a.new = s
  /\ pc \notin Late

(* What is stored again, and what has been fetched, is in the index.       *)
KeptInv == InRun /\ sel = Whole =>
  \A a \in acts : /\ a.kind \in {"refresh", "rename"} => mem[a.video] # None
                  /\ pc \in Late /\ Fetching(a) /\ a \notin todo /\ ~bad => mem[a.video] # None

(* After a clean whole run everything listed is in the index.              *)
CleanInv ==
  /\ sel # Whole => ~clean
  /\ ~InRun /\ clean => /\ \A s \in Stems : tmp[s] # None => s \in passed \/ NothingToDo
                        /\ \A v \in Videos \ Skip : Listed(v) => index[v] # None

BaseInv == /\ MemInv /\ SkipInv /\ PlannedInv /\ OldInv /\ FullInv
           /\ TempInv /\ KeptInv /\ CleanInv

LEMMA InitBase == Init => BaseInv
  <1> SUFFICES ASSUME Init PROVE BaseInv OBVIOUS
  <1>1. /\ pc = "idle" /\ mem = index /\ acts = {} /\ (\A s \in Stems : tmp[s] = None) /\ sel = Whole /\ clean
        /\ index = [v \in Videos |-> IF Listed(v) /\ v \notin Skip THEN Plain(StemOf(v)) ELSE None]
        /\ live \in Listings
    BY DEF Init, NoFile
  <1>2. ~InRun /\ pc \notin Early /\ pc \notin Late /\ pc \notin {"stage", "land"}
    BY <1>1 DEF InRun, Early, Late
  <1>3. \A v \in Skip : index[v] = None BY <1>1, SyncAssumption
  <1>4. \A v \in Videos \ Skip : Listed(v) => index[v] # None
    <2> SUFFICES ASSUME NEW v \in Videos \ Skip, Listed(v) PROVE index[v] # None OBVIOUS
    <2>1. index[v] = Plain(StemOf(v)) BY <1>1
    <2>2. Plain(StemOf(v)) \in Entries BY <1>1, StemOfListed DEF Plain, Entries
    <2> QED BY <2>1, <2>2, NoneAssumption
  <1> QED BY <1>1, <1>2, <1>3, <1>4 DEF BaseInv, MemInv, SkipInv, PlannedInv, OldInv, FullInv,
             TempInv, KeptInv, CleanInv

LEMMA PlainIs ==
  ASSUME NEW s \in Stems
  PROVE  /\ Plain(s) \in Entries /\ Plain(s) # None /\ Plain(s).stem = s /\ ~Plain(s).dup
         /\ \A t : Plain(t) = Plain(s) => t = s
  <1>1. Plain(s) \in Entries BY DEF Plain, Entries
  <1>2. \A t : Plain(t).stem = t BY DEF Plain
  <1> QED BY <1>1, <1>2, NoneAssumption DEF Plain

(* A saved entry of an action is an entry.                                 *)
LEMMA StoreEntry ==
  ASSUME IInv, NEW a \in todo, Stores(a)
  PROVE  /\ a.new \in Stems /\ a.video \in Videos
         /\ \E d \in BOOLEAN : /\ d \in Marks(a.new)
                               /\ mem' = [mem EXCEPT ![a.video] = [stem |-> a.new, dup |-> d]]
         /\ mem'[a.video] # None
         /\ \A v \in Videos : v # a.video => mem'[v] = mem[v]
  <1>1. a.new \in Stems /\ a.video \in Videos
    BY NewName, ActionFacts DEF Stores, Late
  <1>2. mem \in [Videos -> Entries \cup {None}] BY DEF IInv, TypeOK, IndexType
  <1>3. PICK d \in Marks(a.new) : mem' = [mem EXCEPT ![a.video] = [stem |-> a.new, dup |-> d]]
    BY DEF Stores
  <1>4. d \in BOOLEAN BY DEF Marks
  <1>5. [stem |-> a.new, dup |-> d] \in Entries BY <1>1, <1>4 DEF Entries
  <1>6. mem'[a.video] = [stem |-> a.new, dup |-> d] BY <1>1, <1>2, <1>3
  <1> QED BY <1>1, <1>2, <1>3, <1>4, <1>5, <1>6, NoneAssumption

(* AfterMoves, by the action of the video.                                 *)
LEMMA AfterMovesAre ==
  ASSUME IInv, PlannedInv, OldInv, pc = "land", NEW v \in Videos
  PROVE  /\ ~Acted(v) => AfterMoves[v] = mem[v]
         /\ \A a \in acts : a.video = v =>
              AfterMoves[v] = CASE Moving(a) -> None
                                [] a.kind = "rename" /\ mem[v] # None -> Plain(a.new)
                                [] OTHER -> mem[v]
  <1>1. InRun /\ pc \in Early BY DEF InRun, Early
  <1>2. CASE ~Acted(v) BY <1>2 DEF Acted, AfterMoves
  <1>3. ASSUME NEW a \in acts, a.video = v
        PROVE  AfterMoves[v] = CASE Moving(a) -> None
                                 [] a.kind = "rename" /\ mem[v] # None -> Plain(a.new)
                                 [] OTHER -> mem[v]
    <2>1. \A b \in acts : b.video = v => b = a BY <1>1, <1>3 DEF PlannedInv
    <2>2. a.kind # "add" => a.old # None BY <1>1 DEF OldInv
    <2>3. CASE Moving(a) BY <1>3, <2>2, <2>3 DEF AfterMoves, Moving
    <2>4. CASE ~Moving(a) /\ a.kind = "rename" /\ mem[v] # None
      <3>1. (CHOOSE b \in acts : b.video = v /\ b.kind = "rename") = a BY <1>3, <2>1, <2>4
      <3> QED BY <1>3, <2>1, <2>4, <3>1 DEF AfterMoves
    <2>5. CASE ~Moving(a) /\ ~(a.kind = "rename" /\ mem[v] # None)
      BY <1>3, <2>1, <2>5 DEF AfterMoves
    <2> QED BY <2>3, <2>4, <2>5
  <1> QED BY <1>2, <1>3 DEF Acted

LEMMA MemStep ==
  ASSUME IInv, [Next]_vars, BaseInv
  PROVE  MemInv'
  <1>0. MemInv BY DEF BaseInv
  <1>1. CASE Admit \/ RunWhole \/ ProviderChanges \/ Begun \/ NothingBegun
    BY <1>0, <1>1 DEF MemInv, Admit, RunWhole, ProviderChanges, run, Begun, NothingBegun, Late
  <1>2. CASE Working
    <2>1. CASE pc' \in Early BY <1>0, <1>2, <2>1, EarlySteps DEF MemInv, Early, Late
    <2>2. pc' \in Early \/ pc' \in Late
      BY <1>2, WorkingRuns, StepInv DEF IInv, TypeOK, RunType, Phases, InRun, Early, Late
    <2> QED BY <2>1, <2>2 DEF MemInv
  <1>3. CASE Ending BY <1>3, EndingEnds DEF MemInv
  <1>4. CASE UNCHANGED vars BY <1>0, <1>4 DEF MemInv, vars
  <1> QED BY <1>1, <1>2, <1>3, <1>4, StepKinds

LEMMA SkipStep ==
  ASSUME IInv, [Next]_vars, BaseInv
  PROVE  SkipInv'
  <1> SUFFICES ASSUME NEW v \in Skip PROVE index'[v] = None /\ mem'[v] = None
    BY DEF SkipInv
  <1>0. v \in Videos /\ index[v] = None /\ mem[v] = None
    BY SyncAssumption DEF BaseInv, SkipInv
  <1>1. CASE UNCHANGED <<index, mem>> BY <1>0, <1>1
  <1>2. CASE Working
    <2>1. \A a \in acts : a.video # v BY <1>2, WorkingRuns DEF BaseInv, PlannedInv
    <2>2. CASE SaveIndex
      <3>1. AfterMoves[v] = mem[v]
        BY <1>0, <2>1, <2>2, AfterMovesAre DEF SaveIndex, BaseInv, Acted
      <3> QED BY <1>0, <2>2, <3>1 DEF SaveIndex
    <2>3. ASSUME NEW a \in todo, Stores(a) PROVE index'[v] = None /\ mem'[v] = None
      <3>1. a.video # v BY <2>1, ActionFacts
      <3>2. mem'[v] = mem[v] BY <1>0, <2>3, <3>1, StoreEntry
      <3> QED BY <1>0, <2>3, <3>2 DEF Stores
    <2> QED BY <1>1, <1>2, <2>2, <2>3, IndexSteps
  <1>3. CASE Ending BY <1>0, <1>3, EndingEnds
  <1>4. CASE ~Working /\ ~Ending
    BY <1>1, <1>4, StepKinds DEF Admit, RunWhole, ProviderChanges, Begun, NothingBegun, vars
  <1> QED BY <1>2, <1>3, <1>4

LEMMA BegunActs ==
  ASSUME Begun, NEW a \in acts'
  PROVE  /\ a.video \in Videos \ Skip
         /\ a.old = index[a.video]
         /\ a.kind = "remove" <=> ~Listed(a.video)
         /\ a.kind # "add" => a.old # None
         /\ Listed(a.video) => a.new = StemOf(a.video)
         /\ \A b \in acts' : b.video = a.video => b = a
         /\ a.kind = "refresh" => \/ index[a.video] = Plain(a.new) /\ FileAt(index[a.video]) # None
                                  \/ lib[a.new] # None
         /\ a.kind = "rename" => index[a.video] # Plain(a.new) /\ FileAt(index[a.video]) # None
         /\ a.kind \in {"refresh", "rename", "add"} /\ FileAt(index[a.video]) # None
              => a.kind = IF index[a.video] = Plain(a.new) THEN "refresh" ELSE "rename"
  <1>1. PICK again \in SUBSET Videos : \A b \in acts' :
          /\ b.video \in Videos \ Skip /\ (Listed(b.video) \/ index[b.video] # None)
          /\ b = Planned(KindOf(again, b.video), b.video)
    BY DEF Begun
  <1> DEFINE v == a.video
  <1>2. /\ v \in Videos \ Skip /\ (Listed(v) \/ index[v] # None)
        /\ a = Planned(KindOf(again, v), v)
    BY <1>1
  <1>3. \A b \in acts' : b.video = v => b = a BY <1>1, <1>2
  <1>4. \A k : /\ Planned(k, v).kind = k /\ Planned(k, v).old = index[v]
               /\ Listed(v) => Planned(k, v).new = StemOf(v)
    BY DEF Planned
  <1>5. /\ a.kind = KindOf(again, v) /\ a.old = index[v]
        /\ Listed(v) => a.new = StemOf(v)
    BY <1>2, <1>4
  <1> HIDE DEF v
  <1>6. CASE ~Listed(v)
    <2>1. a.kind = "remove" BY <1>5, <1>6 DEF KindOf
    <2> QED BY <1>2, <1>3, <1>5, <1>6, <2>1 DEF v
  <1>7. CASE Listed(v) /\ index[v] = None
    <2>1. a.kind = "add" BY <1>5, <1>7 DEF KindOf
    <2>2. FileAt(index[v]) = None BY <1>7 DEF FileAt
    <2> QED BY <1>2, <1>3, <1>5, <1>7, <2>1, <2>2 DEF v
  <1>8. CASE Listed(v) /\ index[v] # None /\ v \in again
    <2>1. a.kind = "replace" BY <1>5, <1>8 DEF KindOf
    <2> QED BY <1>2, <1>3, <1>5, <1>8, <2>1 DEF v
  <1>9. CASE Listed(v) /\ index[v] # None /\ v \notin again
    <2>1. a.kind = Unchanged(v) BY <1>5, <1>9 DEF KindOf
    <2> QED BY <1>2, <1>3, <1>5, <1>9, <2>1, UnchangedKinds DEF v
  <1> QED BY <1>6, <1>7, <1>8, <1>9

LEMMA PlannedStep ==
  ASSUME IInv, [Next]_vars, BaseInv
  PROVE  PlannedInv'
  <1>0. PlannedInv BY DEF BaseInv
  <1>1. CASE Begun
    <2>1. live' = live BY <1>1 DEF Begun
    <2> QED BY <1>1, <2>1, BegunActs DEF PlannedInv, Listed, StemOf
  <1>2. CASE Working BY <1>0, <1>2, WorkingRuns DEF PlannedInv, Listed, StemOf
  <1>3. CASE Ending BY <1>3, EndingEnds DEF PlannedInv, InRun
  <1>4. CASE UNCHANGED vars BY <1>0, <1>4 DEF vars, PlannedInv, Listed, StemOf, InRun
  <1>5. CASE Admit \/ RunWhole \/ ProviderChanges \/ NothingBegun
    BY <1>5 DEF Admit, RunWhole, ProviderChanges, run, NothingBegun, PlannedInv, InRun
  <1> QED BY <1>1, <1>2, <1>3, <1>4, <1>5, StepKinds

LEMMA OldStep ==
  ASSUME IInv, [Next]_vars, BaseInv
  PROVE  OldInv'
  <1>0. OldInv BY DEF BaseInv
  <1>1. CASE Begun
    <2>1. index' = index BY <1>1 DEF Begun
    <2> QED BY <1>1, <2>1, BegunActs DEF OldInv
  <1>2. CASE Working BY <1>0, <1>2, WorkingRuns, EarlySteps DEF OldInv
  <1>3. CASE Ending BY <1>3, EndingEnds DEF OldInv, Early
  <1>4. CASE UNCHANGED vars BY <1>0, <1>4 DEF vars, OldInv
  <1>5. CASE Admit \/ RunWhole \/ ProviderChanges \/ NothingBegun
    BY <1>5 DEF Admit, RunWhole, ProviderChanges, run, NothingBegun, OldInv, Early
  <1> QED BY <1>1, <1>2, <1>3, <1>4, <1>5, StepKinds

LEMMA FullStep ==
  ASSUME IInv, [Next]_vars, BaseInv
  PROVE  FullInv'
  <1>0. FullInv BY DEF BaseInv
  <1>1. CASE Begun
    <2>1. /\ live' = live /\ index' = index /\ sel' = sel
          /\ sel = Whole => \A v \in Videos \ Skip : Listed(v) \/ index[v] # None
                              => \E a \in acts' : a.video = v
      BY <1>1 DEF Begun
    <2>2. \A v \in Videos : index[v] # None => v \notin Skip BY DEF BaseInv, SkipInv
    <2> QED BY <2>1, <2>2 DEF FullInv, Listed, Acted
  <1>2. CASE Working BY <1>0, <1>2, WorkingRuns, EarlySteps DEF FullInv, Listed, Acted
  <1>3. CASE Ending BY <1>3, EndingEnds DEF FullInv, InRun
  <1>4. CASE UNCHANGED vars BY <1>0, <1>4 DEF vars, FullInv, Listed, Acted, InRun
  <1>5. CASE Admit \/ RunWhole \/ ProviderChanges \/ NothingBegun
    BY <1>5 DEF Admit, RunWhole, ProviderChanges, run, NothingBegun, FullInv, InRun
  <1> QED BY <1>1, <1>2, <1>3, <1>4, <1>5, StepKinds

LEMMA TempStep ==
  ASSUME IInv, [Next]_vars, BaseInv
  PROVE  TempInv'
  <1>0. /\ TempInv
        /\ lib \in [Stems -> Videos \cup {None}] /\ tmp \in [Stems -> Videos \cup {None}]
    BY DEF BaseInv, IInv, TypeOK, FilesType
  <1>1. CASE pc' \notin {"stage", "land"} /\ pc' \notin Late BY <1>1 DEF TempInv
  <1>2. CASE UNCHANGED <<tmp, passed>> /\ pc \in Late /\ pc' \in Late
    BY <1>0, <1>2 DEF TempInv, Late
  <1>3. CASE Recovered
    <2>1. UNCHANGED <<tmp, passed>> /\ \A s \in Stems : tmp[s] # None => s \in passed
      BY <1>3 DEF Recovered, history
    <2> QED BY <2>1 DEF TempInv
  <1>4. ASSUME NEW a \in todo, StageRename(a) PROVE TempInv'
    <2>1. /\ pc = "stage" /\ pc' = "stage" /\ todo' = todo \ {a} /\ acts' = acts
          /\ passed' = passed
      BY <1>4 DEF StageRename, Rest, history
    <2>2. a \in acts /\ a.kind = "rename" /\ a.new \in Stems
      BY <2>1, ActionFacts, NewName DEF IInv, PhaseInv
    <2>3. \A s \in Stems : tmp'[s] # None => tmp[s] # None \/ s = a.new
      BY <1>0, <1>4, <2>2 DEF StageRename
    <2>4. ASSUME NEW s \in Stems, tmp'[s] # None, s \notin passed
          PROVE  \E b \in acts' \ todo' : b.kind = "rename" /\ b.new = s
      <3>1. CASE s = a.new BY <2>1, <2>2, <3>1
      <3>2. CASE tmp[s] # None BY <1>0, <2>1, <2>4, <3>2 DEF TempInv
      <3> QED BY <2>3, <2>4, <3>1, <3>2
    <2> QED BY <2>1, <2>4 DEF TempInv, Late
  <1>5. CASE Staged
    <2>1. /\ pc = "stage" /\ todo = {} /\ pc' = "land" /\ todo' = {a \in acts : a.kind = "rename"}
          /\ UNCHANGED <<tmp, passed>>
      BY <1>5 DEF Staged, Goto, history
    <2> QED BY <1>0, <2>1 DEF TempInv, Late
  <1>6. ASSUME NEW a \in todo, LandRename(a) PROVE TempInv'
    <2>1. /\ pc = "land" /\ pc' = "land" /\ todo' = todo \ {a} /\ passed' = passed
          /\ tmp' = [tmp EXCEPT ![a.new] = None]
      BY <1>6 DEF LandRename, Rest, history
    <2>2. a.new \in Stems BY <2>1, NewName
    <2>3. \A s \in Stems : tmp'[s] # None => tmp[s] # None /\ s # a.new BY <1>0, <2>1, <2>2
    <2> QED BY <1>0, <2>1, <2>3 DEF TempInv, Late
  <1>7. CASE SaveIndex
    <2>1. pc = "land" /\ todo = {} /\ UNCHANGED <<tmp, passed>> BY <1>7 DEF SaveIndex, history
    <2> QED BY <1>0, <2>1 DEF TempInv
  <1>8. CASE Begun \/ Admit \/ RunWhole \/ ProviderChanges \/ NothingBegun \/ Ending
    <2>1. pc' \in {"idle", "admitted", "move"}
      BY <1>8, EndingEnds DEF Begun, Admit, RunWhole, ProviderChanges, run, NothingBegun, IInv,
         TypeOK
    <2> QED BY <1>1, <2>1 DEF Late
  <1>9. CASE UNCHANGED vars BY <1>0, <1>9 DEF vars, TempInv
  <1>10. CASE Working
    <2>1. CASE MoveStep
      <3>1. pc' \in {"move", "recover"}
        BY <2>1 DEF MoveStep, Moved, MoveOld, MoveFails, Goto, Rest
      <3> QED BY <1>1, <3>1 DEF Late
    <2>2. CASE RenameStep
      <3>1. ASSUME NEW s \in Stems, RecoverOne(s) \/ RecoverFails(s) PROVE TempInv'
        BY <1>1, <3>1 DEF RecoverOne, RecoverFails, run, Late
      <3> QED BY <1>3, <1>4, <1>5, <1>6, <1>7, <2>2, <3>1 DEF RenameStep
    <2>3. CASE ~MoveStep /\ ~RenameStep
      <3>1. UNCHANGED <<tmp, passed>> /\ pc \in Late /\ pc' \in Late
        BY <1>10, <2>3 DEF Working, Downloaded, SkipOccupied, AdoptExisting, DownloadFails, AtDownload,
           Promote, Commit, Restore, Late, Goto, Rest, history
      <3> QED BY <1>2, <3>1
    <2> QED BY <2>1, <2>2, <2>3
  <1> QED BY <1>8, <1>9, <1>10, StepKinds

(* A step that leaves the run in its phases touches nothing of KeptInv but *)
(* where the index is stored.                                              *)
LEMMA KeptStep ==
  ASSUME IInv, [Next]_vars, BaseInv
  PROVE  KeptInv'
  <1>0. KeptInv /\ PlannedInv /\ OldInv /\ MemInv /\ acts \in SUBSET Actions /\ todo \in SUBSET acts
    BY DEF BaseInv, IInv, TypeOK, RunType
  <1> DEFINE kept(b) == b.kind \in {"refresh", "rename"} => mem[b.video] # None
             fetched(b) == pc \in Late /\ Fetching(b) /\ b \notin todo /\ ~bad
                             => mem[b.video] # None
  <1>1. CASE Begun
    <2>1. pc' = "move" /\ mem' = mem /\ mem = index
      BY <1>0, <1>1 DEF Begun, MemInv, Late
    <2>2. ASSUME NEW b \in acts', b.kind \in {"refresh", "rename"} PROVE mem'[b.video] # None
      BY <1>1, <2>1, <2>2, BegunActs
    <2> QED BY <2>1, <2>2 DEF KeptInv, Late
  <1>2. CASE Admit \/ RunWhole \/ ProviderChanges \/ NothingBegun \/ Ending
    <2>1. pc' \in {"idle", "admitted"}
      BY <1>2, EndingEnds DEF Admit, RunWhole, ProviderChanges, run, NothingBegun
    <2> QED BY <2>1 DEF KeptInv, InRun
  <1>3. CASE UNCHANGED vars BY <1>0, <1>3 DEF vars, KeptInv, InRun
  <1>4. CASE Working
    <2>0. InRun /\ InRun' /\ UNCHANGED <<live, sel, acts>> BY <1>4, WorkingRuns
    <2> SUFFICES ASSUME sel = Whole, NEW b \in acts PROVE kept(b)' /\ fetched(b)'
      BY <2>0 DEF KeptInv
    <2>1. kept(b) /\ fetched(b) /\ b.video \in Videos BY <1>0, <2>0 DEF KeptInv, Actions
    <2>2. CASE SaveIndex
      <3>1. pc = "land" /\ mem' = AfterMoves /\ todo' = {a \in acts : Fetching(a)} /\ pc \in Early
        BY <2>2 DEF SaveIndex, Goto, Early
      <3>2. b.kind \in {"refresh", "rename"} => mem'[b.video] # None
        <4> SUFFICES ASSUME b.kind \in {"refresh", "rename"} PROVE mem'[b.video] # None OBVIOUS
        <4>1. mem[b.video] # None BY <2>1
        <4>2. AfterMoves[b.video] \in {Plain(b.new), mem[b.video]}
          BY <1>0, <2>1, <3>1, AfterMovesAre DEF Moving
        <4>3. b.new \in Stems BY DEF IInv, ActsInv, Meant
        <4>4. Plain(b.new) # None BY <4>3, PlainIs
        <4> QED BY <3>1, <4>1, <4>2, <4>4
      <3> QED BY <3>1, <3>2
    <2>3. ASSUME NEW a \in todo, Stores(a) PROVE kept(b)' /\ fetched(b)'
      <3>1. mem'[a.video] # None /\ (b.video # a.video => mem'[b.video] = mem[b.video])
        BY <2>1, <2>3, StoreEntry
      <3>2. pc \in Late /\ todo' = todo \ {a} /\ bad' = bad BY <2>3 DEF Stores
      <3>3. CASE b.video = a.video BY <3>1, <3>3
      <3>4. CASE b.video # a.video BY <2>1, <3>1, <3>2, <3>4
      <3> QED BY <3>3, <3>4
    <2>4. CASE UNCHANGED <<index, mem>>
      <3>1. b.kind \in {"refresh", "rename"} => mem'[b.video] # None BY <2>1, <2>4
      <3>2. CASE pc' \in Early BY <3>1, <3>2 DEF Early, Late
      <3>3. CASE Downloaded
        <4>1. pc = "download" /\ todo = {} /\ bad' = bad BY <3>3 DEF Downloaded
        <4> QED BY <2>1, <2>4, <3>1, <4>1 DEF Late
      <3>4. ASSUME NEW a \in todo, SkipOccupied(a) \/ DownloadFails(a)
            PROVE  fetched(b)'
        <4>1. bad' = TRUE BY <2>0, <3>4 DEF SkipOccupied, DownloadFails
        <4> QED BY <4>1
      <3>5. ASSUME NEW a \in todo, Promote(a) PROVE fetched(b)'
        <4>1. pc = "download" /\ todo' = todo /\ bad' = bad BY <3>5 DEF Promote, AtDownload
        <4> QED BY <2>1, <2>4, <4>1 DEF Late
      <3>6. ASSUME NEW a \in todo, AdoptExisting(a) \/ Commit(a) \/ Restore(a) PROVE fetched(b)'
        <4>1. Stores(a) BY <3>6 DEF Stores, AdoptExisting, AtDownload, Commit, Restore, Goto, Rest, Late
        <4> QED BY <2>3, <4>1
      <3>7. CASE MoveStep \/ RenameStep
        <4>1. pc' \in Early \/ SaveIndex
          BY <3>7 DEF MoveStep, RenameStep, Moved, MoveOld, MoveFails, RecoverOne, RecoverFails, run,
             Recovered, StageRename, Staged, LandRename, Goto, Rest, Early
        <4> QED BY <2>2, <3>2, <4>1
      <3> QED BY <1>4, <3>1, <3>3, <3>4, <3>5, <3>6, <3>7 DEF Working
    <2> QED BY <1>4, <2>2, <2>3, <2>4, IndexSteps
  <1> QED BY <1>1, <1>2, <1>3, <1>4, StepKinds

LEMMA CleanStep ==
  ASSUME IInv, [Next]_vars, BaseInv
  PROVE  CleanInv'
  <1>0. CleanInv BY DEF BaseInv
  <1>1. CASE Admit
    <2>1. PICK v \in Videos \ Skip : Listed(v) /\ index[v] = None
      BY <1>1 DEF Admit
    <2>2. pc = "idle" /\ pc' = "admitted" /\ clean' = clean BY <1>1 DEF Admit, history
    <2>3. ~clean BY <1>0, <2>1, <2>2 DEF CleanInv, InRun
    <2> QED BY <2>2, <2>3 DEF CleanInv
  <1>2. CASE RunWhole
    <2>1. pc = "idle" /\ sel' = Whole /\ UNCHANGED <<live, tmp, index, passed, clean>>
      BY <1>2 DEF RunWhole, history
    <2> QED BY <1>0, <2>1 DEF CleanInv, InRun, Listed, NothingToDo
  <1>3. CASE ProviderChanges BY <1>3 DEF ProviderChanges, CleanInv
  <1>4. CASE Begun BY <1>0, <1>4 DEF Begun, CleanInv, InRun
  <1>5. CASE NothingBegun
    <2>1. sel' = Whole /\ UNCHANGED <<live, index>> /\ (sel # Whole => clean' = clean)
      BY <1>5 DEF NothingBegun
    <2>2. CASE sel # Whole BY <1>0, <2>1, <2>2 DEF CleanInv
    <2>3. CASE sel = Whole
      <3>1. NothingToDo BY <1>5, <2>3 DEF NothingBegun, NothingToDo
      <3> QED BY <2>1, <3>1 DEF CleanInv, NothingToDo, Listed
    <2> QED BY <2>2, <2>3
  <1>6. CASE Working BY <1>0, <1>6, WorkingRuns DEF CleanInv
  <1>7. CASE Ending
    <2>1. InRun /\ sel' = Whole /\ live' = live /\ tmp' = tmp BY <1>7, EndingEnds
    <2>2. CASE clean' = FALSE BY <2>1, <2>2 DEF CleanInv
    <2>3. CASE pc = "finish" /\ todo = {} /\ index' = mem
               /\ clean' = IF sel = Whole THEN ~bad ELSE clean
      <3> SUFFICES ASSUME clean' PROVE CleanInv' BY <2>1 DEF CleanInv
      <3>1. sel = Whole /\ ~bad BY <1>0, <2>3 DEF CleanInv
      <3>2. /\ \A s \in Stems : tmp[s] # None => s \in passed
            /\ passed' = passed
        BY <2>3, <1>7 DEF BaseInv, TempInv, Late, Ending, Finish, Crash, AuthFails
      <3>3. ASSUME NEW v \in Videos \ Skip, Listed(v) PROVE mem[v] # None
        <4>1. PICK a \in acts : a.video = v BY <2>1, <3>1, <3>3 DEF BaseInv, FullInv, Acted
        <4>2. a.kind \in {"add", "replace", "rename", "refresh"}
          BY <2>1, <3>3, <4>1 DEF BaseInv, PlannedInv, IInv, TypeOK, RunType, Actions, Kinds
        <4> QED BY <2>1, <2>3, <3>1, <4>1, <4>2 DEF BaseInv, KeptInv, Fetching, Late
      <3> QED BY <2>1, <2>3, <3>2, <3>3 DEF CleanInv, Listed
    <2> QED BY <1>7, <2>2, <2>3, EndingEnds
  <1>8. CASE UNCHANGED vars BY <1>0, <1>8 DEF vars, CleanInv, InRun, Listed, NothingToDo
  <1> QED BY <1>1, <1>2, <1>3, <1>4, <1>5, <1>6, <1>7, <1>8, StepKinds

LEMMA BaseStep ==
  ASSUME IInv, [Next]_vars, BaseInv
  PROVE  BaseInv'
  BY MemStep, SkipStep, PlannedStep, OldStep, FullStep, TempStep, KeptStep, CleanStep DEF BaseInv

-----------------------------------------------------------------------------
(***************************************************************************)
(* A whole run heals: what a whole run does to a video whose title is its  *)
(* own is on track, in every phase, for the library the listing asks for.  *)
(***************************************************************************)
OnTrack(a) ==
  /\ a.kind = "refresh" => lib[a.new] = a.video
  /\ a.kind = "rename" =>
       /\ pc \in {"move", "recover"} => FileAt(a.old) # None
       /\ pc = "stage" => IF a \in todo THEN FileAt(a.old) # None ELSE tmp[a.new] = a.video
       /\ pc = "land" => IF a \in todo THEN tmp[a.new] = a.video ELSE lib[a.new] = a.video
       /\ pc \in Late => lib[a.new] = a.video
  /\ Fetching(a) /\ ~bad =>
       /\ pc \in Late /\ a \notin todo => lib[a.new] = a.video
       /\ pc = "commit" /\ First(a) => lib[a.new] = a.video

HealInv ==
  /\ InRun /\ sel = Whole => \A a \in acts : OwnTitle(a.video) => OnTrack(a)
  /\ ~InRun /\ clean => \A v \in Videos \ Skip : Listed(v) /\ OwnTitle(v) => lib[StemOf(v)] = v

(* A file under such a title is one of that video.                         *)
LEMMA OwnFiles ==
  ASSUME IInv, NEW v \in Videos, OwnTitle(v), NEW s \in Stems, s.title = Title[v]
  PROVE  lib[s] \in {v, None} /\ tmp[s] \in {v, None}
  BY DEF IInv, TypeOK, FilesType, FilesTitled, OwnTitle

LEMMA OwnAct ==
  ASSUME IInv, NEW a \in acts, OwnTitle(a.video), a.kind # "remove"
  PROVE  /\ a.video \in Videos /\ a.video # None
         /\ a.new \in Stems /\ a.new.title = Title[a.video]
         /\ lib[a.new] \in {a.video, None} /\ tmp[a.new] \in {a.video, None}
         /\ FileAt(a.old) # None => /\ a.old # None /\ ~a.old.dup
                                    /\ a.old.stem \in Stems /\ a.old.stem.title = Title[a.video]
                                    /\ lib[a.old.stem] = a.video
  <1>1. a \in Actions /\ a.video \in Videos /\ a.old \in Entries \cup {None}
    BY DEF IInv, TypeOK, RunType, Actions
  <1>2. a.new \in Stems /\ a.new.title = Title[a.video] /\ Named(a.old, a.video)
    BY DEF IInv, ActsInv, Meant
  <1>3. lib[a.new] \in {a.video, None} /\ tmp[a.new] \in {a.video, None}
    BY <1>1, <1>2, OwnFiles
  <1>4. ASSUME FileAt(a.old) # None
        PROVE  /\ a.old # None /\ ~a.old.dup
               /\ a.old.stem \in Stems /\ a.old.stem.title = Title[a.video]
               /\ lib[a.old.stem] = a.video
    <2>1. a.old # None /\ ~a.old.dup /\ lib[a.old.stem] # None BY <1>4 DEF FileAt
    <2>2. a.old.stem \in Stems /\ a.old.stem.title = Title[a.video]
      BY <1>1, <1>2, <2>1 DEF Entries, Named
    <2> QED BY <1>1, <2>1, <2>2, OwnFiles
  <1> QED BY <1>1, <1>2, <1>3, <1>4, NoneAssumption

(* Another action moves files of other titles.                             *)
LEMMA OtherAct ==
  ASSUME IInv, PlannedInv, InRun, NEW a \in acts, OwnTitle(a.video), NEW b \in todo, b # a
  PROVE  /\ b.video \in Videos /\ Title[b.video] # Title[a.video]
         /\ b.old # None => b.old.stem \in Stems /\ b.old.stem.title # Title[a.video]
         /\ b.kind # "remove" => b.new \in Stems /\ b.new.title # Title[a.video]
  <1>1. b \in acts /\ b.video \in Videos /\ Meant(b)
        /\ (b.old # None => b.old.stem \in Stems /\ b.old.stem.title = Title[b.video])
    BY ActionFacts
  <1>2. b.video # a.video BY <1>1 DEF PlannedInv
  <1>3. Title[b.video] # Title[a.video] BY <1>1, <1>2 DEF OwnTitle
  <1> QED BY <1>1, <1>3 DEF Meant

(* Two videos of a listing have different numbers.                         *)
LEMMA ListedApart ==
  ASSUME IInv, NEW v \in Videos, NEW w \in Videos, Listed(v), live[v] = live[w]
  PROVE  v = w
  BY DEF IInv, TypeOK, Listings, Listing, Listed

LEMMA FirstIsOne ==
  ASSUME IInv, PlannedInv, pc \in {"stage", "land", "download", "commit", "finish"},
         NEW a, NEW b, First(a), First(b)
  PROVE  a = b
  <1>1. InRun /\ a \in todo /\ b \in todo BY DEF InRun, First
  <1>2. a \in acts /\ b \in acts /\ a.video \in Videos /\ b.video \in Videos
        /\ a.new \in Stems /\ b.new \in Stems /\ a.kind # "remove" /\ b.kind # "remove"
    BY <1>1, ActionFacts, NewName DEF IInv, PhaseInv, Fetching
  <1>3. a.new.ep \in Nat /\ b.new.ep \in Nat
    BY <1>2, CardinalityNat DEF Stems, Slots
  <1>4. a.new.ep = b.new.ep BY <1>1, <1>3 DEF First
  <1>5. Listed(a.video) /\ Listed(b.video) /\ a.new = StemOf(a.video) /\ b.new = StemOf(b.video)
    BY <1>1, <1>2 DEF PlannedInv
  <1>6. live[a.video] = live[b.video] BY <1>4, <1>5 DEF StemOf
  <1>7. a.video = b.video BY <1>2, <1>5, <1>6, ListedApart
  <1> QED BY <1>1, <1>2, <1>7 DEF PlannedInv

LEMMA InitHeal == Init => HealInv
  <1> SUFFICES ASSUME Init PROVE HealInv OBVIOUS
  <1>1. /\ pc = "idle" /\ live \in Listings /\ IInv
        /\ index = [v \in Videos |-> IF Listed(v) /\ v \notin Skip THEN Plain(StemOf(v)) ELSE None]
        /\ lib = [s \in Stems |-> IF \E v \in Videos : index[v] = Plain(s)
                                  THEN CHOOSE v \in Videos : index[v] = Plain(s) ELSE None]
    BY InitInv DEF Init
  <1>2. ASSUME NEW v \in Videos \ Skip, Listed(v), OwnTitle(v) PROVE lib[StemOf(v)] = v
    <2>1. StemOf(v) \in Stems /\ StemOf(v).title = Title[v] BY <1>1, <1>2, StemOfListed
    <2>2. index[v] = Plain(StemOf(v)) BY <1>1, <1>2
    <2>3. lib[StemOf(v)] \in Videos
      <3>1. (CHOOSE w \in Videos : index[w] = Plain(StemOf(v))) \in Videos BY <2>2
      <3> QED BY <1>1, <2>1, <2>2, <3>1
    <2>4. lib[StemOf(v)] \in {v, None} BY <1>1, <1>2, <2>1, OwnFiles
    <2> QED BY <2>3, <2>4, NoneAssumption
  <1> QED BY <1>1, <1>2 DEF HealInv, InRun

LEMMA HealBegun ==
  ASSUME IInv, [Next]_vars, BaseInv, Begun, NEW a \in acts', OwnTitle(a.video)
  PROVE  OnTrack(a)'
  <1>1. /\ pc' = "move" /\ UNCHANGED <<live, lib, tmp, index>> /\ a.video \in Videos
        /\ a.old = index[a.video]
    BY BegunActs DEF Begun
  <1>2. IInv' BY StepInv
  <1>3. a.kind # "remove" => /\ a.new \in Stems /\ a.new.title = Title[a.video]
    BY <1>2 DEF IInv, ActsInv, Meant
  <1>4. a.kind = "refresh" => lib[a.new] = a.video
    <2> SUFFICES ASSUME a.kind = "refresh" PROVE lib[a.new] = a.video OBVIOUS
    <2>1. lib[a.new] # None
      <3>1. CASE index[a.video] = Plain(a.new) /\ FileAt(index[a.video]) # None
        BY <3>1 DEF FileAt, Plain
      <3> QED BY <3>1, BegunActs
    <2> QED BY <1>1, <1>3, <2>1, OwnFiles
  <1>5. a.kind = "rename" => FileAt(a.old) # None BY <1>1, BegunActs
  <1> QED BY <1>1, <1>4, <1>5 DEF OnTrack, FileAt, Late

LEMMA HealMoves ==
  ASSUME IInv, BaseInv, MoveStep, sel = Whole, NEW a \in acts, OwnTitle(a.video), OnTrack(a)
  PROVE  OnTrack(a)'
  <1>0. /\ InRun /\ PlannedInv /\ pc = "move" /\ pc' \in {"move", "recover"}
        /\ lib \in [Stems -> Videos \cup {None}]
    BY DEF MoveStep, Moved, MoveOld, MoveFails, Goto, Rest, InRun, BaseInv, IInv, TypeOK, FilesType
  <1>1. CASE lib' = lib BY <1>0, <1>1 DEF OnTrack, FileAt, Late
  <1>2. ASSUME NEW b \in todo, MoveOld(b) PROVE OnTrack(a)'
    <2>1. Moving(b) /\ b.old # None BY <1>0 DEF IInv, PhaseInv
    <2>2. CASE a.kind \notin {"refresh", "rename"} BY <1>0, <2>2 DEF OnTrack, Late
    <2>3. CASE a.kind \in {"refresh", "rename"}
      <3>1. b # a BY <2>1, <2>3 DEF Moving
      <3>2. b.old.stem \in Stems /\ b.old.stem.title # Title[a.video]
        BY <1>0, <2>1, <3>1, OtherAct
      <3>3. \A s \in Stems : s.title = Title[a.video] => lib'[s] = lib[s]
        BY <1>0, <1>2, <3>2 DEF MoveOld
      <3> QED BY <1>0, <2>3, <3>3, OwnAct DEF OnTrack, FileAt, Late, Fetching
    <2> QED BY <2>2, <2>3
  <1> QED BY <1>1, <1>2 DEF MoveStep, Moved, MoveFails

LEMMA HealRenames ==
  ASSUME IInv, BaseInv, RenameStep, sel = Whole, NEW a \in acts, OwnTitle(a.video), OnTrack(a)
  PROVE  OnTrack(a)'
  <1>0. /\ PlannedInv /\ pc \in {"recover", "stage", "land"} /\ InRun
        /\ lib \in [Stems -> Videos \cup {None}] /\ tmp \in [Stems -> Videos \cup {None}]
    BY DEF RenameStep, RecoverOne, RecoverFails, Recovered, StageRename, Staged, LandRename, SaveIndex, BaseInv,
       InRun, IInv, TypeOK, FilesType
  <1>1. CASE a.kind \notin {"refresh", "rename"}
    <2>1. CASE pc' \notin Late BY <1>1, <2>1 DEF OnTrack, Late
    <2>2. CASE pc' \in Late
      <3>1. SaveIndex
        BY <2>2 DEF RenameStep, RecoverOne, RecoverFails, run,
         Recovered, StageRename, Staged, LandRename, Goto,
           Rest, Late
      <3>2. pc' = "download" /\ (Fetching(a) => a \in todo') BY <3>1 DEF SaveIndex, Goto
      <3> QED BY <1>1, <3>2 DEF OnTrack
    <2> QED BY <2>1, <2>2
  <1>2. CASE a.kind \in {"refresh", "rename"}
    <2>0. /\ ~Fetching(a) /\ a.video # None /\ a.new \in Stems /\ a.new.title = Title[a.video]
          /\ lib[a.new] \in {a.video, None} /\ tmp[a.new] \in {a.video, None}
      BY <1>2, OwnAct DEF Fetching
    <2>1. ASSUME NEW s \in Stems, RecoverOne(s) PROVE OnTrack(a)'
      <3>1. \A t \in Stems : lib[t] # None => lib'[t] = lib[t] BY <1>0, <2>1 DEF RecoverOne
      <3>2. pc = "recover" /\ pc' = "recover" BY <2>1 DEF RecoverOne, run
      <3>3. FileAt(a.old) # None => FileAt(a.old)' # None
        BY <1>2, <3>1, OwnAct DEF FileAt
      <3> QED BY <2>0, <3>1, <3>2, <3>3 DEF OnTrack, Late
    <2>7. ASSUME NEW s \in Stems, RecoverFails(s) PROVE OnTrack(a)'
      <3>1. pc = "recover" /\ pc' = "recover" /\ lib' = lib BY <2>7 DEF RecoverFails, run
      <3> QED BY <2>0, <3>1 DEF OnTrack, FileAt, Late
    <2>2. CASE Recovered
      <3>1. pc = "recover" /\ pc' = "stage" /\ lib' = lib /\ (a.kind = "rename" => a \in todo')
        BY <2>2 DEF Recovered, Goto
      <3> QED BY <2>0, <3>1 DEF OnTrack, FileAt, Late
    <2>3. ASSUME NEW b \in todo, StageRename(b) PROVE OnTrack(a)'
      <3>1. /\ pc = "stage" /\ pc' = "stage" /\ todo' = todo \ {b} /\ b.kind = "rename"
        BY <2>3 DEF StageRename, Rest, IInv, PhaseInv
      <3>2. CASE b = a
        <4>1. FileAt(a.old) # None BY <3>1, <3>2 DEF OnTrack
        <4>2. tmp' = [tmp EXCEPT ![a.new] = lib[a.old.stem]] BY <2>3, <3>2, <4>1 DEF StageRename
        <4>3. lib[a.old.stem] = a.video BY <1>2, <4>1, OwnAct
        <4>4. tmp'[a.new] = a.video BY <1>0, <2>0, <4>2, <4>3
        <4> QED BY <2>0, <3>1, <3>2, <4>4 DEF OnTrack, Late
      <3>3. CASE b # a
        <4>1. /\ b.new \in Stems /\ b.new.title # Title[a.video]
              /\ b.old # None => b.old.stem \in Stems /\ b.old.stem.title # Title[a.video]
          BY <1>0, <3>1, <3>3, OtherAct
        <4>2. FileAt(b.old) # None => b.old # None BY DEF FileAt
        <4>3. \A s \in Stems : s.title = Title[a.video] => lib'[s] = lib[s] /\ tmp'[s] = tmp[s]
          BY <1>0, <2>3, <4>1, <4>2 DEF StageRename
        <4>4. FileAt(a.old) # None => FileAt(a.old)' # None
          BY <1>2, <4>3, OwnAct DEF FileAt
        <4>5. a \in todo' <=> a \in todo BY <3>1, <3>3
        <4> QED BY <2>0, <3>1, <4>3, <4>4, <4>5 DEF OnTrack, Late
      <3> QED BY <3>2, <3>3
    <2>4. CASE Staged
      <3>1. /\ pc = "stage" /\ todo = {} /\ pc' = "land" /\ UNCHANGED <<lib, tmp>>
            /\ a.kind = "rename" => a \in todo'
        BY <2>4 DEF Staged, Goto
      <3> QED BY <2>0, <3>1 DEF OnTrack, Late
    <2>5. ASSUME NEW b \in todo, LandRename(b) PROVE OnTrack(a)'
      <3>1. /\ pc = "land" /\ pc' = "land" /\ todo' = todo \ {b} /\ b.kind = "rename"
            /\ lib' = IF tmp[b.new] = None THEN lib ELSE [lib EXCEPT ![b.new] = tmp[b.new]]
            /\ tmp' = [tmp EXCEPT ![b.new] = None]
        BY <2>5 DEF LandRename, Rest, IInv, PhaseInv
      <3>2. CASE b = a
        <4>1. tmp[a.new] = a.video BY <3>1, <3>2 DEF OnTrack
        <4>2. lib'[a.new] = a.video BY <1>0, <2>0, <3>1, <3>2, <4>1
        <4> QED BY <2>0, <3>1, <3>2, <4>2 DEF OnTrack, Late
      <3>3. CASE b # a
        <4>1. b.new \in Stems /\ b.new # a.new
          BY <1>0, <2>0, <3>1, <3>3, OtherAct
        <4>2. lib'[a.new] = lib[a.new] /\ tmp'[a.new] = tmp[a.new] BY <1>0, <2>0, <3>1, <4>1
        <4>3. a \in todo' <=> a \in todo BY <3>1, <3>3
        <4> QED BY <2>0, <3>1, <4>2, <4>3 DEF OnTrack, Late
      <3> QED BY <3>2, <3>3
    <2>6. CASE SaveIndex
      <3>1. pc = "land" /\ todo = {} /\ pc' = "download" /\ lib' = lib BY <2>6 DEF SaveIndex, Goto
      <3> QED BY <2>0, <3>1 DEF OnTrack, Late
    <2> QED BY <2>1, <2>2, <2>3, <2>4, <2>5, <2>6, <2>7 DEF RenameStep
  <1> QED BY <1>1, <1>2

LEMMA HealDownloads ==
  ASSUME IInv, BaseInv, Working, ~MoveStep, ~RenameStep,
         sel = Whole, NEW a \in acts, OwnTitle(a.video), OnTrack(a)
  PROVE  OnTrack(a)'
  <1>0. /\ PlannedInv /\ InRun /\ pc \in Late /\ pc' \in Late
        /\ lib \in [Stems -> Videos \cup {None}]
    BY WorkingRuns DEF Working, Downloaded, SkipOccupied, AdoptExisting, DownloadFails, AtDownload,
       Promote, Commit, Restore, Late, BaseInv, IInv, TypeOK, FilesType, Goto, Rest
  <1>1. ASSUME NEW b \in todo, AdoptExisting(b) \/ Commit(b) PROVE OnTrack(a)'
    <2>1. /\ lib' = lib /\ bad' = bad /\ todo' = todo \ {b} /\ pc' = "download"
          /\ \/ lib[b.new] # None
             \/ pc = "commit" /\ First(b)
          /\ Fetching(b)
      BY <1>1 DEF AdoptExisting, AtDownload, Commit, Rest, Goto, Fetching, IInv, PhaseInv
    <2>2. ASSUME b = a, ~bad PROVE lib[a.new] = a.video
      <3>1. CASE lib[b.new] # None BY <2>1, <2>2, <3>1, OwnAct DEF Fetching
      <3>2. CASE pc = "commit" /\ First(b) BY <2>1, <2>2, <3>2 DEF OnTrack
      <3> QED BY <2>1, <3>1, <3>2
    <2> QED BY <1>0, <2>1, <2>2 DEF OnTrack, Late
  <1>2. ASSUME NEW b \in todo, SkipOccupied(b) \/ DownloadFails(b) PROVE OnTrack(a)'
    <2>1. lib' = lib /\ bad' = TRUE BY <1>2 DEF SkipOccupied, DownloadFails
    <2> QED BY <1>0, <2>1 DEF OnTrack, Late
  <1>3. ASSUME NEW b \in todo, Promote(b) PROVE OnTrack(a)'
    <2>1. /\ pc = "download" /\ First(b) /\ bad' = bad /\ todo' = todo /\ pc' = "commit"
          /\ lib' = [lib EXCEPT ![b.new] = b.video] /\ Fetching(b)
      BY <1>3 DEF Promote, AtDownload, IInv, PhaseInv
    <2>2. b.new \in Stems BY <2>1, NewName
    <2>3. CASE b = a
      <3>1. lib'[a.new] = a.video BY <1>0, <2>1, <2>2, <2>3
      <3>2. a \in todo' BY <2>1, <2>3
      <3> QED BY <1>0, <2>1, <2>3, <3>1, <3>2 DEF OnTrack, Late
    <2>4. CASE b # a
      <3>1. a.kind # "remove" => a.new \in Stems /\ lib'[a.new] = lib[a.new]
        BY <1>0, <2>1, <2>2, <2>4, OwnAct, OtherAct DEF Fetching
      <3>2. ~First(a)' BY <1>0, <2>1, <2>4, FirstIsOne DEF First
      <3> QED BY <1>0, <2>1, <3>1, <3>2 DEF OnTrack, Late, Fetching
    <2> QED BY <2>3, <2>4
  <1>4. CASE Downloaded
    <2>1. pc = "download" /\ todo = {} /\ pc' = "finish" /\ lib' = lib /\ bad' = bad
      BY <1>4 DEF Downloaded, Goto
    <2> QED BY <1>0, <2>1 DEF OnTrack, Late
  <1>5. ASSUME NEW b \in todo, Restore(b) PROVE OnTrack(a)'
    <2>1. pc = "finish" /\ pc' = "finish" /\ todo' = todo \ {b} /\ lib' = lib /\ bad' = bad
          /\ ~Fetching(b)
      BY <1>5 DEF Restore, Rest, IInv, PhaseInv, Fetching
    <2> QED BY <1>0, <2>1 DEF OnTrack, Late
  <1> QED BY <1>1, <1>2, <1>3, <1>4, <1>5 DEF Working

LEMMA HealEnds ==
  ASSUME IInv, BaseInv, HealInv, Ending, clean',
         NEW v \in Videos \ Skip, Listed(v), OwnTitle(v)
  PROVE  lib[StemOf(v)] = v
  <1>1. /\ InRun /\ pc = "finish" /\ todo = {} /\ sel = Whole /\ ~bad
    BY EndingEnds DEF BaseInv, CleanInv
  <1>2. PICK a \in acts : a.video = v BY <1>1 DEF BaseInv, FullInv, Acted
  <1>3. OnTrack(a) BY <1>1, <1>2 DEF HealInv
  <1>4. a.new = StemOf(v) /\ a.kind \in {"add", "replace", "rename", "refresh"}
    BY <1>1, <1>2 DEF BaseInv, PlannedInv, IInv, TypeOK, RunType, Actions, Kinds
  <1> QED BY <1>1, <1>2, <1>3, <1>4 DEF OnTrack, Late, Fetching

LEMMA HealStep ==
  ASSUME IInv, [Next]_vars, BaseInv, HealInv
  PROVE  HealInv'
  <1>1. CASE Begun
    <2>1. sel' = sel /\ InRun' BY <1>1 DEF Begun, InRun
    <2> QED BY <1>1, <2>1, HealBegun DEF HealInv
  <1>2. CASE Working
    <2>1. InRun /\ InRun' /\ UNCHANGED <<sel, acts>> BY <1>2, WorkingRuns
    <2>2. ASSUME sel = Whole, NEW a \in acts, OwnTitle(a.video) PROVE OnTrack(a)'
      <3>1. OnTrack(a) BY <2>1, <2>2 DEF HealInv
      <3> QED BY <1>2, <2>2, <3>1, HealMoves, HealRenames, HealDownloads
    <2> QED BY <2>1, <2>2 DEF HealInv
  <1>3. CASE Ending
    <2>1. pc' = "idle" /\ UNCHANGED <<live, lib>> BY <1>3, EndingEnds
    <2> QED BY <1>3, <2>1, HealEnds DEF HealInv, InRun, Listed, StemOf
  <1>4. CASE NothingBegun
    <2>1. /\ pc' = "idle" /\ UNCHANGED <<live, lib>> /\ (sel # Whole => clean' = clean)
          /\ sel = Whole => \A v \in Videos \ Skip : ~Listed(v)
      BY <1>4 DEF NothingBegun
    <2>2. sel # Whole => ~clean BY DEF BaseInv, CleanInv
    <2> QED BY <2>1, <2>2 DEF HealInv, InRun, Listed
  <1>5. CASE Admit \/ RunWhole
    <2>1. pc = "idle" /\ pc' = "admitted" /\ UNCHANGED <<live, lib, clean>>
      BY <1>5 DEF Admit, RunWhole, history
    <2> QED BY <2>1 DEF HealInv, InRun, Listed, StemOf
  <1>6. CASE ProviderChanges
    <2>1. pc' \in {"idle", "admitted"} /\ clean' = FALSE BY <1>6 DEF ProviderChanges, run
    <2> QED BY <2>1 DEF HealInv, InRun
  <1>7. CASE UNCHANGED vars
    <2>1. UNCHANGED <<live, lib, tmp, pc, sel, acts, todo, bad, clean>> BY <1>7 DEF vars
    <2>2. \A a : OnTrack(a)' <=> OnTrack(a) BY <2>1 DEF OnTrack, FileAt, First
    <2> QED BY <2>1, <2>2 DEF HealInv, InRun, Listed, StemOf
  <1> QED BY <1>1, <1>2, <1>3, <1>4, <1>5, <1>6, <1>7, StepKinds

LEMMA HealInvariance == Spec => [](IInv /\ BaseInv /\ HealInv)
  <1>1. Init => IInv /\ BaseInv /\ HealInv BY InitInv, InitBase, InitHeal
  <1>2. IInv /\ BaseInv /\ HealInv /\ [Next]_vars => (IInv /\ BaseInv /\ HealInv)'
    BY StepInv, BaseStep, HealStep
  <1> QED BY <1>1, <1>2, PTL DEF Spec

-----------------------------------------------------------------------------
(***************************************************************************)
(* Without crashes and failed moves: where the files are, phase by phase.  *)
(***************************************************************************)
AtRest == {"idle", "admitted", "download", "finish"}

(* The file of a video has been archived for its action.                   *)
Gone(v) == \E a \in acts : a.video = v /\ Moving(a) /\ (pc = "move" => a \notin todo)
Renames(v) == \E a \in acts : a.video = v /\ a.kind = "rename"

(* The file of a video is at this stem; or under this temporary name.      *)
InPlace(v, s) ==
  \/ pc \in AtRest /\ index[v] = Plain(s)
  \/ pc \in {"move", "recover"} /\ index[v] = Plain(s) /\ ~Gone(v)
  \/ /\ pc = "stage" /\ index[v] = Plain(s) /\ ~Gone(v)
     /\ \A a \in acts : a.video = v /\ a.kind = "rename" => a \in todo
  \/ pc = "land" /\ index[v] = Plain(s) /\ ~Gone(v) /\ ~Renames(v)
  \/ pc = "land" /\ \E a \in acts \ todo : a.video = v /\ a.kind = "rename" /\ a.new = s
  \/ pc = "commit" /\ index[v] = Plain(s)
  \/ pc = "commit" /\ \E a \in todo : First(a) /\ a.video = v /\ a.new = s
InTransit(v, s) ==
  \E a \in acts : /\ a.video = v /\ a.kind = "rename" /\ a.new = s
                  /\ \/ pc = "stage" /\ a \notin todo
                     \/ pc = "land" /\ a \in todo
PlaceInv == \A v \in Videos, s \in Stems : /\ lib[s] = v <=> InPlace(v, s)
                                           /\ tmp[s] = v <=> InTransit(v, s)

(* The run's index is the saved one, and no name in it is marked.          *)
SoundInv == /\ mem = index
            /\ \A v \in Videos : index[v] # None => index[v] = Plain(index[v].stem)

(* An episode has one file, but while a whole run renames.                 *)
OneFile == \A s, t \in Stems : lib[s] # None /\ lib[t] # None /\ s.ep = t.ep => s = t
EpInv == (pc \in Early /\ sel = Whole) \/ OneFile

(* What an action finds in the index, and what it leaves there.            *)
ActInv ==
  /\ pc \in Early => \A a \in acts : /\ a.kind = "refresh" => a.old = Plain(a.new)
                                     /\ a.kind = "add" => a.old = None
  /\ pc \in Late => \A a \in acts :
       /\ a.kind \in {"refresh", "rename"} => index[a.video] = Plain(a.new)
       /\ a \in todo /\ pc # "finish" => index[a.video] = None
       /\ Fetching(a) /\ a \notin todo /\ ~bad /\ sel = Whole => index[a.video] = Plain(a.new)

(* From the downloads of a whole run on, nothing but the listing is stored,*)
(* and after a clean one all of it.                                        *)
WholeInv == pc \in Late /\ sel = Whole =>
  \A v \in Videos : index[v] # None => Listed(v) /\ index[v] = Plain(StemOf(v))
RestInv == ~InRun /\ clean =>
  \A v \in Videos : index[v] = IF Listed(v) /\ v \notin Skip THEN Plain(StemOf(v)) ELSE None

Ordered == PlaceInv /\ SoundInv /\ EpInv /\ ActInv /\ WholeInv /\ RestInv
OrderInv == orderly => Ordered

LEMMA InitOrder == Init => Ordered
  <1> SUFFICES ASSUME Init PROVE Ordered OBVIOUS
  <1>1. /\ pc = "idle" /\ live \in Listings /\ IInv /\ acts = {} /\ mem = index /\ tmp = NoFile
        /\ index = [v \in Videos |-> IF Listed(v) /\ v \notin Skip THEN Plain(StemOf(v)) ELSE None]
        /\ lib = [s \in Stems |-> IF \E v \in Videos : index[v] = Plain(s)
                                  THEN CHOOSE v \in Videos : index[v] = Plain(s) ELSE None]
    BY InitInv DEF Init
  <1>2. \A v \in Videos, s \in Stems : index[v] = Plain(s) => Listed(v) /\ s = StemOf(v)
    <2> SUFFICES ASSUME NEW v \in Videos, NEW s \in Stems, index[v] = Plain(s)
                 PROVE  Listed(v) /\ s = StemOf(v)
      OBVIOUS
    <2>1. Listed(v) /\ index[v] = Plain(StemOf(v)) BY <1>1, PlainIs
    <2> QED BY <2>1, PlainIs
  <1>3. \A v, w \in Videos, s, t \in Stems :
          index[v] = Plain(s) /\ index[w] = Plain(t) /\ s.ep = t.ep => v = w /\ s = t
    <2> SUFFICES ASSUME NEW v \in Videos, NEW w \in Videos, NEW s \in Stems, NEW t \in Stems,
                        index[v] = Plain(s), index[w] = Plain(t), s.ep = t.ep
                 PROVE  v = w /\ s = t
      OBVIOUS
    <2>1. Listed(v) /\ s = StemOf(v) /\ t = StemOf(w) BY <1>2
    <2>2. live[v] = live[w] BY <2>1 DEF StemOf
    <2> QED BY <1>1, <2>1, <2>2, ListedApart
  <1>4. ASSUME NEW v \in Videos, NEW s \in Stems
        PROVE  lib[s] = v <=> index[v] = Plain(s)
    <2> DEFINE w == CHOOSE x \in Videos : index[x] = Plain(s)
    <2>1. CASE \E x \in Videos : index[x] = Plain(s)
      <3>1. w \in Videos /\ index[w] = Plain(s) BY <2>1
      <3>2. lib[s] = w BY <1>1, <2>1
      <3> HIDE DEF w
      <3> QED BY <1>3, <3>1, <3>2
    <2>2. CASE ~\E x \in Videos : index[x] = Plain(s)
      BY <1>1, <2>2, NoneAssumption
    <2> QED BY <2>1, <2>2
  <1>5. lib \in [Stems -> Videos \cup {None}] BY <1>1 DEF IInv, TypeOK, FilesType
  <1>6. PlaceInv BY <1>1, <1>4, NoneAssumption DEF PlaceInv, InPlace, InTransit, AtRest, NoFile
  <1>7. OneFile BY <1>3, <1>4, <1>5 DEF OneFile
  <1>8. SoundInv BY <1>1 DEF SoundInv, Plain
  <1> QED BY <1>1, <1>6, <1>7, <1>8 DEF Ordered, EpInv, ActInv, WholeInv, RestInv, Early, Late

(* Two actions with a destination have different episodes.                 *)
LEMMA NewApart ==
  ASSUME IInv, PlannedInv, InRun, NEW a \in acts, NEW b \in acts,
         a.kind # "remove", b.kind # "remove", a.new.ep = b.new.ep
  PROVE  a = b
  <1>1. a.video \in Videos /\ b.video \in Videos BY DEF IInv, TypeOK, RunType, Actions
  <1>2. Listed(a.video) /\ Listed(b.video) /\ a.new = StemOf(a.video) /\ b.new = StemOf(b.video)
    BY DEF PlannedInv
  <1>3. live[a.video] = live[b.video] BY <1>2 DEF StemOf
  <1>4. a.video = b.video BY <1>1, <1>2, <1>3, ListedApart
  <1> QED BY <1>4 DEF PlannedInv

(* An index entry leads to the file, where the run has not moved it.       *)
LEMMA EntryIs ==
  ASSUME IInv, Ordered, NEW v \in Videos, index[v] # None
  PROVE  /\ index[v].stem \in Stems /\ index[v] = Plain(index[v].stem)
         /\ \A s \in Stems : index[v] = Plain(s) => s = index[v].stem
  <1>1. index[v] \in Entries BY DEF IInv, TypeOK, IndexType
  <1>2. index[v].stem \in Stems BY <1>1 DEF Entries
  <1>3. index[v] = Plain(index[v].stem) BY DEF Ordered, SoundInv
  <1>4. \A s : Plain(s).stem = s BY DEF Plain
  <1> QED BY <1>2, <1>3, <1>4

-----------------------------------------------------------------------------
(***************************************************************************)
(* What the steps find in the folder, as long as the history is orderly.   *)
(***************************************************************************)
LEMMA FoundMove ==
  ASSUME IInv, BaseInv, Ordered, pc = "move", NEW a \in todo
  PROVE  /\ a.video \in Videos /\ a.old = index[a.video] /\ Moving(a)
         /\ a.old.stem \in Stems /\ a.old = Plain(a.old.stem) /\ ~a.old.dup
         /\ lib[a.old.stem] = a.video
         /\ \A b \in acts : b.video = a.video => b = a
  <1>1. a \in acts /\ a.video \in Videos /\ Moving(a) /\ a.old # None
    BY ActionFacts DEF IInv, PhaseInv
  <1>2. InRun /\ pc \in Early BY DEF InRun, Early
  <1>3. a.old = index[a.video] BY <1>1, <1>2 DEF BaseInv, OldInv
  <1>4. a.old.stem \in Stems /\ a.old = Plain(a.old.stem) BY <1>1, <1>3, EntryIs
  <1>5. \A b \in acts : b.video = a.video => b = a BY <1>1, <1>2 DEF BaseInv, PlannedInv
  <1>6. ~Gone(a.video) BY <1>5 DEF Gone
  <1>7. InPlace(a.video, a.old.stem) BY <1>3, <1>4, <1>6 DEF InPlace
  <1>8. lib[a.old.stem] = a.video BY <1>1, <1>4, <1>7 DEF Ordered, PlaceInv
  <1>9. ~a.old.dup BY <1>4, PlainIs
  <1> QED BY <1>1, <1>3, <1>4, <1>5, <1>8, <1>9

(* No temporary name is left to recover.                                   *)
LEMMA FoundNoTemps ==
  ASSUME IInv, Ordered, pc \notin {"stage", "land"}
  PROVE  tmp = NoFile
  <1>1. tmp \in [Stems -> Videos \cup {None}] BY DEF IInv, TypeOK, FilesType
  <1>2. \A v \in Videos, s \in Stems : tmp[s] # v
    BY DEF Ordered, PlaceInv, InTransit
  <1> QED BY <1>1, <1>2 DEF NoFile

LEMMA FoundStage ==
  ASSUME IInv, BaseInv, Ordered, pc = "stage", NEW a \in todo
  PROVE  /\ a \in acts /\ a.kind = "rename" /\ a.video \in Videos /\ a.new \in Stems
         /\ a.old = index[a.video] /\ a.old.stem \in Stems /\ a.old = Plain(a.old.stem)
         /\ lib[a.old.stem] = a.video /\ FileAt(a.old) # None
         /\ tmp[a.new] = None
         /\ \A b \in acts : b.video = a.video => b = a
  <1>1. a \in acts /\ a.video \in Videos /\ a.kind = "rename" /\ a.new \in Stems
    BY ActionFacts, NewName DEF IInv, PhaseInv
  <1>2. InRun /\ pc \in Early BY DEF InRun, Early
  <1>3. a.old = index[a.video] /\ a.old # None BY <1>1, <1>2 DEF BaseInv, OldInv
  <1>4. a.old.stem \in Stems /\ a.old = Plain(a.old.stem) BY <1>1, <1>3, EntryIs
  <1>5. \A b \in acts : b.video = a.video => b = a BY <1>1, <1>2 DEF BaseInv, PlannedInv
  <1>6. ~Gone(a.video) /\ \A b \in acts : b.video = a.video /\ b.kind = "rename" => b \in todo
    BY <1>1, <1>5 DEF Gone, Moving
  <1>7. InPlace(a.video, a.old.stem) BY <1>3, <1>4, <1>6 DEF InPlace
  <1>8. lib[a.old.stem] = a.video BY <1>1, <1>4, <1>7 DEF Ordered, PlaceInv
  <1>9. FileAt(a.old) # None
    BY <1>1, <1>3, <1>4, <1>8, PlainIs, NoneAssumption DEF FileAt
  <1>10. tmp[a.new] = None
    <2> SUFFICES ASSUME tmp[a.new] # None PROVE FALSE OBVIOUS
    <2>1. tmp[a.new] \in Videos BY <1>1 DEF IInv, TypeOK, FilesType
    <2>2. InTransit(tmp[a.new], a.new) BY <1>1, <2>1 DEF Ordered, PlaceInv
    <2>3. PICK b \in acts : b.kind = "rename" /\ b.new = a.new /\ b \notin todo
      BY <2>2 DEF InTransit
    <2> QED BY <1>1, <1>2, <2>3, NewApart DEF BaseInv
  <1> QED BY <1>1, <1>3, <1>4, <1>5, <1>8, <1>9, <1>10

LEMMA FoundLand ==
  ASSUME IInv, BaseInv, Ordered, pc = "land", NEW a \in todo
  PROVE  /\ a \in acts /\ a.kind = "rename" /\ a.video \in Videos /\ a.new \in Stems
         /\ tmp[a.new] = a.video /\ lib[a.new] = None
         /\ \A b \in acts : b.video = a.video => b = a
  <1>1. a \in acts /\ a.video \in Videos /\ a.kind = "rename" /\ a.new \in Stems
    BY ActionFacts, NewName DEF IInv, PhaseInv
  <1>2. InRun /\ pc \in Early BY DEF InRun, Early
  <1>3. \A b \in acts : b.video = a.video => b = a BY <1>1, <1>2 DEF BaseInv, PlannedInv
  <1>4. InTransit(a.video, a.new) BY <1>1 DEF InTransit
  <1>5. tmp[a.new] = a.video BY <1>1, <1>4 DEF Ordered, PlaceInv
  <1>6. lib[a.new] = None
    <2> SUFFICES ASSUME lib[a.new] # None PROVE FALSE OBVIOUS
    <2> DEFINE w == lib[a.new]
    <2>1. w \in Videos BY <1>1 DEF IInv, TypeOK, FilesType
    <2>2. InPlace(w, a.new) BY <1>1, <2>1 DEF Ordered, PlaceInv
    <2> HIDE DEF w
    <2>3. CASE \E b \in acts \ todo : b.video = w /\ b.kind = "rename" /\ b.new = a.new
      BY <1>1, <1>2, <2>3, NewApart DEF BaseInv
    <2>4. CASE index[w] = Plain(a.new) /\ ~Gone(w) /\ ~Renames(w)
      <3>1. sel = Whole BY <1>1, <1>2 DEF IInv, SelInv, InRun
      <3>2. index[w] # None BY <1>1, <2>4, PlainIs
      <3>3. PICK c \in acts : c.video = w BY <1>2, <2>1, <3>1, <3>2 DEF BaseInv, FullInv, Acted
      <3>4. ~Moving(c) /\ c.kind # "rename" BY <2>4, <3>3 DEF Gone, Renames
      <3>5. c.kind \in Kinds BY DEF IInv, TypeOK, RunType, Actions
      <3>6. c.old = index[w] BY <1>2, <3>3 DEF BaseInv, OldInv
      <3>7. c.kind = "refresh" BY <1>2, <3>2, <3>4, <3>5, <3>6 DEF Ordered, ActInv, Moving, Kinds
      <3>8. c.old = Plain(c.new) BY <1>2, <3>7 DEF Ordered, ActInv
      <3>9. c.new = a.new BY <1>1, <2>4, <3>6, <3>8, PlainIs
      <3> QED BY <1>1, <1>2, <3>7, <3>9, NewApart DEF BaseInv
    <2> QED BY <2>2, <2>3, <2>4 DEF InPlace, AtRest
  <1> QED BY <1>1, <1>3, <1>5, <1>6

(* The destination of a download is free, so there is nothing to adopt.    *)
LEMMA FoundDownload ==
  ASSUME IInv, BaseInv, Ordered, NEW a \in todo, AtDownload(a)
  PROVE  /\ a \in acts /\ a.video \in Videos /\ a.new \in Stems /\ Fetching(a)
         /\ \A b \in acts : b.video = a.video => b = a
         /\ index[a.video] = None
         /\ sel = Whole => Listed(a.video) /\ a.new = StemOf(a.video)
                           /\ \A s \in Stems : s.ep = a.new.ep => lib[s] = None
         /\ NotSkipped(a) => \A s \in Stems : s.ep = a.new.ep => lib[s] = None
  <1>1. /\ pc = "download" /\ a \in acts /\ a.video \in Videos /\ a.new \in Stems /\ Fetching(a)
    BY ActionFacts, NewName DEF AtDownload, IInv, PhaseInv
  <1>2. InRun /\ pc \in Late BY <1>1 DEF InRun, Late
  <1>3. \A b \in acts : b.video = a.video => b = a BY <1>1, <1>2 DEF BaseInv, PlannedInv
  <1>4. index[a.video] = None BY <1>1, <1>2 DEF Ordered, ActInv
  <1>5. ASSUME sel = Whole
        PROVE  /\ Listed(a.video) /\ a.new = StemOf(a.video)
               /\ \A s \in Stems : s.ep = a.new.ep => lib[s] = None
    <2>1. Listed(a.video) /\ a.new = StemOf(a.video)
      BY <1>1, <1>2 DEF BaseInv, PlannedInv, Fetching
    <2>2. ASSUME NEW s \in Stems, s.ep = a.new.ep, lib[s] # None PROVE FALSE
      <3> DEFINE w == lib[s]
      <3>1. w \in Videos BY <2>2 DEF IInv, TypeOK, FilesType
      <3>2. InPlace(w, s) BY <3>1 DEF Ordered, PlaceInv
      <3>3. index[w] = Plain(s) BY <1>1, <3>2 DEF InPlace
      <3>4. index[w] # None BY <3>3, PlainIs
      <3>5. Listed(w) /\ index[w] = Plain(StemOf(w))
        BY <1>2, <1>5, <3>1, <3>4 DEF Ordered, WholeInv
      <3>6. s = StemOf(w) BY <3>3, <3>5, PlainIs
      <3>7. live[w] = live[a.video] BY <2>1, <2>2, <3>6 DEF StemOf
      <3>8. w = a.video BY <1>1, <3>1, <3>5, <3>7, ListedApart
      <3> QED BY <1>4, <3>4, <3>8
    <2> QED BY <2>1, <2>2
  <1>6. ASSUME NotSkipped(a) PROVE \A s \in Stems : s.ep = a.new.ep => lib[s] = None
    <2>1. CASE sel = Whole BY <1>5, <2>1
    <2>2. CASE sel # Whole
      <3>1. a.kind = "add" BY <1>1, <1>2, <2>2 DEF IInv, SelInv, InRun
      <3> QED BY <1>6, <2>2, <3>1 DEF NotSkipped, Occupied
    <2> QED BY <2>1, <2>2
  <1> QED BY <1>1, <1>3, <1>4, <1>5, <1>6

(* No name is marked: an episode has one file.                             *)
LEMMA NoMarks ==
  ASSUME IInv, Ordered, pc \in Late, NEW s \in Stems
  PROVE  Marks(s) = {FALSE}
  <1>1. OneFile BY DEF Ordered, EpInv, Early, Late
  <1> QED BY <1>1 DEF OneFile, Marks

LEMMA StoresPlain ==
  ASSUME IInv, BaseInv, Ordered, NEW a \in todo, Stores(a)
  PROVE  /\ a \in acts /\ a.video \in Videos /\ a.new \in Stems
         /\ mem' = [index EXCEPT ![a.video] = Plain(a.new)]
         /\ UNCHANGED <<lib, tmp, bad>> /\ todo' = todo \ {a}
         /\ \/ pc = "commit" /\ pc' = "download" /\ First(a) /\ index' = mem'
            \/ pc = "finish" /\ pc' = "finish" /\ UNCHANGED <<index, mem>>
  <1>1. pc \in Late /\ a \in acts /\ a.video \in Videos /\ a.new \in Stems
    BY ActionFacts, NewName DEF Stores, Late
  <1>2. Marks(a.new) = {FALSE} BY <1>1, NoMarks
  <1>3. mem = index BY DEF Ordered, SoundInv
  <1>4. mem' = [index EXCEPT ![a.video] = Plain(a.new)] BY <1>2, <1>3 DEF Stores, Plain
  <1>5. CASE pc = "download" /\ a.kind = "add" /\ lib[a.new] # None /\ sel = Whole
    <2> DEFINE w == lib[a.new]
    <2>1. w \in Videos BY <1>1, <1>5 DEF IInv, TypeOK, FilesType
    <2>2. InPlace(w, a.new) BY <1>1, <2>1 DEF Ordered, PlaceInv
    <2>3. index[w] = Plain(a.new) BY <1>5, <2>2 DEF InPlace
    <2>4. index[w] # None BY <1>1, <2>3, PlainIs
    <2>5. Listed(w) /\ index[w] = Plain(StemOf(w))
      BY <1>1, <1>5, <2>1, <2>4 DEF Ordered, WholeInv
    <2>6. a.new = StemOf(w) BY <1>1, <2>3, <2>5, PlainIs
    <2>7. InRun BY <1>5 DEF InRun
    <2>8. Listed(a.video) /\ a.new = StemOf(a.video)
      BY <1>1, <1>5, <2>7 DEF BaseInv, PlannedInv
    <2>9. live[w] = live[a.video] BY <2>6, <2>8 DEF StemOf
    <2>10. w = a.video BY <1>1, <2>1, <2>5, <2>9, ListedApart
    <2>11. index[a.video] = None BY <1>1, <1>5 DEF Ordered, ActInv
    <2> QED BY <2>4, <2>10, <2>11
  <1>6. CASE pc = "finish" /\ pc' = pc /\ UNCHANGED index
    <2>1. a.kind \in {"refresh", "rename"} BY <1>6 DEF IInv, PhaseInv
    <2>2. index[a.video] = Plain(a.new) BY <1>1, <2>1 DEF Ordered, ActInv
    <2>3. index \in [Videos -> Entries \cup {None}] BY DEF IInv, TypeOK, IndexType
    <2>4. [index EXCEPT ![a.video] = Plain(a.new)] = index BY <1>1, <2>2, <2>3
    <2> QED BY <1>1, <1>3, <1>4, <1>6, <2>4 DEF Stores
  <1>7. CASE pc = "commit" BY <1>1, <1>4, <1>7 DEF Stores
  <1> QED BY <1>5, <1>6, <1>7 DEF Stores

-----------------------------------------------------------------------------
(***************************************************************************)
(* The files stay where the phase says they are.                           *)
(***************************************************************************)
LEMMA PlaceMoves ==
  ASSUME IInv, BaseInv, Ordered, MoveStep, orderly'
  PROVE  PlaceInv'
  <1>0. /\ pc = "move" /\ UNCHANGED <<tmp, index, acts>> /\ PlaceInv
        /\ lib \in [Stems -> Videos \cup {None}]
    BY DEF MoveStep, Moved, MoveOld, MoveFails, Ordered, IInv, TypeOK, FilesType
  <1>1. CASE Moved
    <2>1. pc' = "recover" /\ todo = {} /\ lib' = lib BY <1>1 DEF Moved, Goto
    <2>2. \A v : Gone(v)' <=> Gone(v) BY <1>0, <2>1 DEF Gone
    <2>3. \A v, s : InPlace(v, s)' <=> InPlace(v, s) BY <1>0, <2>1, <2>2 DEF InPlace, AtRest
    <2>4. \A v, s : InTransit(v, s)' <=> InTransit(v, s) BY <1>0, <2>1 DEF InTransit
    <2> QED BY <1>0, <2>1, <2>3, <2>4 DEF PlaceInv
  <1>2. ASSUME NEW a \in todo, MoveOld(a) PROVE PlaceInv'
    <2>0. /\ pc' = "move" /\ todo' = todo \ {a} /\ a \in acts
      BY <1>2, ActionFacts DEF MoveOld, Rest
    <2>1. /\ a.video \in Videos /\ a.old = index[a.video] /\ Moving(a)
          /\ a.old.stem \in Stems /\ a.old = Plain(a.old.stem) /\ ~a.old.dup
          /\ lib[a.old.stem] = a.video
          /\ \A b \in acts : b.video = a.video => b = a
      BY <1>0, FoundMove
    <2>2. lib' = [lib EXCEPT ![a.old.stem] = None] BY <1>2, <2>1 DEF MoveOld
    <2>3. \A v : Gone(v)' <=> Gone(v) \/ v = a.video
      BY <1>0, <2>0, <2>1 DEF Gone, Moving
    <2>4. ASSUME NEW v \in Videos, NEW s \in Stems
          PROVE  lib'[s] = v <=> InPlace(v, s)'
      <3>1. lib[s] = v <=> index[v] = Plain(s) /\ ~Gone(v) BY <1>0 DEF PlaceInv, InPlace, AtRest
      <3>2. InPlace(v, s)' <=> index[v] = Plain(s) /\ ~Gone(v)' BY <1>0, <2>0 DEF InPlace, AtRest
      <3>3. lib'[s] = IF s = a.old.stem THEN None ELSE lib[s] BY <1>0, <2>2
      <3>4. CASE v = a.video
        <4>1. ~InPlace(v, s)' BY <2>3, <3>2, <3>4
        <4>2. index[v] = Plain(s) => s = a.old.stem BY <2>1, <3>4, PlainIs
        <4> QED BY <3>1, <3>3, <4>1, <4>2, NoneAssumption
      <3>5. CASE v # a.video
        <4>1. lib'[s] = v <=> lib[s] = v BY <2>1, <3>3, <3>5, NoneAssumption
        <4> QED BY <2>3, <3>1, <3>2, <3>5, <4>1
      <3> QED BY <3>4, <3>5
    <2>5. \A v, s : InTransit(v, s)' <=> InTransit(v, s) BY <1>0, <2>0 DEF InTransit
    <2> QED BY <1>0, <2>4, <2>5 DEF PlaceInv
  <1>3. ASSUME NEW a \in todo, MoveFails(a) PROVE FALSE BY <1>3 DEF MoveFails
  <1> QED BY <1>1, <1>2, <1>3 DEF MoveStep

LEMMA PlaceStage ==
  ASSUME IInv, BaseInv, Ordered, NEW a \in todo, StageRename(a)
  PROVE  PlaceInv'
  <1>0. /\ pc = "stage" /\ pc' = "stage" /\ todo' = todo \ {a} /\ UNCHANGED <<index, acts>>
        /\ PlaceInv
        /\ lib \in [Stems -> Videos \cup {None}] /\ tmp \in [Stems -> Videos \cup {None}]
    BY DEF StageRename, Rest, Ordered, IInv, TypeOK, FilesType
  <1>1. /\ a \in acts /\ a.kind = "rename" /\ a.video \in Videos /\ a.new \in Stems
        /\ a.old = index[a.video] /\ a.old.stem \in Stems /\ a.old = Plain(a.old.stem)
        /\ lib[a.old.stem] = a.video /\ FileAt(a.old) # None
        /\ tmp[a.new] = None
        /\ \A b \in acts : b.video = a.video => b = a
    BY <1>0, FoundStage
  <1>2. /\ tmp' = [tmp EXCEPT ![a.new] = a.video]
        /\ lib' = [lib EXCEPT ![a.old.stem] = None]
    BY <1>1 DEF StageRename
  <1>3. \A v : Gone(v)' <=> Gone(v) BY <1>0 DEF Gone
  <1>4. ASSUME NEW v \in Videos, NEW s \in Stems
        PROVE  (lib'[s] = v <=> InPlace(v, s)') /\ (tmp'[s] = v <=> InTransit(v, s)')
    <2>1. lib[s] = v <=> /\ index[v] = Plain(s) /\ ~Gone(v)
                         /\ \A b \in acts : b.video = v /\ b.kind = "rename" => b \in todo
      BY <1>0 DEF PlaceInv, InPlace, AtRest
    <2>2. InPlace(v, s)' <=> /\ index[v] = Plain(s) /\ ~Gone(v)
                             /\ \A b \in acts : b.video = v /\ b.kind = "rename" => b \in todo'
      BY <1>0, <1>3 DEF InPlace, AtRest
    <2>3. tmp[s] = v <=> \E b \in acts : b.video = v /\ b.kind = "rename" /\ b.new = s /\ b \notin todo
      BY <1>0 DEF PlaceInv, InTransit
    <2>4. InTransit(v, s)' <=>
            \E b \in acts : b.video = v /\ b.kind = "rename" /\ b.new = s /\ b \notin todo'
      BY <1>0 DEF InTransit
    <2>5. lib'[s] = IF s = a.old.stem THEN None ELSE lib[s] BY <1>0, <1>2
    <2>6. tmp'[s] = IF s = a.new THEN a.video ELSE tmp[s] BY <1>0, <1>2
    <2>7. CASE v = a.video
      <3>1. index[v] = Plain(s) => s = a.old.stem BY <1>1, <2>7, PlainIs
      <3>2. lib'[s] # v BY <2>1, <2>5, <3>1, NoneAssumption
      <3>3. ~InPlace(v, s)' BY <1>0, <1>1, <2>2, <2>7
      <3>4. tmp[s] # v BY <1>1, <2>3, <2>7
      <3>5. tmp'[s] = v <=> s = a.new BY <2>6, <2>7, <3>4
      <3>6. InTransit(v, s)' <=> s = a.new BY <1>0, <1>1, <2>4, <2>7
      <3> QED BY <3>2, <3>3, <3>5, <3>6
    <2>8. CASE v # a.video
      <3>1. lib'[s] = v <=> lib[s] = v BY <1>1, <2>5, <2>8, NoneAssumption
      <3>2. InPlace(v, s)' <=> lib[s] = v BY <1>0, <2>1, <2>2, <2>8
      <3>3. tmp'[s] = v <=> tmp[s] = v BY <1>1, <2>6, <2>8, NoneAssumption
      <3>4. InTransit(v, s)' <=> tmp[s] = v BY <1>0, <2>3, <2>4, <2>8
      <3> QED BY <3>1, <3>2, <3>3, <3>4
    <2> QED BY <2>7, <2>8
  <1> QED BY <1>4 DEF PlaceInv

LEMMA PlaceLand ==
  ASSUME IInv, BaseInv, Ordered, NEW a \in todo, LandRename(a)
  PROVE  PlaceInv'
  <1>0. /\ pc = "land" /\ pc' = "land" /\ todo' = todo \ {a} /\ UNCHANGED <<index, acts>>
        /\ PlaceInv
        /\ lib \in [Stems -> Videos \cup {None}] /\ tmp \in [Stems -> Videos \cup {None}]
    BY DEF LandRename, Rest, Ordered, IInv, TypeOK, FilesType
  <1>1. /\ a \in acts /\ a.kind = "rename" /\ a.video \in Videos /\ a.new \in Stems
        /\ tmp[a.new] = a.video /\ lib[a.new] = None
        /\ \A b \in acts : b.video = a.video => b = a
    BY <1>0, FoundLand
  <1>2. /\ lib' = [lib EXCEPT ![a.new] = a.video]
        /\ tmp' = [tmp EXCEPT ![a.new] = None]
    BY <1>1, NoneAssumption DEF LandRename
  <1>3. \A v : (Gone(v)' <=> Gone(v)) /\ (Renames(v)' <=> Renames(v)) BY <1>0 DEF Gone, Renames
  <1>4. ASSUME NEW v \in Videos, NEW s \in Stems
        PROVE  (lib'[s] = v <=> InPlace(v, s)') /\ (tmp'[s] = v <=> InTransit(v, s)')
    <2>1. lib[s] = v <=>
            \/ index[v] = Plain(s) /\ ~Gone(v) /\ ~Renames(v)
            \/ \E b \in acts \ todo : b.video = v /\ b.kind = "rename" /\ b.new = s
      BY <1>0 DEF PlaceInv, InPlace, AtRest
    <2>2. InPlace(v, s)' <=>
            \/ index[v] = Plain(s) /\ ~Gone(v) /\ ~Renames(v)
            \/ \E b \in acts \ todo' : b.video = v /\ b.kind = "rename" /\ b.new = s
      BY <1>0, <1>3 DEF InPlace, AtRest
    <2>3. tmp[s] = v <=> \E b \in acts : b.video = v /\ b.kind = "rename" /\ b.new = s /\ b \in todo
      BY <1>0 DEF PlaceInv, InTransit
    <2>4. InTransit(v, s)' <=>
            \E b \in acts : b.video = v /\ b.kind = "rename" /\ b.new = s /\ b \in todo'
      BY <1>0 DEF InTransit
    <2>5. tmp'[s] = IF s = a.new THEN None ELSE tmp[s] BY <1>0, <1>2
    <2>6. lib'[s] = IF s = a.new THEN a.video ELSE lib[s] BY <1>0, <1>2
    <2>7. CASE v = a.video
      <3>1. Renames(v) BY <1>1, <2>7 DEF Renames
      <3>2. lib[s] # v BY <1>1, <2>1, <2>7, <3>1
      <3>3. lib'[s] = v <=> s = a.new BY <2>6, <2>7, <3>2
      <3>4. InPlace(v, s)' <=> s = a.new BY <1>0, <1>1, <2>2, <2>7, <3>1
      <3>5. tmp[s] = v => s = a.new BY <1>1, <2>3, <2>7
      <3>6. tmp'[s] # v BY <2>5, <3>5, NoneAssumption
      <3>7. ~InTransit(v, s)' BY <1>0, <1>1, <2>4, <2>7
      <3> QED BY <3>3, <3>4, <3>6, <3>7
    <2>8. CASE v # a.video
      <3>1. lib'[s] = v <=> lib[s] = v BY <1>1, <2>6, <2>8, NoneAssumption
      <3>2. InPlace(v, s)' <=> lib[s] = v BY <1>0, <2>1, <2>2, <2>8
      <3>3. tmp'[s] = v <=> tmp[s] = v BY <1>1, <2>5, <2>8, NoneAssumption
      <3>4. InTransit(v, s)' <=> tmp[s] = v BY <1>0, <2>3, <2>4, <2>8
      <3> QED BY <3>1, <3>2, <3>3, <3>4
    <2> QED BY <2>7, <2>8
  <1> QED BY <1>4 DEF PlaceInv

(* What SaveIndex stores of a video, by its action.                        *)
LEMMA SavedIs ==
  ASSUME IInv, BaseInv, Ordered, pc = "land", NEW v \in Videos
  PROVE  /\ ~Acted(v) => AfterMoves[v] = index[v]
         /\ \A a \in acts : a.video = v =>
              /\ a.kind \in {"refresh", "rename"} => a.new \in Stems /\ AfterMoves[v] = Plain(a.new)
              /\ a.kind \notin {"refresh", "rename"} => AfterMoves[v] = None
              /\ a.kind \in {"refresh", "add"} => AfterMoves[v] = index[v]
  <1>1. PlannedInv /\ OldInv /\ mem = index /\ pc \in Early
    BY DEF BaseInv, Ordered, SoundInv, Early
  <1>2. ~Acted(v) => AfterMoves[v] = index[v] BY <1>1, AfterMovesAre
  <1>3. ASSUME NEW a \in acts, a.video = v
        PROVE  /\ a.kind \in {"refresh", "rename"} => a.new \in Stems /\ AfterMoves[v] = Plain(a.new)
               /\ a.kind \notin {"refresh", "rename"} => AfterMoves[v] = None
               /\ a.kind \in {"refresh", "add"} => AfterMoves[v] = index[v]
    <2>1. a.kind \in Kinds BY DEF IInv, TypeOK, RunType, Actions
    <2>2. a.old = index[v] /\ (a.kind # "add" => index[v] # None) BY <1>1, <1>3 DEF OldInv
    <2>3. a.kind # "remove" => a.new \in Stems BY DEF IInv, ActsInv, Meant
    <2>4. AfterMoves[v] = CASE Moving(a) -> None
                            [] a.kind = "rename" /\ mem[v] # None -> Plain(a.new)
                            [] OTHER -> mem[v]
      BY <1>1, <1>3, AfterMovesAre
    <2>5. CASE Moving(a) BY <2>4, <2>5 DEF Moving
    <2>6. CASE a.kind = "rename" BY <1>1, <2>2, <2>3, <2>4, <2>6 DEF Moving
    <2>7. CASE a.kind = "refresh"
      <3>1. index[v] = Plain(a.new) BY <1>1, <2>2, <2>7 DEF Ordered, ActInv
      <3> QED BY <1>1, <2>3, <2>4, <2>7, <3>1 DEF Moving
    <2>8. CASE a.kind = "add"
      <3>1. index[v] = None BY <1>1, <2>2, <2>8 DEF Ordered, ActInv
      <3> QED BY <1>1, <2>4, <2>8, <3>1 DEF Moving
    <2> QED BY <2>1, <2>5, <2>6, <2>7, <2>8 DEF Kinds, Moving
  <1> QED BY <1>2, <1>3

LEMMA PlaceSave ==
  ASSUME IInv, BaseInv, Ordered, SaveIndex
  PROVE  PlaceInv'
  <1>0. /\ pc = "land" /\ pc' = "download" /\ todo = {} /\ UNCHANGED <<lib, tmp, acts>>
        /\ index' = AfterMoves /\ PlaceInv
    BY DEF SaveIndex, Goto, Ordered
  <1>1. ASSUME NEW v \in Videos, NEW s \in Stems
        PROVE  lib[s] = v <=> AfterMoves[v] = Plain(s)
    <2>1. lib[s] = v <=>
            \/ index[v] = Plain(s) /\ ~Gone(v) /\ ~Renames(v)
            \/ \E b \in acts : b.video = v /\ b.kind = "rename" /\ b.new = s
      BY <1>0 DEF PlaceInv, InPlace, AtRest
    <2>2. CASE ~Acted(v)
      BY <1>0, <2>1, <2>2, SavedIs DEF Acted, Gone, Renames
    <2>3. ASSUME NEW a \in acts, a.video = v
          PROVE  lib[s] = v <=> AfterMoves[v] = Plain(s)
      <3>0. \A b \in acts : b.video = v => b = a
        BY <1>0, <2>3 DEF BaseInv, PlannedInv, InRun
      <3>1. /\ Gone(v) <=> Moving(a)
            /\ Renames(v) <=> a.kind = "rename"
        BY <1>0, <2>3, <3>0 DEF Gone, Renames
      <3>2. Plain(s) # None BY PlainIs
      <3>3. CASE Moving(a)
        <4>1. AfterMoves[v] = None BY <1>0, <2>3, <3>3, SavedIs DEF Moving
        <4>2. lib[s] # v BY <2>1, <3>0, <3>1, <3>3 DEF Moving
        <4> QED BY <3>2, <4>1, <4>2
      <3>4. CASE a.kind = "rename"
        <4>1. AfterMoves[v] = Plain(a.new) /\ a.new \in Stems BY <1>0, <2>3, <3>4, SavedIs
        <4>2. lib[s] = v <=> a.new = s BY <2>1, <2>3, <3>0, <3>1, <3>4
        <4> QED BY <4>1, <4>2, PlainIs
      <3>5. CASE a.kind \in {"refresh", "add"}
        <4>1. AfterMoves[v] = index[v] BY <1>0, <2>3, <3>5, SavedIs
        <4>2. lib[s] = v <=> index[v] = Plain(s) BY <2>1, <3>0, <3>1, <3>5 DEF Moving
        <4> QED BY <4>1, <4>2
      <3>6. a.kind \in Kinds BY DEF IInv, TypeOK, RunType, Actions
      <3> QED BY <3>3, <3>4, <3>5, <3>6 DEF Kinds, Moving
    <2> QED BY <2>2, <2>3 DEF Acted
  <1>2. \A v \in Videos, s \in Stems : tmp[s] # v BY <1>0 DEF PlaceInv, InTransit
  <1>3. \A v \in Videos, s \in Stems : InPlace(v, s)' <=> AfterMoves[v] = Plain(s)
    BY <1>0 DEF InPlace, AtRest
  <1>4. \A v \in Videos, s \in Stems : ~InTransit(v, s)' BY <1>0 DEF InTransit
  <1> QED BY <1>0, <1>1, <1>2, <1>3, <1>4 DEF PlaceInv

LEMMA PlaceRenames ==
  ASSUME IInv, BaseInv, Ordered, RenameStep
  PROVE  PlaceInv'
  <1>0. PlaceInv BY DEF Ordered
  <1>1. ASSUME NEW s \in Stems, RecoverOne(s) \/ RecoverFails(s) PROVE FALSE
    BY <1>1, FoundNoTemps DEF RecoverOne, RecoverFails, NoFile
  <1>2. CASE Recovered
    <2>1. /\ pc = "recover" /\ pc' = "stage" /\ UNCHANGED <<lib, tmp, index, acts>>
          /\ todo' = {a \in acts : a.kind = "rename"}
      BY <1>2 DEF Recovered, Goto
    <2>2. \A v : Gone(v)' <=> Gone(v) BY <2>1 DEF Gone
    <2>3. \A v, s : InPlace(v, s)' <=> InPlace(v, s) BY <2>1, <2>2 DEF InPlace, AtRest
    <2>4. \A v, s : InTransit(v, s)' <=> InTransit(v, s) BY <2>1 DEF InTransit
    <2> QED BY <1>0, <2>1, <2>3, <2>4 DEF PlaceInv
  <1>3. CASE Staged
    <2>1. /\ pc = "stage" /\ pc' = "land" /\ UNCHANGED <<lib, tmp, index, acts>>
          /\ todo = {} /\ todo' = {a \in acts : a.kind = "rename"}
      BY <1>3 DEF Staged, Goto
    <2>2. \A v : Gone(v)' <=> Gone(v) BY <2>1 DEF Gone
    <2>3. \A v, s : InPlace(v, s)' <=> InPlace(v, s) BY <2>1, <2>2 DEF InPlace, AtRest, Renames
    <2>4. \A v, s : InTransit(v, s)' <=> InTransit(v, s) BY <2>1 DEF InTransit
    <2> QED BY <1>0, <2>1, <2>3, <2>4 DEF PlaceInv
  <1> QED BY <1>1, <1>2, <1>3, PlaceStage, PlaceLand, PlaceSave DEF RenameStep

LEMMA PlaceDownloads ==
  ASSUME IInv, BaseInv, Ordered, Working, ~MoveStep, ~RenameStep
  PROVE  PlaceInv'
  <1>0. /\ PlaceInv /\ lib \in [Stems -> Videos \cup {None}] /\ acts' = acts
        /\ index \in [Videos -> Entries \cup {None}]
    BY WorkingRuns DEF Ordered, IInv, TypeOK, FilesType, IndexType
  <1>1. CASE /\ UNCHANGED <<lib, tmp, index>> /\ pc \in AtRest /\ pc' \in AtRest
    BY <1>0, <1>1 DEF PlaceInv, InPlace, InTransit, AtRest
  <1>2. ASSUME NEW a \in todo, Stores(a) PROVE PlaceInv'
    <2>1. /\ a \in acts /\ a.video \in Videos /\ a.new \in Stems
          /\ UNCHANGED <<lib, tmp>>
          /\ \/ /\ pc = "commit" /\ pc' = "download" /\ First(a)
                /\ index' = [index EXCEPT ![a.video] = Plain(a.new)]
             \/ pc = "finish" /\ pc' = "finish" /\ UNCHANGED index
      BY <1>2, StoresPlain
    <2>2. CASE pc = "finish" /\ pc' = "finish" /\ UNCHANGED index
      BY <1>1, <2>1, <2>2 DEF AtRest
    <2>3. CASE /\ pc = "commit" /\ pc' = "download" /\ First(a)
               /\ index' = [index EXCEPT ![a.video] = Plain(a.new)]
      <3>1. index[a.video] = None BY <2>1, <2>3 DEF Ordered, ActInv, Late
      <3>2. \A b \in todo : First(b) => b = a BY <2>3, FirstIsOne DEF BaseInv
      <3>3. ASSUME NEW v \in Videos, NEW s \in Stems
            PROVE  lib[s] = v <=> index'[v] = Plain(s)
        <4>1. lib[s] = v <=> index[v] = Plain(s) \/ \E b \in todo : First(b) /\ b.video = v /\ b.new = s
          BY <1>0, <2>3 DEF PlaceInv, InPlace, AtRest
        <4>2. lib[s] = v <=> index[v] = Plain(s) \/ (a.video = v /\ a.new = s)
          BY <2>3, <3>2, <4>1
        <4>3. index'[v] = IF v = a.video THEN Plain(a.new) ELSE index[v] BY <1>0, <2>1, <2>3
        <4>4. Plain(s) # None /\ (Plain(a.new) = Plain(s) <=> a.new = s) BY <2>1, PlainIs
        <4> QED BY <3>1, <4>2, <4>3, <4>4
      <3> QED BY <1>0, <2>1, <2>3, <3>3 DEF PlaceInv, InPlace, InTransit, AtRest
    <2> QED BY <2>1, <2>2, <2>3
  <1>3. ASSUME NEW a \in todo, Promote(a) PROVE PlaceInv'
    <2>1. /\ pc = "download" /\ pc' = "commit" /\ First(a) /\ UNCHANGED <<tmp, index, todo>>
          /\ lib' = [lib EXCEPT ![a.new] = a.video]
      BY <1>3 DEF Promote, AtDownload
    <2>2. a.new \in Stems /\ a.video \in Videos /\ lib[a.new] = None
      BY <1>3, FoundDownload DEF Promote
    <2>3. \A b \in todo : First(b) => b = a BY <2>1, FirstIsOne DEF BaseInv
    <2>4. \A b : First(b)' <=> First(b) BY <2>1 DEF First
    <2>5. ASSUME NEW v \in Videos, NEW s \in Stems
          PROVE  lib'[s] = v <=> InPlace(v, s)'
      <3>1. lib[s] = v <=> index[v] = Plain(s) BY <1>0, <2>1 DEF PlaceInv, InPlace, AtRest
      <3>2. InPlace(v, s)' <=> index[v] = Plain(s)
                               \/ \E b \in todo : First(b) /\ b.video = v /\ b.new = s
        BY <2>1, <2>4 DEF InPlace, AtRest
      <3>3. InPlace(v, s)' <=> lib[s] = v \/ (a.video = v /\ a.new = s)
        BY <2>1, <2>3, <3>1, <3>2
      <3>4. lib'[s] = IF s = a.new THEN a.video ELSE lib[s] BY <1>0, <2>1
      <3> QED BY <2>2, <3>3, <3>4, NoneAssumption
    <2>6. \A v, s : (InTransit(v, s)' <=> InTransit(v, s)) BY <1>0, <2>1 DEF InTransit
    <2> QED BY <1>0, <2>1, <2>5, <2>6 DEF PlaceInv
  <1>4. ASSUME NEW a \in todo, AdoptExisting(a) \/ Commit(a) \/ Restore(a) PROVE PlaceInv'
    <2>1. Stores(a)
      BY <1>4 DEF Stores, AdoptExisting, AtDownload, Commit, Restore, Goto, Rest, Late
    <2> QED BY <1>2, <2>1
  <1>5. CASE Downloaded \/ \E a \in todo : SkipOccupied(a) \/ DownloadFails(a)
    BY <1>1, <1>5 DEF Downloaded, SkipOccupied, DownloadFails, AtDownload, Rest, Goto, AtRest
  <1> QED BY <1>3, <1>4, <1>5 DEF Working

LEMMA OrderlyBefore ==
  ASSUME [Next]_vars, orderly'
  PROVE  orderly
  BY DEF history, vars, Next, PlanStep, MoveStep, RenameStep, DownloadStep, EndStep,
     Admit, RunWhole, ProviderChanges, Begin, MoveOld, MoveFails, Moved, RecoverOne, RecoverFails, Recovered,
     StageRename, Staged, LandRename, SaveIndex, SkipOccupied, AdoptExisting, DownloadFails,
     AuthFails, Promote, Commit, Downloaded, Restore, Finish, Crash

(* In an orderly history nothing crashes: a run ends after its downloads.  *)
LEMMA EndingInOrder ==
  ASSUME Ending, Ordered, orderly'
  PROVE  /\ pc \in {"download", "finish"} /\ pc' = "idle" /\ sel' = Whole
         /\ index' = index /\ mem' = index /\ acts' = {}
         /\ UNCHANGED <<live, lib, tmp>>
         /\ clean' => pc = "finish" /\ todo = {} /\ clean' = IF sel = Whole THEN ~bad ELSE clean
  <1>1. mem = index BY DEF Ordered, SoundInv
  <1>2. CASE Finish BY <1>1, <1>2 DEF Finish, Goto
  <1>3. CASE Crash BY <1>3 DEF Crash
  <1>4. ASSUME NEW a \in todo, AuthFails(a)
        PROVE  /\ pc = "download" /\ pc' = "idle" /\ sel' = Whole
               /\ index' = index /\ mem' = index /\ acts' = {} /\ clean' = FALSE
               /\ UNCHANGED <<live, lib, tmp>>
    BY <1>4 DEF AuthFails, AtDownload, Goto
  <1> QED BY <1>2, <1>3, <1>4 DEF Ending

LEMMA PlaceStep ==
  ASSUME IInv, [Next]_vars, BaseInv, Ordered, orderly'
  PROVE  PlaceInv'
  <1>0. PlaceInv BY DEF Ordered
  <1>1. CASE /\ UNCHANGED <<lib, tmp, index>> /\ pc \in AtRest /\ pc' \in AtRest
    BY <1>0, <1>1 DEF PlaceInv, InPlace, InTransit, AtRest
  <1>2. CASE Admit \/ RunWhole \/ ProviderChanges \/ NothingBegun
    BY <1>1, <1>2 DEF Admit, RunWhole, ProviderChanges, run, NothingBegun, AtRest
  <1>3. CASE Ending BY <1>1, <1>3, EndingInOrder DEF AtRest
  <1>4. CASE Begun
    <2>1. /\ pc = "admitted" /\ pc' = "move" /\ UNCHANGED <<lib, tmp, index>>
          /\ todo' = {a \in acts' : Moving(a) /\ a.old # None}
      BY <1>4 DEF Begun
    <2>2. \A a \in acts' : Moving(a) => a \in todo' BY <1>4, <2>1, BegunActs DEF Moving
    <2>3. \A v : ~Gone(v)' BY <2>1, <2>2 DEF Gone
    <2>4. \A v, s : InPlace(v, s)' <=> InPlace(v, s) BY <2>1, <2>3 DEF InPlace, AtRest
    <2>5. \A v, s : InTransit(v, s)' <=> InTransit(v, s) BY <2>1 DEF InTransit
    <2> QED BY <1>0, <2>1, <2>4, <2>5 DEF PlaceInv
  <1>5. CASE UNCHANGED vars
    <2>1. UNCHANGED <<lib, tmp, index, pc, acts, todo>> BY <1>5 DEF vars
    <2>2. \A a : First(a)' <=> First(a) BY <2>1 DEF First
    <2>3. \A v : (Gone(v)' <=> Gone(v)) /\ (Renames(v)' <=> Renames(v)) BY <2>1 DEF Gone, Renames
    <2>4. \A v, s : InPlace(v, s)' <=> InPlace(v, s) BY <2>1, <2>2, <2>3 DEF InPlace, AtRest
    <2>5. \A v, s : InTransit(v, s)' <=> InTransit(v, s) BY <2>1 DEF InTransit
    <2> QED BY <1>0, <2>1, <2>4, <2>5 DEF PlaceInv
  <1> QED BY <1>2, <1>3, <1>4, <1>5, StepKinds, PlaceMoves, PlaceRenames, PlaceDownloads

(* How the index changes in an orderly history.                            *)
LEMMA IndexInOrder ==
  ASSUME IInv, [Next]_vars, BaseInv, Ordered, orderly'
  PROVE  /\ mem' = index'
         /\ \/ UNCHANGED index
            \/ SaveIndex /\ index' = AfterMoves
            \/ \E a \in todo : /\ Stores(a) /\ pc = "commit" /\ pc' = "download" /\ First(a)
                               /\ index' = [index EXCEPT ![a.video] = Plain(a.new)]
  <1>0. mem = index BY DEF Ordered, SoundInv
  <1>1. CASE Working
    <2>1. CASE SaveIndex BY <2>1 DEF SaveIndex
    <2>2. ASSUME NEW a \in todo, Stores(a)
          PROVE  /\ mem' = index'
                 /\ \/ UNCHANGED index
                    \/ /\ pc = "commit" /\ pc' = "download" /\ First(a)
                       /\ index' = [index EXCEPT ![a.video] = Plain(a.new)]
      BY <1>0, <2>2, StoresPlain
    <2> QED BY <1>0, <1>1, <2>1, <2>2, IndexSteps
  <1>2. CASE Ending BY <1>2, EndingInOrder
  <1>3. CASE ~Working /\ ~Ending
    BY <1>0, <1>3, StepKinds DEF Admit, RunWhole, ProviderChanges, Begun, NothingBegun, vars
  <1> QED BY <1>1, <1>2, <1>3

LEMMA SoundStep ==
  ASSUME IInv, [Next]_vars, BaseInv, Ordered, orderly'
  PROVE  SoundInv'
  <1>1. mem' = index' BY IndexInOrder
  <1> SUFFICES ASSUME NEW v \in Videos, index'[v] # None
               PROVE  index'[v] = Plain(index'[v].stem)
    BY <1>1 DEF SoundInv, Plain
  <1>2. CASE UNCHANGED index BY <1>2 DEF Ordered, SoundInv
  <1>3. \A s : Plain(s) = Plain(Plain(s).stem) BY DEF Plain
  <1>4. CASE SaveIndex /\ index' = AfterMoves
    <2>1. pc = "land" BY <1>4 DEF SaveIndex
    <2>2. CASE ~Acted(v)
      <3>1. AfterMoves[v] = index[v] BY <2>1, <2>2, SavedIs
      <3> QED BY <1>4, <3>1 DEF Ordered, SoundInv
    <2>3. CASE Acted(v)
      <3>1. PICK a \in acts : a.video = v BY <2>3 DEF Acted
      <3>2. AfterMoves[v] = Plain(a.new) BY <1>4, <2>1, <3>1, SavedIs
      <3> QED BY <1>3, <1>4, <3>2
    <2> QED BY <2>2, <2>3
  <1>5. ASSUME NEW a \in todo, index' = [index EXCEPT ![a.video] = Plain(a.new)]
        PROVE  index'[v] = Plain(index'[v].stem)
    <2>1. index \in [Videos -> Entries \cup {None}] BY DEF IInv, TypeOK, IndexType
    <2>2. index'[v] = IF v = a.video THEN Plain(a.new) ELSE index[v] BY <1>5, <2>1
    <2> QED BY <1>3, <2>2 DEF Ordered, SoundInv
  <1> QED BY <1>2, <1>4, <1>5, IndexInOrder

LEMMA WholeStep ==
  ASSUME IInv, [Next]_vars, BaseInv, Ordered, orderly'
  PROVE  WholeInv'
  <1> SUFFICES ASSUME pc' \in Late, sel' = Whole, NEW v \in Videos, index'[v] # None
               PROVE  (Listed(v) /\ index[v] = Plain(StemOf(v)))'
    BY DEF WholeInv
  <1>1. CASE UNCHANGED vars
    BY <1>1 DEF vars, Ordered, WholeInv, Listed, StemOf
  <1>2. CASE Working
    <2>0. UNCHANGED <<live, sel, acts>> /\ InRun BY <1>2, WorkingRuns
    <2>1. CASE SaveIndex /\ index' = AfterMoves
      <3>1. pc = "land" /\ pc \in Early BY <2>1 DEF SaveIndex, Early
      <3>2. Acted(v)
        <4> SUFFICES ASSUME ~Acted(v) PROVE FALSE OBVIOUS
        <4>1. index[v] # None BY <2>1, <3>1, SavedIs
        <4> QED BY <2>0, <3>1, <4>1 DEF BaseInv, FullInv
      <3>3. PICK a \in acts : a.video = v BY <3>2 DEF Acted
      <3>4. a.kind \in {"refresh", "rename"} /\ AfterMoves[v] = Plain(a.new)
        BY <2>1, <3>1, <3>3, SavedIs
      <3>5. Listed(v) /\ a.new = StemOf(v) BY <2>0, <3>3, <3>4 DEF BaseInv, PlannedInv
      <3> QED BY <2>0, <2>1, <3>4, <3>5 DEF Listed, StemOf
    <2>2. ASSUME NEW a \in todo, pc = "commit",
                 index' = [index EXCEPT ![a.video] = Plain(a.new)]
          PROVE  (Listed(v) /\ index[v] = Plain(StemOf(v)))'
      <3>1. index \in [Videos -> Entries \cup {None}] BY DEF IInv, TypeOK, IndexType
      <3>2. index'[v] = IF v = a.video THEN Plain(a.new) ELSE index[v] BY <2>2, <3>1
      <3>3. a \in acts /\ Fetching(a) BY <2>2, ActionFacts DEF IInv, PhaseInv
      <3>4. Listed(a.video) /\ a.new = StemOf(a.video)
        BY <2>0, <3>3 DEF BaseInv, PlannedInv, Fetching
      <3>5. pc \in Late BY <2>2 DEF Late
      <3> QED BY <2>0, <3>2, <3>4, <3>5 DEF Ordered, WholeInv, Listed, StemOf
    <2>3. CASE UNCHANGED index
      <3>1. CASE pc \in Late BY <2>0, <2>3, <3>1 DEF Ordered, WholeInv, Listed, StemOf
      <3>2. CASE pc \notin Late
        <4>1. MoveStep \/ RenameStep
          BY <1>2, <3>2 DEF Working, Downloaded, SkipOccupied, AdoptExisting, DownloadFails,
             AtDownload, Promote, Commit, Restore, Late
        <4>2. SaveIndex
          BY <4>1 DEF MoveStep, RenameStep, Moved, MoveOld, MoveFails, RecoverOne, RecoverFails, run,
             Recovered, StageRename, Staged, LandRename, Goto, Rest, Late
        <4>3. index' = AfterMoves BY <4>2 DEF SaveIndex
        <4> QED BY <2>1, <4>2, <4>3
      <3> QED BY <3>1, <3>2
    <2> QED BY <2>1, <2>2, <2>3, IndexInOrder
  <1>3. CASE Begun BY <1>3 DEF Begun, Late
  <1>4. CASE Ending BY <1>4, EndingEnds DEF Late
  <1>5. CASE Admit \/ RunWhole \/ ProviderChanges \/ NothingBegun
    BY <1>5 DEF Admit, RunWhole, ProviderChanges, run, NothingBegun, Late
  <1> QED BY <1>1, <1>2, <1>3, <1>4, <1>5, StepKinds

LEMMA EpStep ==
  ASSUME IInv, [Next]_vars, BaseInv, Ordered, orderly'
  PROVE  EpInv'
  <1>0. EpInv /\ lib \in [Stems -> Videos \cup {None}]
    BY DEF Ordered, IInv, TypeOK, FilesType
  <1>1. CASE lib' = lib /\ OneFile BY <1>1 DEF EpInv, OneFile
  <1>2. CASE pc \notin Early /\ lib' = lib BY <1>0, <1>1, <1>2 DEF EpInv
  <1>3. CASE Begun \/ Admit \/ RunWhole \/ ProviderChanges \/ NothingBegun
    BY <1>2, <1>3 DEF Admit, RunWhole, ProviderChanges, Begun, NothingBegun, run, Early
  <1>4. CASE Ending BY <1>2, <1>4, EndingInOrder DEF Early
  <1>5. CASE UNCHANGED vars BY <1>0, <1>5 DEF vars, EpInv, OneFile
  <1>6. CASE MoveStep \/ RenameStep
    <2>1. /\ pc \in Early /\ sel' = sel /\ InRun
          /\ pc' \in Early \/ SaveIndex
      BY <1>6 DEF MoveStep, RenameStep, Moved, MoveOld, MoveFails, RecoverOne, RecoverFails, run,
         Recovered, StageRename, Staged, LandRename, SaveIndex, Goto, Rest, Early, InRun
    <2>2. CASE sel # Whole
      <3>1. OneFile BY <1>0, <2>2 DEF EpInv
      <3>2. \A a \in todo : a.kind = "add" /\ ~Moving(a)
        BY <2>1, <2>2, ActionFacts DEF IInv, SelInv, InRun, Moving
      <3>3. ~\E a \in todo : pc \in {"move", "stage", "land"} BY <3>2 DEF IInv, PhaseInv
      <3>4. ~\E s \in Stems : RecoverOne(s) BY FoundNoTemps DEF RecoverOne, NoFile
      <3>5. lib' = lib
        BY <1>6, <3>3, <3>4 DEF MoveStep, RenameStep, Moved, MoveOld, MoveFails, RecoverFails, Recovered,
           StageRename, Staged, LandRename, SaveIndex
      <3> QED BY <1>1, <3>1, <3>5
    <2>3. CASE sel = Whole /\ pc' \in Early BY <2>1, <2>3 DEF EpInv
    <2>4. CASE sel = Whole /\ SaveIndex
      <3>1. pc' = "download" /\ lib' = lib /\ live' = live BY <2>4 DEF SaveIndex, Goto
      <3>2. PlaceInv' /\ WholeInv' /\ IInv' BY PlaceStep, WholeStep, StepInv
      <3>3. ASSUME NEW s \in Stems, lib[s] # None
            PROVE  /\ lib[s] \in Videos /\ Listed(lib[s])
                   /\ s = StemOf(lib[s])
        <4> DEFINE v == lib[s]
        <4>1. v \in Videos BY <1>0, <3>3
        <4>2. InPlace(v, s)' BY <3>1, <3>2, <4>1 DEF PlaceInv
        <4>3. index'[v] = Plain(s) BY <3>1, <4>2 DEF InPlace, AtRest
        <4>4. index'[v] # None BY <4>3, PlainIs
        <4>5. Listed(v) /\ index'[v] = Plain(StemOf(v))
          BY <2>1, <2>4, <3>1, <3>2, <4>1, <4>4 DEF WholeInv, Late, Listed, StemOf
        <4>6. s = StemOf(v) BY <4>3, <4>5, PlainIs
        <4> QED BY <4>1, <4>5, <4>6
      <3>4. ASSUME NEW s \in Stems, NEW t \in Stems, lib[s] # None, lib[t] # None, s.ep = t.ep
            PROVE  s = t
        <4>1. live[lib[s]] = live[lib[t]] BY <3>3, <3>4 DEF StemOf
        <4>2. lib[s] = lib[t] BY <3>3, <3>4, <4>1, ListedApart
        <4> QED BY <3>3, <3>4, <4>2
      <3> QED BY <3>1, <3>4 DEF EpInv, OneFile
    <2> QED BY <2>1, <2>2, <2>3, <2>4
  <1>7. CASE Working /\ ~MoveStep /\ ~RenameStep
    <2>1. OneFile
      BY <1>0, <1>7 DEF EpInv, Working, Downloaded, SkipOccupied, AdoptExisting, DownloadFails,
         AtDownload, Promote, Commit, Restore, Early
    <2>2. CASE lib' = lib BY <1>1, <2>1, <2>2
    <2>3. ASSUME NEW a \in todo, Promote(a) PROVE EpInv'
      <3>1. AtDownload(a) /\ NotSkipped(a) /\ lib' = [lib EXCEPT ![a.new] = a.video]
        BY <2>3 DEF Promote
      <3>2. a.new \in Stems /\ \A s \in Stems : s.ep = a.new.ep => lib[s] = None
        BY <3>1, FoundDownload
      <3>3. \A s \in Stems : lib'[s] = IF s = a.new THEN a.video ELSE lib[s] BY <1>0, <3>1, <3>2
      <3>4. ASSUME NEW s \in Stems, NEW t \in Stems, lib'[s] # None, lib'[t] # None, s.ep = t.ep
            PROVE  s = t
        BY <2>1, <3>2, <3>3, <3>4 DEF OneFile
      <3> QED BY <3>4 DEF EpInv, OneFile
    <2> QED
      BY <1>7, <2>2, <2>3 DEF Working, Downloaded, SkipOccupied, AdoptExisting, DownloadFails,
         Commit, Restore
  <1> QED BY <1>3, <1>4, <1>5, <1>6, <1>7, StepKinds DEF Working

(* What the first half of ActInv says holds of the actions of Begin.       *)
LEMMA ActBegun ==
  ASSUME IInv, BaseInv, Ordered, Begun
  PROVE  ActInv'
  <1>1. pc = "admitted" /\ pc' = "move" BY DEF Begun
  <1>2. ASSUME NEW a \in acts'
        PROVE  /\ a.kind = "refresh" => a.old = Plain(a.new)
               /\ a.kind = "add" => a.old = None
    <2>1. a.video \in Videos /\ a.old = index[a.video] BY BegunActs
    <2>2. CASE a.old = None BY <2>2, BegunActs
    <2>3. CASE a.old # None
      <3>1. a.old.stem \in Stems /\ a.old = Plain(a.old.stem) BY <2>1, <2>3, EntryIs
      <3>2. InPlace(a.video, a.old.stem) BY <1>1, <2>1, <3>1 DEF InPlace, AtRest
      <3>3. lib[a.old.stem] = a.video BY <2>1, <3>1, <3>2 DEF Ordered, PlaceInv
      <3>4. ~a.old.dup BY <3>1, PlainIs
      <3>5. FileAt(index[a.video]) # None
        BY <2>1, <2>3, <3>3, <3>4, NoneAssumption DEF FileAt
      <3> QED BY <2>1, <3>5, BegunActs
    <2> QED BY <2>2, <2>3
  <1> QED BY <1>1, <1>2 DEF ActInv, Late

LEMMA ActSaved ==
  ASSUME IInv, BaseInv, Ordered, SaveIndex
  PROVE  ActInv'
  <1>1. /\ pc = "land" /\ pc' = "download" /\ acts' = acts /\ index' = AfterMoves
        /\ todo' = {a \in acts : Fetching(a)}
    BY DEF SaveIndex, Goto
  <1>2. ASSUME NEW a \in acts
        PROVE  /\ a.kind \in {"refresh", "rename"} => AfterMoves[a.video] = Plain(a.new)
               /\ Fetching(a) => AfterMoves[a.video] = None
    <2>1. a.video \in Videos BY DEF IInv, TypeOK, RunType, Actions
    <2> QED BY <1>1, <2>1, SavedIs DEF Fetching
  <1> QED BY <1>1, <1>2 DEF ActInv, Early

LEMMA ActStep ==
  ASSUME IInv, [Next]_vars, BaseInv, Ordered, orderly'
  PROVE  ActInv'
  <1>0. ActInv /\ index \in [Videos -> Entries \cup {None}] /\ acts \in SUBSET Actions
        /\ todo \in SUBSET acts
    BY DEF Ordered, IInv, TypeOK, IndexType, RunType
  <1>1. CASE UNCHANGED vars BY <1>0, <1>1 DEF vars, ActInv
  <1>2. CASE Ending \/ Admit \/ RunWhole \/ ProviderChanges \/ NothingBegun
    <2>1. pc' \in {"idle", "admitted"}
      BY <1>2, EndingEnds DEF Admit, RunWhole, ProviderChanges, run, NothingBegun
    <2> QED BY <2>1 DEF ActInv, Early, Late
  <1>3. CASE MoveStep \/ RenameStep
    <2>1. /\ pc \in Early /\ acts' = acts
          /\ pc' \in Early \/ SaveIndex
      BY <1>3 DEF MoveStep, RenameStep, Moved, MoveOld, MoveFails, RecoverOne, RecoverFails, run,
         Recovered, StageRename, Staged, LandRename, SaveIndex, Goto, Rest, Early
    <2>2. CASE pc' \in Early BY <1>0, <2>1, <2>2 DEF ActInv, Early, Late
    <2> QED BY <2>1, <2>2, ActSaved
  <1>4. CASE Working /\ ~MoveStep /\ ~RenameStep
    <2>0. InRun /\ acts' = acts /\ sel' = sel BY <1>4, WorkingRuns
    <2>1. pc \in Late /\ pc' \in Late /\ pc' \notin Early
      BY <1>4 DEF Working, Downloaded, SkipOccupied, AdoptExisting, DownloadFails,
         AtDownload, Promote, Commit, Restore, Late, Early, Goto, Rest
    <2>2. ASSUME NEW a \in todo, Commit(a) PROVE ActInv'
      <3>1. Stores(a) BY <2>2 DEF Stores, Commit, Goto, Late
      <3>2. /\ pc = "commit" /\ pc' = "download" /\ a \in acts /\ a.video \in Videos
            /\ index' = [index EXCEPT ![a.video] = Plain(a.new)]
            /\ bad' = bad /\ todo' = todo \ {a}
        BY <2>2, <3>1, StoresPlain DEF Commit
      <3>3. \A b \in acts : b.video = a.video => b = a BY <2>0, <3>2 DEF BaseInv, PlannedInv
      <3>4. Fetching(a) BY <3>2 DEF IInv, PhaseInv
      <3>5. index'[a.video] = Plain(a.new) BY <1>0, <3>2
      <3>6. \A b \in acts : b # a => index'[b.video] = index[b.video]
        BY <1>0, <3>2, <3>3 DEF Actions
      <3>7. ASSUME NEW b \in acts
            PROVE  /\ b.kind \in {"refresh", "rename"} => index'[b.video] = Plain(b.new)
                   /\ b \in todo' => index'[b.video] = None
                   /\ Fetching(b) /\ b \notin todo' /\ ~bad /\ sel = Whole
                        => index'[b.video] = Plain(b.new)
        <4>1. CASE b = a BY <3>2, <3>5, <4>1
        <4>2. CASE b # a BY <1>0, <2>1, <3>2, <3>6, <4>2 DEF ActInv
        <4> QED BY <4>1, <4>2
      <3> QED BY <2>0, <2>1, <3>2, <3>7 DEF ActInv
    <2>3. ASSUME NEW a \in todo, Restore(a) PROVE ActInv'
      <3>1. Stores(a) BY <2>3 DEF Stores, Restore, Rest, Late
      <3>2. pc = "finish" /\ pc' = "finish" /\ index' = index /\ bad' = bad /\ todo' = todo \ {a}
        BY <2>3, <3>1, StoresPlain DEF Restore
      <3>3. ~Fetching(a) BY <3>2 DEF IInv, PhaseInv, Fetching
      <3> QED BY <1>0, <2>0, <2>1, <3>2, <3>3 DEF ActInv
    <2>4. ASSUME NEW a \in todo, AdoptExisting(a) PROVE ActInv'
      <3>1. Stores(a) BY <2>4 DEF Stores, AdoptExisting, AtDownload, Rest, Late
      <3>2. pc = "download" BY <2>4 DEF AdoptExisting, AtDownload
      <3> QED BY <3>1, <3>2, StoresPlain
    <2>5. ASSUME NEW a \in todo, SkipOccupied(a) PROVE ActInv'
      <3>1. pc = "download" /\ pc' = pc /\ index' = index /\ todo' = todo \ {a} /\ sel # Whole
        BY <2>5 DEF SkipOccupied, AtDownload, Rest
      <3> QED BY <1>0, <2>0, <2>1, <3>1 DEF ActInv
    <2>6. ASSUME NEW a \in todo, DownloadFails(a) PROVE ActInv'
      <3>1. pc = "download" /\ pc' = pc /\ index' = index /\ todo' = todo \ {a} /\ bad' = TRUE
        BY <2>6 DEF DownloadFails, AtDownload, Rest
      <3> QED BY <1>0, <2>0, <2>1, <3>1 DEF ActInv
    <2>7. ASSUME NEW a \in todo, Promote(a) PROVE ActInv'
      <3>1. pc = "download" /\ pc' = "commit" /\ UNCHANGED <<index, todo, bad>>
        BY <2>7 DEF Promote, AtDownload
      <3> QED BY <1>0, <2>0, <2>1, <3>1 DEF ActInv
    <2>8. CASE Downloaded
      <3>1. pc = "download" /\ pc' = "finish" /\ todo = {} /\ UNCHANGED <<index, bad>>
        BY <2>8 DEF Downloaded, Goto
      <3> QED BY <1>0, <2>0, <2>1, <3>1 DEF ActInv
    <2> QED BY <1>4, <2>2, <2>3, <2>4, <2>5, <2>6, <2>7, <2>8 DEF Working
  <1> QED BY <1>1, <1>2, <1>3, <1>4, StepKinds, ActBegun DEF Working

LEMMA RestStep ==
  ASSUME IInv, [Next]_vars, BaseInv, Ordered, orderly'
  PROVE  RestInv'
  <1>0. RestInv BY DEF Ordered
  <1>1. CASE UNCHANGED vars
    <2>1. UNCHANGED <<live, index, pc, clean>> BY <1>1 DEF vars
    <2> QED BY <1>0, <2>1 DEF RestInv, InRun, Listed, StemOf
  <1>2. CASE Admit \/ RunWhole
    <2>1. pc = "idle" /\ UNCHANGED <<live, index, clean>> BY <1>2 DEF Admit, RunWhole, history
    <2> QED BY <1>0, <2>1 DEF RestInv, InRun, Listed, StemOf
  <1>3. CASE ProviderChanges BY <1>3 DEF ProviderChanges, RestInv
  <1>4. CASE Begun BY <1>4 DEF Begun, RestInv, InRun
  <1>5. CASE Working BY <1>5, WorkingRuns DEF RestInv
  <1>6. CASE NothingBegun
    <2>1. sel # Whole => ~clean' BY <1>6 DEF NothingBegun, BaseInv, CleanInv
    <2>2. sel = Whole => \A v \in Videos \ Skip : ~Listed(v) /\ index[v] = None
      BY <1>6 DEF NothingBegun
    <2>3. \A v \in Skip : index[v] = None BY DEF BaseInv, SkipInv
    <2>4. UNCHANGED <<live, index>> BY <1>6 DEF NothingBegun
    <2> QED BY <2>1, <2>2, <2>3, <2>4 DEF RestInv, Listed
  <1>7. CASE Ending
    <2>1. UNCHANGED <<live, index>> BY <1>7, EndingInOrder
    <2> SUFFICES ASSUME clean', NEW v \in Videos
                 PROVE  index[v] = IF Listed(v) /\ v \notin Skip THEN Plain(StemOf(v)) ELSE None
      BY <2>1 DEF RestInv, Listed, StemOf
    <2>2. pc = "finish" /\ todo = {} /\ (clean' = IF sel = Whole THEN ~bad ELSE clean)
      BY <1>7, EndingInOrder
    <2>3. sel = Whole /\ ~bad BY <2>2 DEF BaseInv, CleanInv
    <2>4. InRun /\ pc \in Late BY <2>2 DEF InRun, Late
    <2>5. CASE Listed(v) /\ v \notin Skip
      <3>1. PICK a \in acts : a.video = v BY <2>3, <2>4, <2>5 DEF BaseInv, FullInv, Acted
      <3>2. a.new = StemOf(v) /\ a.kind # "remove" BY <2>4, <2>5, <3>1 DEF BaseInv, PlannedInv
      <3>3. a.kind \in {"refresh", "rename"} \/ Fetching(a)
        BY <3>2 DEF IInv, TypeOK, RunType, Actions, Kinds, Fetching
      <3>4. index[a.video] = Plain(a.new) BY <2>2, <2>3, <2>4, <3>3 DEF Ordered, ActInv
      <3> QED BY <2>5, <3>1, <3>2, <3>4
    <2>6. CASE ~Listed(v) BY <2>3, <2>4, <2>6 DEF Ordered, WholeInv
    <2>7. CASE v \in Skip BY <2>7 DEF BaseInv, SkipInv
    <2> QED BY <2>5, <2>6, <2>7
  <1> QED BY <1>1, <1>2, <1>3, <1>4, <1>5, <1>6, <1>7, StepKinds

LEMMA OrderStep ==
  ASSUME IInv, [Next]_vars, BaseInv, OrderInv
  PROVE  OrderInv'
  <1> SUFFICES ASSUME orderly' PROVE Ordered' BY DEF OrderInv
  <1>1. Ordered BY OrderlyBefore DEF OrderInv
  <1> QED BY <1>1, PlaceStep, SoundStep, EpStep, ActStep, WholeStep, RestStep DEF Ordered

LEMMA OrderInvariance == Spec => [](IInv /\ BaseInv /\ OrderInv)
  <1>1. Init => IInv /\ BaseInv /\ OrderInv BY InitInv, InitBase, InitOrder DEF OrderInv
  <1>2. IInv /\ BaseInv /\ OrderInv /\ [Next]_vars => (IInv /\ BaseInv /\ OrderInv)'
    BY StepInv, BaseStep, OrderStep
  <1> QED BY <1>1, <1>2, PTL DEF Spec

(* Every step that takes a file from its name puts it under another, but   *)
(* for the archive.                                                        *)
LEMMA OrderlyVideoStep ==
  ASSUME IInv, [Next]_vars, BaseInv, Ordered, NEW v \in Videos, Held(v), ~Held(v)'
  PROVE  Archived(v)
  <1>0. /\ lib \in [Stems -> Videos \cup {None}] /\ tmp \in [Stems -> Videos \cup {None}]
        /\ v # None
    BY NoneAssumption DEF IInv, TypeOK, FilesType
  <1>1. PICK s \in Stems : lib[s] = v \/ tmp[s] = v BY DEF Held
  <1>2. \A t \in Stems : lib'[t] # v /\ tmp'[t] # v BY DEF Held
  <1>3. ~UNCHANGED <<lib, tmp>> BY <1>1, <1>2
  <1>4. ASSUME NEW a \in todo, MoveOld(a) PROVE Archived(v)
    <2>1. pc = "move" /\ tmp' = tmp BY <1>4 DEF MoveOld
    <2>2. /\ a.video \in Videos /\ Moving(a) /\ ~a.old.dup
          /\ a.old.stem \in Stems /\ lib[a.old.stem] = a.video
      BY <2>1, FoundMove
    <2>3. lib' = [lib EXCEPT ![a.old.stem] = None] BY <1>4, <2>2 DEF MoveOld
    <2>4. s = a.old.stem /\ lib[s] = v BY <1>0, <1>1, <1>2, <2>1, <2>3
    <2> QED BY <2>1, <2>2, <2>4 DEF Archived
  <1>5. ASSUME NEW t \in Stems, RecoverOne(t) PROVE FALSE
    BY <1>5, FoundNoTemps DEF RecoverOne, NoFile
  <1>6. ASSUME NEW a \in todo, StageRename(a) PROVE FALSE
    <2>1. /\ a.new \in Stems /\ a.old.stem \in Stems
          /\ FileAt(a.old) # None /\ tmp[a.new] = None
      BY <1>6, FoundStage DEF StageRename
    <2>2. /\ tmp' = [tmp EXCEPT ![a.new] = lib[a.old.stem]]
          /\ lib' = [lib EXCEPT ![a.old.stem] = None]
      BY <1>6, <2>1 DEF StageRename
    <2>3. tmp'[a.new] = lib[a.old.stem] BY <1>0, <2>1, <2>2
    <2>4. CASE lib[s] = v
      <3>1. s # a.old.stem BY <1>2, <2>1, <2>3, <2>4
      <3> QED BY <1>0, <1>2, <2>2, <2>4, <3>1
    <2>5. CASE tmp[s] = v
      <3>1. s # a.new BY <1>0, <2>1, <2>5
      <3> QED BY <1>0, <1>2, <2>2, <2>5, <3>1
    <2> QED BY <1>1, <2>4, <2>5
  <1>7. ASSUME NEW a \in todo, LandRename(a) PROVE FALSE
    <2>1. a.new \in Stems /\ lib[a.new] = None /\ tmp[a.new] = a.video /\ a.video \in Videos
      BY <1>7, FoundLand DEF LandRename
    <2>2. /\ lib' = [lib EXCEPT ![a.new] = tmp[a.new]]
          /\ tmp' = [tmp EXCEPT ![a.new] = None]
      BY <1>7, <2>1, NoneAssumption DEF LandRename
    <2>3. lib'[a.new] = tmp[a.new] BY <1>0, <2>1, <2>2
    <2>4. CASE lib[s] = v
      <3>1. s # a.new BY <1>0, <2>1, <2>4
      <3> QED BY <1>0, <1>2, <2>2, <2>4, <3>1
    <2>5. CASE tmp[s] = v
      <3>1. s # a.new BY <1>2, <2>1, <2>3, <2>5
      <3> QED BY <1>0, <1>2, <2>2, <2>5, <3>1
    <2> QED BY <1>1, <2>4, <2>5
  <1>8. ASSUME NEW a \in todo, Promote(a) PROVE FALSE
    <2>1. AtDownload(a) /\ NotSkipped(a) /\ tmp' = tmp /\ lib' = [lib EXCEPT ![a.new] = a.video]
      BY <1>8 DEF Promote
    <2>2. a.new \in Stems /\ lib[a.new] = None BY <2>1, FoundDownload
    <2>3. lib[s] = v => s # a.new BY <1>0, <2>2
    <2> QED BY <1>0, <1>1, <1>2, <2>1, <2>3
  <1>9. CASE PlanStep
    BY <1>3, <1>9 DEF PlanStep, Admit, RunWhole, ProviderChanges, Begin
  <1>10. CASE MoveStep BY <1>3, <1>4, <1>10 DEF MoveStep, Moved, MoveFails
  <1>11. CASE RenameStep
    BY <1>3, <1>5, <1>6, <1>7, <1>11 DEF RenameStep, RecoverFails, Recovered, Staged, SaveIndex
  <1>12. CASE DownloadStep
    BY <1>3, <1>8, <1>12 DEF DownloadStep, Downloaded, SkipOccupied, AdoptExisting, DownloadFails,
       AuthFails, Commit
  <1>13. CASE EndStep BY <1>3, <1>13 DEF EndStep, Finish, Crash, Restore
  <1>14. CASE UNCHANGED vars BY <1>3, <1>14 DEF vars
  <1> QED BY <1>9, <1>10, <1>11, <1>12, <1>13, <1>14 DEF Next

-----------------------------------------------------------------------------
(***************************************************************************)
(* Theorems.                                                               *)
(***************************************************************************)

(* WholeRunHeals: run_youtube_manifest, run whole and without a failure,   *)
(* puts every listed video with a title of its own at its place, whatever  *)
(* crashes, failed moves and temporary names it found.                     *)
THEOREM HealsWhatCrashesLeft == Spec => []WholeRunHeals
  <1>1. BaseInv /\ HealInv => WholeRunHeals
    BY DEF BaseInv, CleanInv, HealInv, WholeRunHeals, InRun
  <1> QED BY <1>1, HealInvariance, PTL

(* IndexMatchesLibrary: whatever downloads fail and whatever a selection   *)
(* leaves out, the index that save_index writes is the folder's.           *)
THEOREM IndexIsTheLibrary == Spec => []IndexMatchesLibrary
  <1>1. OrderInv => IndexMatchesLibrary
    BY DEF OrderInv, Ordered, PlaceInv, InPlace, AtRest, IndexMatchesLibrary
  <1> QED BY <1>1, OrderInvariance, PTL

(* WholeRunSyncs: the moves, renames and downloads plan_sync asks for give *)
(* the folder exactly the files of the listing, "skip" list aside.         *)
THEOREM SyncsTheLibrary == Spec => []WholeRunSyncs
  <1>1. ASSUME IInv, OrderInv PROVE WholeRunSyncs
    <2> SUFFICES ASSUME pc = "idle", clean, orderly, NEW s \in Stems
                 PROVE  IF Wanted(s) = {} THEN lib[s] = None ELSE lib[s] \in Wanted(s)
      BY DEF WholeRunSyncs
    <2>1. Ordered /\ ~InRun /\ lib[s] \in Videos \cup {None}
      BY <1>1 DEF OrderInv, InRun, IInv, TypeOK, FilesType
    <2>2. \A v \in Videos : lib[s] = v <=> index[v] = Plain(s)
      BY <2>1 DEF Ordered, PlaceInv, InPlace, AtRest
    <2>3. \A v \in Videos :
            index[v] = IF Listed(v) /\ v \notin Skip THEN Plain(StemOf(v)) ELSE None
      BY <2>1 DEF Ordered, RestInv
    <2>4. \A v \in Videos : lib[s] = v <=> v \in Wanted(s)
      BY <2>2, <2>3, PlainIs DEF Wanted
    <2>5. Wanted(s) \subseteq Videos BY DEF Wanted
    <2>6. CASE Wanted(s) = {} BY <2>1, <2>4, <2>6
    <2>7. CASE Wanted(s) # {} BY <2>4, <2>5, <2>7
    <2> QED BY <2>6, <2>7
  <1>2. IInv /\ OrderInv => WholeRunSyncs BY <1>1
  <1> QED BY <1>2, OrderInvariance, PTL

(* HeldVideosKept: the phases of apply_renames, the recovery of temporary  *)
(* names and promote_episode overwrite no other video, as long as no run   *)
(* crashed; and none with a title of its own even then.                    *)
THEOREM HeldStay == Spec => HeldVideosKept
  <1>1. IInv /\ BaseInv /\ OrderInv /\ [Next]_vars =>
          [\A v \in Videos :
             Held(v) /\ ~Held(v)' /\ (OwnTitle(v) \/ orderly) => Archived(v)]_vars
    BY OwnVideoStep, OrderlyVideoStep DEF OrderInv
  <1> QED BY <1>1, OrderInvariance, PTL DEF Spec, HeldVideosKept

=============================================================================
