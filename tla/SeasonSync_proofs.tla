-------------------------- MODULE SeasonSync_proofs --------------------------
(***************************************************************************)
(* Theorems about SeasonSync for any videos, titles and number of changes  *)
(* and faults.                                                             *)
(***************************************************************************)
EXTENDS SeasonSync, FiniteSetTheorems, TLAPS

-----------------------------------------------------------------------------
(***************************************************************************)
(* The inductive invariant.  An action speaks of one video: the names it   *)
(* goes from and to carry that video's title.                              *)
(***************************************************************************)
Named(e, v) == e # None => e.stem.title = Title[v]
Meant(a) == /\ a.kind # "remove" => a.new \in Stems /\ a.new.title = Title[a.video]
            /\ Named(a.old, a.video)
ActsInv == \A a \in acts : Meant(a)

(* Every phase has its own kinds of action left.                           *)
PhaseInv ==
  \A a \in todo : /\ pc = "move" => Moving(a) /\ a.old # None
                  /\ pc \in {"stage", "land"} => a.kind = "rename"
                  /\ pc \in {"download", "commit"} => Fetching(a)
                  /\ pc = "finish" => a.kind \in {"refresh", "rename"}

(* The index stores a video under its title, and the file of a name, or of *)
(* a temporary name, is one of that title.                                 *)
IndexTitled == \A v \in Videos : Named(index[v], v) /\ Named(mem[v], v)
FilesTitled ==
  \A s \in Stems : /\ lib[s] # None => Title[lib[s]] = s.title
                   /\ tmp[s] # None => Title[tmp[s]] = s.title

(* A restricted run executes downloads of absent videos only.              *)
SelInv == sel # Whole /\ pc \notin {"idle", "admitted"} => \A a \in acts : a.kind = "add"

IInv == TypeOK /\ ActsInv /\ PhaseInv /\ IndexTitled /\ FilesTitled /\ SelInv

-----------------------------------------------------------------------------
(***************************************************************************)
(* The listing, and what is planned from it.                               *)
(***************************************************************************)
LEMMA CardinalityNat == Cardinality(Videos) \in Nat
  BY FS_CardinalityType, SyncAssumption

LEMMA StemOfListed ==
  ASSUME live \in Listings, NEW v \in Videos, Listed(v)
  PROVE  StemOf(v) \in Stems /\ StemOf(v).title = Title[v]
  <1>1. live \in [Videos -> 0..Cardinality(Videos)] BY DEF Listings
  <1>2. live[v] \in 1..Cardinality(Videos) BY <1>1, CardinalityNat DEF Listed
  <1>3. Title[v] \in Titles BY SyncAssumption
  <1> QED BY <1>2, <1>3 DEF StemOf, Stems, Slots

LEMMA PlannedMeant ==
  ASSUME TypeOK, IndexTitled, NEW kind \in Kinds, NEW v \in Videos,
         kind # "remove" => Listed(v)
  PROVE  Planned(kind, v) \in Actions /\ Meant(Planned(kind, v))
  <1> DEFINE a == Planned(kind, v)
  <1>1. a.kind = kind /\ a.video = v /\ a.old = index[v]
        /\ a.new = IF Listed(v) THEN StemOf(v) ELSE None
    BY DEF Planned
  <1>2. index[v] \in Entries \cup {None} /\ Named(index[v], v)
    BY DEF TypeOK, IndexType, IndexTitled
  <1>3. Listed(v) => StemOf(v) \in Stems /\ StemOf(v).title = Title[v] BY StemOfListed DEF TypeOK
  <1>4. a \in Actions BY <1>2, <1>3 DEF Planned, Actions
  <1>5. Meant(a) BY <1>1, <1>2, <1>3 DEF Meant
  <1> QED BY <1>4, <1>5

LEMMA PlanMeant ==
  ASSUME TypeOK, IndexTitled, NEW again \in SUBSET Videos, NEW a \in Plan(again)
  PROVE  a \in Actions /\ Meant(a)
  <1>1. PICK v \in Videos :
          \/ a = Planned("remove", v)
          \/ (Listed(v) /\ a = Planned("add", v))
          \/ (Listed(v) /\ a = Planned("replace", v))
          \/ (Listed(v) /\ a = Planned(Unchanged(v), v))
    BY DEF Plan
  <1>2. Unchanged(v) \in Kinds \ {"remove"} BY DEF Unchanged, Kinds
  <1>3. {"remove", "add", "replace"} \subseteq Kinds BY DEF Kinds
  <1>4. CASE a = Planned("remove", v) BY <1>3, <1>4, PlannedMeant
  <1>5. CASE Listed(v) /\ a = Planned("add", v) BY <1>3, <1>5, PlannedMeant
  <1>6. CASE Listed(v) /\ a = Planned("replace", v) BY <1>3, <1>6, PlannedMeant
  <1>7. CASE Listed(v) /\ a = Planned(Unchanged(v), v) BY <1>2, <1>7, PlannedMeant
  <1> QED BY <1>1, <1>4, <1>5, <1>6, <1>7

LEMMA InitInv == Init => IInv
  <1> SUFFICES ASSUME Init PROVE IInv OBVIOUS
  <1>1. live \in Listings /\ live \in [Videos -> 0..Cardinality(Videos)] BY DEF Init, Listings
  <1>2. \A v \in Videos : /\ index[v] \in Entries \cup {None}
                          /\ index[v] # None => index[v] = Plain(StemOf(v)) /\ Listed(v)
    <2> SUFFICES ASSUME NEW v \in Videos
                 PROVE  /\ index[v] \in Entries \cup {None}
                        /\ index[v] # None => index[v] = Plain(StemOf(v)) /\ Listed(v)
      OBVIOUS
    <2>1. index[v] = IF Listed(v) /\ v \notin Skip THEN Plain(StemOf(v)) ELSE None BY DEF Init
    <2>2. Listed(v) => Plain(StemOf(v)) \in Entries BY <1>1, StemOfListed DEF Plain, Entries
    <2> QED BY <2>1, <2>2
  <1>3. index \in [Videos -> Entries \cup {None}] /\ mem = index BY <1>2 DEF Init
  <1>4. IndexTitled
    <2> SUFFICES ASSUME NEW v \in Videos, index[v] # None PROVE index[v].stem.title = Title[v]
      BY <1>3 DEF IndexTitled, Named
    <2>1. index[v] = Plain(StemOf(v)) /\ Listed(v) BY <1>2
    <2>2. StemOf(v).title = Title[v] BY <1>1, <2>1, StemOfListed
    <2> QED BY <2>1, <2>2 DEF Plain
  <1>5. ASSUME NEW s \in Stems
        PROVE  /\ lib[s] \in Videos \cup {None}
               /\ lib[s] # None => lib[s] \in Videos /\ index[lib[s]] = Plain(s)
    BY DEF Init
  <1>6. FilesTitled
    <2>1. ASSUME NEW s \in Stems, lib[s] # None PROVE Title[lib[s]] = s.title
      <3>1. lib[s] \in Videos /\ index[lib[s]] = Plain(s) BY <1>5, <2>1
      <3>2. Plain(s) # None
        <4>1. Plain(s) \in Entries BY DEF Plain, Entries
        <4> QED BY <4>1, NoneAssumption
      <3>3. index[lib[s]].stem.title = Title[lib[s]] BY <1>4, <3>1, <3>2 DEF IndexTitled, Named
      <3> QED BY <3>1, <3>3 DEF Plain
    <2>2. \A s \in Stems : tmp[s] = None BY DEF Init, NoFile
    <2> QED BY <2>1, <2>2 DEF FilesTitled
  <1>7. FilesType BY <1>5 DEF FilesType, Init, NoFile
  <1>8. IndexType BY <1>3 DEF IndexType
  <1>9. RunType BY DEF Init, RunType, Phases, Whole
  <1>10. FlagType BY DEF Init, FlagType
  <1>11. BoundType BY SyncAssumption DEF Init, BoundType
  <1>12. ActsInv /\ PhaseInv /\ SelInv BY DEF Init, ActsInv, PhaseInv, SelInv
  <1> QED BY <1>1, <1>4, <1>6, <1>7, <1>8, <1>9, <1>10, <1>11, <1>12 DEF IInv, TypeOK

-----------------------------------------------------------------------------
(***************************************************************************)
(* Folders and indexes whose names carry the titles of their videos.       *)
(***************************************************************************)
Folders == {f \in [Stems -> Videos \cup {None}] :
              \A s \in Stems : f[s] # None => Title[f[s]] = s.title}
Indexes == {f \in [Videos -> Entries \cup {None}] : \A v \in Videos : Named(f[v], v)}

LEMMA Titled == /\ FilesType /\ FilesTitled <=> lib \in Folders /\ tmp \in Folders
                /\ IndexType /\ IndexTitled <=> index \in Indexes /\ mem \in Indexes
  BY DEF FilesType, FilesTitled, IndexType, IndexTitled, Folders, Indexes

LEMMA FolderPut ==
  ASSUME NEW f \in Folders, NEW s \in Stems, NEW x \in Videos \cup {None},
         x # None => Title[x] = s.title
  PROVE  [f EXCEPT ![s] = x] \in Folders
  BY DEF Folders

LEMMA IndexPut ==
  ASSUME NEW f \in Indexes, NEW v \in Videos, NEW s \in Stems, NEW d \in BOOLEAN,
         s.title = Title[v]
  PROVE  [f EXCEPT ![v] = [stem |-> s, dup |-> d]] \in Indexes
  <1>1. [stem |-> s, dup |-> d] \in Entries /\ Named([stem |-> s, dup |-> d], v)
    BY DEF Entries, Named
  <1> QED BY <1>1 DEF Indexes

LEMMA ActionFacts ==
  ASSUME IInv, NEW a \in todo
  PROVE  /\ a \in acts /\ a \in Actions /\ Meant(a) /\ a.video \in Videos
         /\ a.old # None => a.old \in Entries /\ a.old.stem \in Stems
                           /\ a.old.stem.title = Title[a.video]
         /\ FileAt(a.old) # None => a.old # None /\ FileAt(a.old) = lib[a.old.stem]
  <1>1. a \in acts /\ a \in Actions BY DEF IInv, TypeOK, RunType
  <1>2. Meant(a) BY <1>1 DEF IInv, ActsInv
  <1>3. a.video \in Videos /\ a.old \in Entries \cup {None} BY <1>1 DEF Actions
  <1>4. a.old # None => a.old \in Entries /\ a.old.stem \in Stems
                      /\ a.old.stem.title = Title[a.video]
    BY <1>2, <1>3 DEF Meant, Named, Entries
  <1>5. FileAt(a.old) # None => a.old # None /\ FileAt(a.old) = lib[a.old.stem] BY DEF FileAt
  <1> QED BY <1>1, <1>2, <1>3, <1>4, <1>5

(* What a phase has left to do has a name to go to.                        *)
LEMMA NewName ==
  ASSUME IInv, NEW a \in todo, pc \in {"stage", "land", "download", "commit", "finish"}
  PROVE  a.new \in Stems /\ a.new.title = Title[a.video]
  <1>1. a.kind # "remove" BY DEF IInv, PhaseInv, Fetching
  <1> QED BY <1>1, ActionFacts DEF Meant

LEMMA FilesStep ==
  ASSUME IInv, Next
  PROVE  lib' \in Folders /\ tmp' \in Folders
  <1>0. lib \in Folders /\ tmp \in Folders BY Titled DEF IInv, TypeOK
  <1>1. CASE UNCHANGED <<lib, tmp>> BY <1>0, <1>1
  <1>2. ASSUME NEW a \in todo, MoveOld(a) PROVE lib' \in Folders /\ tmp' \in Folders
    <2>1. a.old.stem \in Stems BY <1>2, ActionFacts DEF MoveOld, IInv, PhaseInv
    <2>2. [lib EXCEPT ![a.old.stem] = None] \in Folders BY <1>0, <2>1, FolderPut
    <2> QED BY <1>0, <1>2, <2>2 DEF MoveOld
  <1>3. ASSUME NEW s \in Stems, RecoverOne(s) PROVE lib' \in Folders /\ tmp' \in Folders
    <2>1. tmp[s] \in Videos \cup {None} /\ (tmp[s] # None => Title[tmp[s]] = s.title)
      BY <1>0 DEF Folders
    <2>2. [lib EXCEPT ![s] = tmp[s]] \in Folders BY <1>0, <2>1, FolderPut
    <2>3. [tmp EXCEPT ![s] = None] \in Folders BY <1>0, FolderPut
    <2> QED BY <1>0, <1>3, <2>2, <2>3 DEF RecoverOne
  <1>4. ASSUME NEW a \in todo, StageRename(a) PROVE lib' \in Folders /\ tmp' \in Folders
    <2>1. CASE FileAt(a.old) = None BY <1>1, <1>4, <2>1 DEF StageRename
    <2>2. CASE FileAt(a.old) # None
      <3>1. a.old.stem \in Stems /\ a.old.stem.title = Title[a.video]
        BY <2>2, ActionFacts
      <3>2. a.new \in Stems /\ a.new.title = Title[a.video] BY <1>4, NewName DEF StageRename
      <3>3. lib[a.old.stem] \in Videos \cup {None}
            /\ (lib[a.old.stem] # None => Title[lib[a.old.stem]] = a.old.stem.title)
        BY <1>0, <3>1 DEF Folders
      <3>4. [lib EXCEPT ![a.old.stem] = None] \in Folders BY <1>0, <3>1, FolderPut
      <3>5. [tmp EXCEPT ![a.new] = lib[a.old.stem]] \in Folders
        BY <1>0, <3>1, <3>2, <3>3, FolderPut
      <3> QED BY <1>4, <2>2, <3>4, <3>5 DEF StageRename
    <2> QED BY <2>1, <2>2
  <1>5. ASSUME NEW a \in todo, LandRename(a) PROVE lib' \in Folders /\ tmp' \in Folders
    <2>1. a.new \in Stems BY <1>5, NewName DEF LandRename
    <2>2. tmp[a.new] \in Videos \cup {None}
          /\ (tmp[a.new] # None => Title[tmp[a.new]] = a.new.title)
      BY <1>0, <2>1 DEF Folders
    <2>3. [lib EXCEPT ![a.new] = tmp[a.new]] \in Folders BY <1>0, <2>1, <2>2, FolderPut
    <2>4. [tmp EXCEPT ![a.new] = None] \in Folders BY <1>0, <2>1, FolderPut
    <2> QED BY <1>0, <1>5, <2>3, <2>4 DEF LandRename
  <1>6. ASSUME NEW a \in todo, Promote(a) PROVE lib' \in Folders /\ tmp' \in Folders
    <2>1. a.new \in Stems /\ a.new.title = Title[a.video]
      BY <1>6, NewName DEF Promote, AtDownload
    <2>2. [lib EXCEPT ![a.new] = a.video] \in Folders
      BY <1>0, <2>1, FolderPut, ActionFacts
    <2> QED BY <1>0, <1>6, <2>2 DEF Promote
  <1>7. CASE PlanStep
    BY <1>1, <1>7 DEF PlanStep, Admit, RunWhole, ProviderChanges, Begin
  <1>8. CASE MoveStep BY <1>1, <1>2, <1>8 DEF MoveStep, Moved, MoveFails
  <1>9. CASE RenameStep
    BY <1>1, <1>3, <1>4, <1>5, <1>9 DEF RenameStep, RecoverFails, Recovered, Staged, SaveIndex
  <1>10. CASE DownloadStep
    BY <1>1, <1>6, <1>10 DEF DownloadStep, Downloaded, SkipOccupied, AdoptExisting, DownloadFails,
       AuthFails, Commit
  <1>11. CASE EndStep BY <1>1, <1>11 DEF EndStep, Finish, Crash, Restore
  <1> QED BY <1>7, <1>8, <1>9, <1>10, <1>11 DEF Next

(* What Commit, AdoptExisting and Restore write of an action.              *)
LEMMA Stored ==
  ASSUME IInv, NEW a \in todo, pc \in {"download", "commit", "finish"},
         \E d \in Marks(a.new) : mem' = [mem EXCEPT ![a.video] = [stem |-> a.new, dup |-> d]]
  PROVE  mem' \in Indexes
  <1>1. a.new \in Stems /\ a.new.title = Title[a.video] /\ a.video \in Videos
    BY NewName, ActionFacts
  <1>2. Marks(a.new) \subseteq BOOLEAN BY DEF Marks
  <1>3. PICK d \in BOOLEAN : mem' = [mem EXCEPT ![a.video] = [stem |-> a.new, dup |-> d]]
    BY <1>2
  <1>4. mem \in Indexes BY Titled DEF IInv, TypeOK
  <1> QED BY <1>1, <1>3, <1>4, IndexPut

LEMMA AfterMovesTitled ==
  ASSUME IInv
  PROVE  AfterMoves \in Indexes
  <1>0. mem \in Indexes BY Titled DEF IInv, TypeOK
  <1>1. ASSUME NEW v \in Videos
        PROVE  AfterMoves[v] \in Entries \cup {None} /\ Named(AfterMoves[v], v)
    <2> DEFINE renames(a) == a.video = v /\ a.kind = "rename"
               a == CHOOSE x \in acts : x.video = v /\ x.kind = "rename"
    <2>1. \/ AfterMoves[v] = None
          \/ AfterMoves[v] = mem[v]
          \/ (\E x \in acts : x.video = v /\ x.kind = "rename") /\ AfterMoves[v] = Plain(a.new)
      BY DEF AfterMoves
    <2>2. CASE (\E x \in acts : x.video = v /\ x.kind = "rename") /\ AfterMoves[v] = Plain(a.new)
      <3>1. a \in acts /\ a.video = v /\ a.kind = "rename" BY <2>2
      <3>2. a.new \in Stems /\ a.new.title = Title[v] BY <3>1 DEF IInv, ActsInv, Meant
      <3> HIDE DEF a
      <3> QED BY <2>2, <3>2 DEF Plain, Entries, Named
    <2>3. mem[v] \in Entries \cup {None} /\ Named(mem[v], v) BY <1>0 DEF Indexes
    <2> QED BY <2>1, <2>2, <2>3 DEF Named
  <1>2. AfterMoves \in [Videos -> Entries \cup {None}] BY <1>1 DEF AfterMoves
  <1> QED BY <1>1, <1>2 DEF Indexes

LEMMA IndexStep ==
  ASSUME IInv, Next
  PROVE  index' \in Indexes /\ mem' \in Indexes
  <1>0. index \in Indexes /\ mem \in Indexes BY Titled DEF IInv, TypeOK
  <1>1. CASE UNCHANGED <<index, mem>> BY <1>0, <1>1
  <1>2. CASE SaveIndex BY <1>2, AfterMovesTitled DEF SaveIndex
  <1>3. ASSUME NEW a \in todo, AdoptExisting(a) \/ Commit(a) \/ Restore(a)
        PROVE  index' \in Indexes /\ mem' \in Indexes
    <2>1. mem' \in Indexes BY <1>3, Stored DEF AdoptExisting, AtDownload, Commit, Restore
    <2> QED BY <1>0, <1>3, <2>1 DEF AdoptExisting, Commit, Restore
  <1>4. CASE Finish \/ Crash \/ \E a \in todo : AuthFails(a)
    BY <1>0, <1>4 DEF Finish, Crash, AuthFails
  <1>5. CASE PlanStep
    BY <1>1, <1>5 DEF PlanStep, Admit, RunWhole, ProviderChanges, Begin
  <1>6. CASE MoveStep BY <1>1, <1>6 DEF MoveStep, Moved, MoveFails, MoveOld
  <1>7. CASE RenameStep
    BY <1>1, <1>2, <1>7 DEF RenameStep, Recovered, Staged, RecoverOne, RecoverFails, StageRename,
       LandRename
  <1>8. CASE DownloadStep
    BY <1>1, <1>3, <1>4, <1>8 DEF DownloadStep, Downloaded, SkipOccupied, DownloadFails, Promote
  <1>9. CASE EndStep BY <1>3, <1>4, <1>9 DEF EndStep
  <1> QED BY <1>5, <1>6, <1>7, <1>8, <1>9 DEF Next

-----------------------------------------------------------------------------
(***************************************************************************)
(* The run: where it is, and what it has left to do.                       *)
(***************************************************************************)
RunInv == RunType /\ ActsInv /\ PhaseInv /\ SelInv

(* Most steps leave the run's actions alone and go on, within a phase or to*)
(* the next one, with some of them.                                        *)
LEMMA RunGoesOn ==
  ASSUME IInv, NEW next \in Phases \ {"idle", "admitted"}, NEW left \in SUBSET acts,
         acts' = acts, sel' = sel, pc' = next, todo' = left, pc \notin {"idle", "admitted"},
         \A a \in left : /\ next = "move" => Moving(a) /\ a.old # None
                         /\ next \in {"stage", "land"} => a.kind = "rename"
                         /\ next \in {"download", "commit"} => Fetching(a)
                         /\ next = "finish" => a.kind \in {"refresh", "rename"}
  PROVE  RunInv'
  <1>1. RunType' BY DEF IInv, TypeOK, RunType
  <1>2. ActsInv' BY DEF IInv, ActsInv, Meant, Named
  <1>3. PhaseInv' BY DEF PhaseInv, Moving, Fetching
  <1>4. SelInv' BY DEF IInv, SelInv
  <1> QED BY <1>1, <1>2, <1>3, <1>4 DEF RunInv

LEMMA RunRests ==
  ASSUME IInv, NEW a \in todo, Rest(a), sel' = sel, acts' = acts,
         pc \notin {"idle", "admitted"}
  PROVE  RunInv'
  <1>1. pc' = pc /\ todo' = todo \ {a} BY DEF Rest
  <1>2. pc \in Phases \ {"idle", "admitted"} BY DEF IInv, TypeOK, RunType
  <1>3. todo \ {a} \in SUBSET acts BY DEF IInv, TypeOK, RunType
  <1>4. PhaseInv BY DEF IInv
  <1> QED BY <1>1, <1>2, <1>3, <1>4, RunGoesOn DEF PhaseInv

(* A run that ends forgets everything.                                     *)
LEMMA RunEnds ==
  ASSUME pc' = "idle", sel' = Whole, acts' = {}, todo' = {}
  PROVE  RunInv'
  BY DEF RunInv, RunType, Phases, Whole, ActsInv, PhaseInv, SelInv

LEMMA BeginStep ==
  ASSUME IInv, Begin
  PROVE  RunInv'
  <1> DEFINE Chosen(again) == Selected({a \in Plan(again) : a.video \notin Skip})
  <1>1. PICK again \in SUBSET Videos :
          LET S == Chosen(again) IN
          IF StillMeant(S) /\ S # {}
          THEN /\ acts' = S /\ Goto("move", {a \in S : Moving(a) /\ a.old # None})
               /\ UNCHANGED <<sel, clean>>
          ELSE /\ Goto("idle", {}) /\ sel' = Whole /\ UNCHANGED acts
               /\ clean' = IF sel = Whole THEN TRUE ELSE clean
    BY DEF Begin
  <1> DEFINE S == Chosen(again)
  <1>2. \A a \in S : a \in Actions /\ Meant(a) /\ (sel = Whole \/ a.kind = "add")
    <2> SUFFICES ASSUME NEW a \in S PROVE a \in Actions /\ Meant(a) /\ (sel = Whole \/ a.kind = "add")
      OBVIOUS
    <2>1. a \in Plan(again) /\ (sel = Whole \/ a.kind = "add") BY DEF Selected
    <2> QED BY <2>1, PlanMeant DEF IInv, TypeOK
  <1>3. CASE StillMeant(S) /\ S # {}
    <2> DEFINE left == {a \in S : Moving(a) /\ a.old # None}
    <2>1. acts' = S /\ pc' = "move" /\ todo' = left /\ sel' = sel BY <1>1, <1>3 DEF Goto
    <2> HIDE DEF S
    <2>2. RunType' BY <1>2, <2>1 DEF RunType, IInv, TypeOK, Phases
    <2>3. ActsInv' BY <1>2, <2>1 DEF ActsInv, Meant, Named
    <2>4. PhaseInv' BY <2>1 DEF PhaseInv, Moving
    <2>5. SelInv' BY <1>2, <2>1 DEF SelInv
    <2> QED BY <2>2, <2>3, <2>4, <2>5 DEF RunInv
  <1>4. CASE ~(StillMeant(S) /\ S # {})
    <2>1. pc' = "idle" /\ todo' = {} /\ sel' = Whole /\ acts' = acts BY <1>1, <1>4 DEF Goto
    <2>2. RunType' BY <2>1 DEF IInv, TypeOK, RunType, Phases, Whole
    <2>3. ActsInv' BY <2>1 DEF IInv, ActsInv, Meant, Named
    <2> QED BY <2>1, <2>2, <2>3 DEF RunInv, PhaseInv, SelInv
  <1> QED BY <1>3, <1>4

LEMMA RunStep ==
  ASSUME IInv, Next
  PROVE  RunInv'
  <1> USE DEF Goto
  <1>1. CASE Admit
    <2>1. sel' \in SUBSET Downloads
      <3>1. \A v \in Videos : Listed(v) => [video |-> v, new |-> StemOf(v)] \in Downloads
        BY StemOfListed DEF IInv, TypeOK, Downloads
      <3> QED BY <1>1, <3>1 DEF Admit
    <2> QED BY <1>1, <2>1 DEF Admit, IInv, TypeOK, RunType, Phases, RunInv, ActsInv, Meant, Named,
                              PhaseInv, SelInv
  <1>2. CASE RunWhole
    BY <1>2 DEF RunWhole, IInv, TypeOK, RunType, Phases, RunInv, ActsInv, Meant, Named, PhaseInv,
                SelInv, Whole
  <1>3. CASE UNCHANGED run
    BY <1>3 DEF run, IInv, TypeOK, RunType, RunInv, ActsInv, Meant, Named, PhaseInv, Moving,
                Fetching, SelInv
  <1>4. CASE Begin BY <1>4, BeginStep
  <1>5. CASE PlanStep BY <1>1, <1>2, <1>3, <1>4, <1>5 DEF PlanStep, ProviderChanges
  <1>6. CASE MoveStep
    <2>1. ASSUME NEW a \in todo, MoveOld(a) \/ MoveFails(a) PROVE RunInv'
      BY <2>1, RunRests DEF MoveOld, MoveFails
    <2>2. CASE Moved BY <2>2, RunGoesOn DEF Moved, Phases
    <2> QED BY <1>6, <2>1, <2>2 DEF MoveStep
  <1>7. CASE RenameStep
    <2>1. ASSUME NEW a \in todo, StageRename(a) \/ LandRename(a) PROVE RunInv'
      BY <2>1, RunRests DEF StageRename, LandRename
    <2>2. CASE Recovered \/ Staged
      <3> DEFINE left == {a \in acts : a.kind = "rename"}
      <3>1. /\ pc' \in {"stage", "land"} /\ pc \notin {"idle", "admitted"} /\ todo' = left
            /\ acts' = acts /\ sel' = sel
        BY <2>2 DEF Recovered, Staged
      <3>2. pc' \in Phases \ {"idle", "admitted"} BY <3>1 DEF Phases
      <3> QED BY <3>1, <3>2, RunGoesOn
    <2>3. CASE SaveIndex
      <3> DEFINE left == {a \in acts : Fetching(a)}
      <3>1. /\ pc' = "download" /\ pc \notin {"idle", "admitted"} /\ todo' = left
            /\ acts' = acts /\ sel' = sel
        BY <2>3 DEF SaveIndex
      <3>2. pc' \in Phases \ {"idle", "admitted"} BY <3>1 DEF Phases
      <3> QED BY <3>1, <3>2, RunGoesOn
    <2> QED BY <1>3, <1>7, <2>1, <2>2, <2>3 DEF RenameStep, RecoverOne, RecoverFails
  <1>8. CASE DownloadStep
    <2>1. ASSUME NEW a \in todo, SkipOccupied(a) \/ AdoptExisting(a) \/ DownloadFails(a)
          PROVE  RunInv'
      BY <2>1, RunRests DEF SkipOccupied, AdoptExisting, DownloadFails, AtDownload
    <2>2. ASSUME NEW a \in todo, AuthFails(a) PROVE RunInv'
      BY <2>2, RunEnds DEF AuthFails
    <2>3. ASSUME NEW a \in todo, Promote(a) PROVE RunInv'
      <3>1. /\ pc' = "commit" /\ pc = "download" /\ todo' = todo /\ acts' = acts /\ sel' = sel
            /\ todo \in SUBSET acts
        BY <2>3 DEF Promote, AtDownload, IInv, TypeOK, RunType
      <3>2. "commit" \in Phases \ {"idle", "admitted"} BY DEF Phases
      <3>3. \A b \in todo : Fetching(b) BY <3>1 DEF IInv, PhaseInv
      <3> QED BY <3>1, <3>2, <3>3, RunGoesOn
    <2>4. ASSUME NEW a \in todo, Commit(a) PROVE RunInv'
      <3>1. /\ pc' = "download" /\ pc = "commit" /\ todo' = todo \ {a} /\ acts' = acts
            /\ sel' = sel /\ todo \ {a} \in SUBSET acts
        BY <2>4 DEF Commit, IInv, TypeOK, RunType
      <3>2. "download" \in Phases \ {"idle", "admitted"} BY DEF Phases
      <3>3. \A b \in todo \ {a} : Fetching(b) BY <3>1 DEF IInv, PhaseInv
      <3> QED BY <3>1, <3>2, <3>3, RunGoesOn
    <2>5. CASE Downloaded
      <3>1. /\ pc' = "finish" /\ pc = "download" /\ todo' = Restored /\ acts' = acts
            /\ sel' = sel /\ Restored \in SUBSET acts
        BY <2>5 DEF Downloaded, Restored
      <3>2. "finish" \in Phases \ {"idle", "admitted"} BY DEF Phases
      <3>3. \A b \in Restored : b.kind \in {"refresh", "rename"} BY DEF Restored
      <3> QED BY <3>1, <3>2, <3>3, RunGoesOn
    <2> QED BY <1>8, <2>1, <2>2, <2>3, <2>4, <2>5 DEF DownloadStep
  <1>9. CASE EndStep
    <2>1. CASE Finish \/ Crash BY <2>1, RunEnds DEF Finish, Crash
    <2>2. ASSUME NEW a \in todo, Restore(a) PROVE RunInv' BY <2>2, RunRests DEF Restore
    <2> QED BY <1>9, <2>1, <2>2 DEF EndStep
  <1> QED BY <1>5, <1>6, <1>7, <1>8, <1>9 DEF Next

LEMMA HistoryStep ==
  ASSUME IInv, Next
  PROVE  live' \in Listings /\ FlagType' /\ BoundType'
  <1>0. live \in Listings /\ FlagType /\ BoundType BY DEF IInv, TypeOK
  <1>1. live' \in Listings
    BY <1>0 DEF Next, PlanStep, MoveStep, RenameStep, DownloadStep, EndStep, Admit, RunWhole,
       ProviderChanges, Begin, MoveOld, MoveFails, Moved, RecoverOne, RecoverFails, Recovered,
       StageRename, Staged, LandRename, SaveIndex, SkipOccupied, AdoptExisting, DownloadFails, AuthFails,
       Promote, Commit, Downloaded, Restore, Finish, Crash
  <1>2. FlagType'
    <2>1. bad' \in BOOLEAN
      BY <1>0 DEF FlagType, run, Next, PlanStep, MoveStep, RenameStep, DownloadStep, EndStep, Admit,
         RunWhole, ProviderChanges, Begin, MoveOld, MoveFails, Moved, RecoverOne, RecoverFails,
         Recovered, StageRename, Staged, LandRename, SaveIndex, SkipOccupied, AdoptExisting, DownloadFails,
         AuthFails, Promote, Commit, Downloaded, Restore, Finish, Crash
    <2>2. clean' \in BOOLEAN
      BY <1>0 DEF FlagType, history, Next, PlanStep, MoveStep, RenameStep, DownloadStep, EndStep,
         Admit, RunWhole, ProviderChanges, Begin, MoveOld, MoveFails, Moved, RecoverOne, RecoverFails,
         Recovered, StageRename, Staged, LandRename, SaveIndex, SkipOccupied, AdoptExisting, DownloadFails,
         AuthFails, Promote, Commit, Downloaded, Restore, Finish, Crash
    <2>3. orderly' \in BOOLEAN
      BY <1>0 DEF FlagType, history, Next, PlanStep, MoveStep, RenameStep, DownloadStep, EndStep,
         Admit, RunWhole, ProviderChanges, Begin, MoveOld, MoveFails, Moved, RecoverOne, RecoverFails,
         Recovered, StageRename, Staged, LandRename, SaveIndex, SkipOccupied, AdoptExisting, DownloadFails,
         AuthFails, Promote, Commit, Downloaded, Restore, Finish, Crash
    <2>4. passed' \in SUBSET Stems
      BY <1>0 DEF FlagType, history, Next, PlanStep, MoveStep, RenameStep, DownloadStep, EndStep,
         Admit, RunWhole, ProviderChanges, Begin, MoveOld, MoveFails, Moved, RecoverOne, RecoverFails,
         Recovered, StageRename, Staged, LandRename, SaveIndex, SkipOccupied, AdoptExisting,
         DownloadFails, AuthFails, Promote, Commit, Downloaded, Restore, Finish, Crash
    <2> QED BY <2>1, <2>2, <2>3, <2>4 DEF FlagType
  <1>3. \/ changes' = changes
        \/ changes < MaxChanges /\ changes' = changes + 1
    BY DEF history, Next, PlanStep, MoveStep, RenameStep, DownloadStep, EndStep,
       Admit, RunWhole, ProviderChanges, Begin, MoveOld, MoveFails, Moved, RecoverOne, RecoverFails, Recovered,
       StageRename, Staged, LandRename, SaveIndex, SkipOccupied, AdoptExisting, DownloadFails,
       AuthFails, Promote, Commit, Downloaded, Restore, Finish, Crash
  <1>4. \/ faults' = faults
        \/ faults < MaxFaults /\ faults' = faults + 1
    BY DEF history, Next, PlanStep, MoveStep, RenameStep, DownloadStep, EndStep,
       Admit, RunWhole, ProviderChanges, Begin, MoveOld, MoveFails, Moved, RecoverOne, RecoverFails, Recovered,
       StageRename, Staged, LandRename, SaveIndex, SkipOccupied, AdoptExisting, DownloadFails,
       AuthFails, Promote, Commit, Downloaded, Restore, Finish, Crash
  <1>5. BoundType' BY <1>0, <1>3, <1>4, SyncAssumption DEF BoundType
  <1> QED BY <1>1, <1>2, <1>5

LEMMA StepInv ==
  ASSUME IInv, [Next]_vars
  PROVE  IInv'
  <1>1. CASE Next
    <2>1. FilesType' /\ FilesTitled' BY <1>1, FilesStep DEF Folders, FilesType, FilesTitled
    <2>2. IndexType' /\ IndexTitled'
      BY <1>1, IndexStep DEF Indexes, IndexType, IndexTitled, Named
    <2> QED BY <1>1, <2>1, <2>2, RunStep, HistoryStep DEF RunInv, IInv, TypeOK
  <1>2. CASE UNCHANGED vars
    BY <1>2 DEF vars, IInv, TypeOK, FilesType, IndexType, RunType, FlagType, BoundType, ActsInv,
       Meant, Named, PhaseInv, Moving, Fetching, IndexTitled, FilesTitled, SelInv
  <1> QED BY <1>1, <1>2

LEMMA Invariance == Spec => []IInv
  <1>1. Init => IInv BY InitInv
  <1>2. IInv /\ [Next]_vars => IInv' BY StepInv
  <1> QED BY <1>1, <1>2, PTL DEF Spec

-----------------------------------------------------------------------------
(***************************************************************************)
(* What a step may do to the files.                                        *)
(***************************************************************************)

(* A restricted run promotes into an empty episode and moves nothing.      *)
LEMMA OnlyAddsStep ==
  ASSUME IInv, [Next]_vars, sel # Whole, pc # "idle", NEW s \in Stems, lib[s] # None
  PROVE  lib'[s] = lib[s]
  <1>1. CASE lib' = lib BY <1>1
  <1>2. \A a \in todo : pc # "admitted" => a.kind = "add" /\ ~Moving(a)
    BY ActionFacts DEF IInv, SelInv, Moving
  <1>3. CASE PlanStep
    BY <1>1, <1>3 DEF PlanStep, Admit, RunWhole, ProviderChanges, Begin
  <1>4. CASE MoveStep
    <2>1. ~\E a \in todo : pc = "move" BY <1>2 DEF IInv, PhaseInv
    <2> QED BY <1>1, <1>4, <2>1 DEF MoveStep, Moved, MoveOld, MoveFails
  <1>5. CASE RenameStep
    <2>1. ~\E a \in todo : pc \in {"stage", "land"} BY <1>2 DEF IInv, PhaseInv
    <2>2. ASSUME NEW t \in Stems, RecoverOne(t) PROVE lib'[s] = lib[s]
      BY <2>2 DEF RecoverOne, IInv, TypeOK, FilesType
    <2> QED BY <1>1, <1>5, <2>1, <2>2 DEF RenameStep, RecoverFails, Recovered, Staged, SaveIndex,
                                          StageRename, LandRename
  <1>6. CASE DownloadStep
    <2>1. ASSUME NEW a \in todo, Promote(a) PROVE lib'[s] = lib[s]
      <3>1. a.kind = "add" /\ pc = "download" BY <2>1, <1>2 DEF Promote, AtDownload
      <3>2. a.new \in Stems BY <3>1, NewName
      <3>3. lib[a.new] = None BY <2>1, <3>1, <3>2 DEF Promote, NotSkipped, Occupied
      <3> QED BY <2>1, <3>3 DEF Promote, IInv, TypeOK, FilesType
    <2> QED BY <1>1, <1>6, <2>1 DEF DownloadStep, Downloaded, SkipOccupied, AdoptExisting,
                                    DownloadFails, AuthFails, Commit
  <1>7. CASE EndStep BY <1>1, <1>7 DEF EndStep, Finish, Crash, Restore
  <1>8. CASE UNCHANGED vars BY <1>1, <1>8 DEF vars
  <1> QED BY <1>3, <1>4, <1>5, <1>6, <1>7, <1>8 DEF Next

(* It renames nothing either: what it changes among the temporary files is *)
(* what recovery settles, and a name that is taken by a file of the same   *)
(* title is taken by the same video, where no other shares the title.      *)
LEMMA SettlesStep ==
  ASSUME IInv, [Next]_vars, sel # Whole, pc # "idle",
         NEW s \in Stems, tmp[s] # None, tmp'[s] # tmp[s]
  PROVE  Settled(s)
  <1>0. /\ lib \in [Stems -> Videos \cup {None}] /\ tmp \in [Stems -> Videos \cup {None}]
        /\ tmp' # tmp
    BY DEF IInv, TypeOK, FilesType
  <1>1. ASSUME NEW t \in Stems, RecoverOne(t) PROVE Settled(s)
    <2>1. t = s BY <1>0, <1>1 DEF RecoverOne
    <2>2. CASE lib[s] = None
      <3>1. lib'[s] = tmp[s] BY <1>0, <1>1, <2>1, <2>2 DEF RecoverOne
      <3> QED BY <3>1 DEF Settled
    <2>3. CASE lib[s] # None
      <3>1. lib'[s] = lib[s] BY <1>1, <2>1, <2>3 DEF RecoverOne
      <3>2. lib[s] \in Videos /\ tmp[s] \in Videos /\ Title[lib[s]] = Title[tmp[s]]
        BY <1>0, <2>3 DEF IInv, FilesTitled
      <3>3. OwnTitle(tmp[s]) => lib[s] = tmp[s] BY <3>2 DEF OwnTitle
      <3> QED BY <2>3, <3>1, <3>3 DEF Settled
    <2> QED BY <2>2, <2>3
  <1>2. ASSUME NEW a \in todo, pc \in {"stage", "land"} PROVE FALSE
    BY <1>2, ActionFacts DEF IInv, SelInv, PhaseInv
  <1>3. CASE RenameStep
    BY <1>0, <1>1, <1>2, <1>3 DEF RenameStep, RecoverFails, Recovered, Staged, SaveIndex, StageRename,
       LandRename
  <1>4. CASE PlanStep BY <1>0, <1>4 DEF PlanStep, Admit, RunWhole, ProviderChanges, Begin
  <1>5. CASE MoveStep BY <1>0, <1>5 DEF MoveStep, Moved, MoveOld, MoveFails
  <1>6. CASE DownloadStep
    BY <1>0, <1>6 DEF DownloadStep, Downloaded, SkipOccupied, AdoptExisting, DownloadFails, AuthFails,
       Promote, Commit
  <1>7. CASE EndStep BY <1>0, <1>7 DEF EndStep, Finish, Crash, Restore
  <1>8. CASE UNCHANGED vars BY <1>0, <1>8 DEF vars
  <1> QED BY <1>3, <1>4, <1>5, <1>6, <1>7, <1>8 DEF Next

(* Files of one title are of one video, when no other shares it: what      *)
(* writes over such a video's file, or drops it, has another of it at hand.*)
LEMMA OwnVideoStep ==
  ASSUME IInv, [Next]_vars, NEW v \in Videos, OwnTitle(v), Held(v), ~Held(v)'
  PROVE  Archived(v)
  <1>0. /\ lib \in [Stems -> Videos \cup {None}] /\ tmp \in [Stems -> Videos \cup {None}]
        /\ v # None
    BY NoneAssumption DEF IInv, TypeOK, FilesType
  <1>1. ASSUME NEW s \in Stems, NEW w \in Videos, s.title = Title[v], s.title = Title[w]
        PROVE  w = v
    BY <1>1 DEF OwnTitle
  <1>2. ASSUME NEW s \in Stems
        PROVE  /\ lib[s] = v \/ tmp[s] = v => s.title = Title[v]
               /\ s.title = Title[v] => lib[s] \in {v, None} /\ tmp[s] \in {v, None}
               /\ lib'[s] # v /\ tmp'[s] # v
    BY <1>0, <1>1 DEF IInv, FilesTitled, Held
  <1>3. PICK s \in Stems : lib[s] = v \/ tmp[s] = v BY DEF Held
  <1>4. CASE UNCHANGED <<lib, tmp>> BY <1>2, <1>3, <1>4
  <1>5. CASE PlanStep
    BY <1>4, <1>5 DEF PlanStep, Admit, RunWhole, ProviderChanges, Begin
  <1>6. ASSUME NEW a \in todo, MoveOld(a) PROVE Archived(v)
    <2>1. a.old.stem = s /\ lib[s] = v BY <1>0, <1>2, <1>3, <1>6 DEF MoveOld
    <2>2. a.video \in Videos /\ a.old.stem.title = Title[a.video]
          /\ pc = "move" /\ Moving(a)
      BY <1>6, ActionFacts DEF MoveOld, IInv, PhaseInv
    <2>3. a.video = v BY <1>1, <1>2, <2>1, <2>2
    <2> QED BY <2>2, <2>3 DEF Archived
  <1>7. CASE MoveStep BY <1>4, <1>6, <1>7 DEF MoveStep, Moved, MoveFails
  <1>8. ASSUME NEW t \in Stems, RecoverOne(t) PROVE FALSE
    <2>1. CASE s = t BY <1>0, <1>2, <1>3, <1>8, <2>1 DEF RecoverOne
    <2>2. CASE s # t BY <1>0, <1>2, <1>3, <1>8, <2>2 DEF RecoverOne
    <2> QED BY <2>1, <2>2
  <1>9. ASSUME NEW a \in todo, StageRename(a) PROVE FALSE
    <2>0. FileAt(a.old) # None BY <1>4, <1>9, <1>2, <1>3 DEF StageRename
    <2>1. /\ a.old.stem \in Stems /\ FileAt(a.old) = lib[a.old.stem]
          /\ a.old.stem.title = Title[a.video] /\ a.video \in Videos
      BY <2>0, ActionFacts
    <2>2. a.new \in Stems /\ a.new.title = Title[a.video] BY <1>9, NewName DEF StageRename
    <2>3. /\ tmp' = [tmp EXCEPT ![a.new] = lib[a.old.stem]]
          /\ lib' = [lib EXCEPT ![a.old.stem] = None]
      BY <1>9, <2>0 DEF StageRename
    <2>4. tmp'[a.new] = lib[a.old.stem] BY <1>0, <2>2, <2>3
    <2>5. lib[a.old.stem] # v BY <1>2, <2>2, <2>4
    <2>6. CASE lib[s] = v
      <3>1. s # a.old.stem BY <2>5, <2>6
      <3>2. lib'[s] = lib[s] BY <1>0, <2>3, <3>1
      <3> QED BY <1>2, <2>6, <3>2
    <2>7. CASE tmp[s] = v
      <3>1. CASE s = a.new
        <4>1. a.video = v BY <1>1, <1>2, <2>1, <2>2, <2>7, <3>1
        <4>2. lib[a.old.stem] = v BY <1>2, <2>0, <2>1, <4>1
        <4> QED BY <2>5, <4>2
      <3>2. CASE s # a.new
        <4>1. tmp'[s] = tmp[s] BY <1>0, <2>3, <3>2
        <4> QED BY <1>2, <2>7, <4>1
      <3> QED BY <3>1, <3>2
    <2> QED BY <1>3, <2>6, <2>7
  <1>10. ASSUME NEW a \in todo, LandRename(a) PROVE FALSE
    <2>1. a.new \in Stems BY <1>10, NewName DEF LandRename
    <2>2. CASE s = a.new
      <3>1. tmp[s] = v \/ (tmp[s] = None /\ lib[s] = v) BY <1>2, <1>3
      <3>2. lib'[s] = v BY <1>0, <1>10, <2>2, <3>1 DEF LandRename
      <3> QED BY <1>2, <3>2
    <2>3. CASE s # a.new
      <3>1. lib'[s] = lib[s] /\ tmp'[s] = tmp[s] BY <1>0, <1>10, <2>1, <2>3 DEF LandRename
      <3> QED BY <1>2, <1>3, <3>1
    <2> QED BY <2>2, <2>3
  <1>11. CASE RenameStep
    BY <1>2, <1>3, <1>8, <1>9, <1>10, <1>11 DEF RenameStep, RecoverFails, Recovered, Staged, SaveIndex
  <1>12. ASSUME NEW a \in todo, Promote(a) PROVE FALSE
    <2>1. a.new \in Stems /\ a.new.title = Title[a.video] /\ a.video \in Videos
      BY <1>12, NewName, ActionFacts DEF Promote, AtDownload
    <2>2. tmp' = tmp /\ lib' = [lib EXCEPT ![a.new] = a.video] BY <1>12 DEF Promote
    <2>3. lib[s] = v /\ s = a.new BY <1>0, <1>2, <1>3, <2>1, <2>2
    <2>4. a.video = v BY <1>1, <1>2, <2>1, <2>3
    <2>5. lib'[s] = v BY <1>0, <2>2, <2>3, <2>4
    <2> QED BY <1>2, <2>5
  <1>13. CASE DownloadStep
    BY <1>4, <1>12, <1>13 DEF DownloadStep, Downloaded, SkipOccupied, AdoptExisting, DownloadFails,
       AuthFails, Commit
  <1>14. CASE EndStep BY <1>4, <1>14 DEF EndStep, Finish, Crash, Restore
  <1>15. CASE UNCHANGED vars BY <1>4, <1>15 DEF vars
  <1> QED BY <1>5, <1>7, <1>11, <1>13, <1>14, <1>15 DEF Next

-----------------------------------------------------------------------------
(***************************************************************************)
(* Theorems.                                                               *)
(***************************************************************************)

(* Type correctness; in particular every action executed has a destination *)
(* unless it removes, and the index holds entries of the listing's form.   *)
THEOREM TypeCorrect == Spec => []TypeOK
  <1>1. IInv => TypeOK BY DEF IInv
  <1> QED BY <1>1, Invariance, PTL

(* Whatever crashes, a file or temporary file never carries the title of   *)
(* another video: renames and recovery move a video under its own title.   *)
THEOREM FilesKeepTitles == Spec => []FilesTitled
  <1>1. IInv => FilesTitled BY DEF IInv
  <1> QED BY <1>1, Invariance, PTL

(* A run of selected downloads takes no file of the season away and changes*)
(* none. It does recover: a temporary file gets its name, or is dropped    *)
(* where the name is taken, never as the only copy of a video that shares  *)
(* its title with none.                                                    *)
THEOREM SelectedOnlyAdd == Spec => SelectedRunsOnlyAdd
  <1>1. IInv /\ [Next]_vars =>
          [sel # Whole /\ pc # "idle" =>
              \A s \in Stems : /\ lib[s] # None => lib'[s] = lib[s]
                               /\ tmp[s] # None /\ tmp'[s] # tmp[s] => Settled(s)]_vars
    BY OnlyAddsStep, SettlesStep
  <1> QED BY <1>1, Invariance, PTL DEF Spec, SelectedRunsOnlyAdd

(* HeldVideosKept for the videos that share their title with no other:     *)
(* they are never lost to a rename, a recovery or a download, whenever runs*)
(* die.                                                                    *)
OwnVideosKept ==
  [][\A v \in Videos : Held(v) /\ ~Held(v)' /\ OwnTitle(v) => Archived(v)]_vars
THEOREM OwnVideosStay == Spec => OwnVideosKept
  <1>1. IInv /\ [Next]_vars =>
          [\A v \in Videos : Held(v) /\ ~Held(v)' /\ OwnTitle(v) => Archived(v)]_vars
    BY OwnVideoStep
  <1> QED BY <1>1, Invariance, PTL DEF Spec, OwnVideosKept
=============================================================================
